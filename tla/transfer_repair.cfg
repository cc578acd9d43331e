CONSTANTS
    Total = 2
    MaxNack = 2
    MaxServe = 2
    NackBatch = 2
    MaxGens = 1
    MaxLoss = 2
    Faults <- UserFaults

SPECIFICATION FairSpec

PROPERTIES
    LossIsRepaired
    ReceiverSettles

CHECK_DEADLOCK FALSE
