CONSTANTS
    Total = 1
    MaxNack = 1
    MaxServe = 1
    NackBatch = 1
    MaxGens = 2
    MaxLoss = 0
    Faults <- CancelFaults

SPECIFICATION Spec

INVARIANT SavedIsIntact

CHECK_DEADLOCK FALSE
