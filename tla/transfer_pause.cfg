CONSTANTS
    Total = 2
    MaxNack = 2
    MaxServe = 2
    NackBatch = 2
    MaxGens = 1
    MaxLoss = 1
    Faults <- PauseFaults

SPECIFICATION FairSpec

PROPERTY PauseIsHarmless

CHECK_DEADLOCK FALSE
