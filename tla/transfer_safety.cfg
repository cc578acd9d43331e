CONSTANTS
    Total = 2
    MaxNack = 1
    MaxServe = 1
    NackBatch = 1
    MaxGens = 1
    MaxLoss = 0
    Faults <- HostileFaults

SPECIFICATION Spec

INVARIANTS
    TypeOK
    SavedIsIntact
    DeliveredMeansSaved
    RowTellsOutcome
    NoTempLeft

PROPERTIES
    ReceiverRowFinal
    DeliverySpec

CHECK_DEADLOCK FALSE
