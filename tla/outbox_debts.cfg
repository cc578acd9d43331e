CONSTANTS
    Entry = {e1, e2}
    Width = 2
    MaxAttempts = 2
    Slots = 2
    MaxMishaps = 1
    Faults = {"restart", "disk", "edit"}

SPECIFICATION FairSpec

INVARIANTS
    TypeOK
    DeadHadItsTries

PROPERTIES
    DebtSpec
    EveryDebtSettles

CHECK_DEADLOCK FALSE
