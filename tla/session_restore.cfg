CONSTANTS
    Filter = {a, b}
    Probe = sys
    Denied = {b, sys}
    Task = {t1}
    Capacity = 8
    MaxDrops = 2
    MaxCmds = 1

SPECIFICATION FairSpec

INVARIANT
    SlotsMatchAnswers

PROPERTIES
    RestoreBlamesRight
    LinkSettles
    RegistryRestored

CHECK_DEADLOCK FALSE
