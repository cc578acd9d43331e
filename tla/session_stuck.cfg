CONSTANTS
    Filter = {a, b}
    Probe = sys
    Denied = {b}
    Task = {t1}
    Capacity = 2
    MaxDrops = 0
    MaxCmds = 0

SPECIFICATION FairSpec

PROPERTY RestoreFinishes

CHECK_DEADLOCK FALSE
