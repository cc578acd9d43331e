CONSTANTS
    Call = {c1, c2}
    Topic = {t1, t2}
    Attempts = {2}
    Collect = {2}
    Kept = 1
    Faults = {"subscribe", "publish", "disconnect", "clear"}

SPECIFICATION FairSpec

INVARIANTS
    TypeOK
    TopicOpen
    NothingLeft

PROPERTIES
    FinishedOnce
    CallsFinish

CHECK_DEADLOCK FALSE
