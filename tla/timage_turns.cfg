SPECIFICATION Spec
CONSTANTS
    None = None
    t1 = t1
    t2 = t2
    t3 = t3
    r1 = r1
    Task = {t1, t2}
    Release = {r1}
    Threads = 1
    Faults = {"apiError", "podDeleted", "evicted", "crash", "restart"}
    MaxFaults = 3
INVARIANTS
    OneLiveBuild
    AnsweredOkIsReleased
    OutcomeAgrees
PROPERTIES
    OwnSlotFreed
    TakesTurns
SYMMETRY Symmetry
CHECK_DEADLOCK FALSE
