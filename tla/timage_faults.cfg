SPECIFICATION Spec
CONSTANTS
    None = None
    t1 = t1
    t2 = t2
    t3 = t3
    r1 = r1
    Task = {t1, t2}
    Release = {r1}
    Threads = 2
    Faults = {"apiError", "lostReply", "edit", "podDeleted", "evicted", "watchClosed", "crash", "restart", "overtime"}
    MaxFaults = 1
INVARIANTS
    TypeOK
    CopiesAreVersioned
    ReleasedOnce
PROPERTIES
    SlotNotStolen
    OnlyHolderPushes
SYMMETRY Symmetry
CHECK_DEADLOCK FALSE
