SPECIFICATION FairSpec
CONSTANTS
    None = None
    t1 = t1
    t2 = t2
    t3 = t3
    r1 = r1
    Task = {t1, t2}
    Release = {r1}
    Threads = 1
    Faults = {"overtime", "quickPod", "crash"}
    MaxFaults = 1
INVARIANTS
    ReleasedWasPushed
PROPERTIES
    SlotIsFreed
    WaiterAnswered
CHECK_DEADLOCK FALSE
