SPECIFICATION Spec
CONSTANTS
    Absent = Absent
    None = None
    r1 = r1
    r2 = r2
    Config = {1, 2, 3}
    Master = {1, 2}
    Request = {r1, r2}
    MaxHistory = 1
    Faults = {"concurrent", "staleCache", "aborted", "apiError", "restart"}
    MaxFaults = 1
INVARIANTS
    TypeOK
PROPERTIES
    MarkCountsOnce
    DeletingIsFinal
SYMMETRY Symmetry
CHECK_DEADLOCK FALSE
