SPECIFICATION Spec
CONSTANTS
    Absent = Absent
    None = None
    r1 = r1
    r2 = r2
    Config = {1, 2}
    Master = {1, 2}
    Request = {r1, r2}
    MaxHistory = 1
    Faults = {"concurrent"}
    MaxFaults = 0
INVARIANTS
    OneActive
CHECK_DEADLOCK FALSE
