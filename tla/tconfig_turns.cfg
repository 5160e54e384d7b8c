SPECIFICATION FairSpec
CONSTANTS
    Absent = Absent
    None = None
    r1 = r1
    r2 = r2
    Config = {1, 2, 3}
    Master = {1, 2}
    Request = {r1, r2}
    MaxHistory = 1
    Faults = {"apiError"}
    MaxFaults = 1
INVARIANTS
    OneActive
    ChosenIsActive
    NodeHasMaster
PROPERTIES
    MarksAreActedOn
    ServesChosenAtLast
CHECK_DEADLOCK FALSE
