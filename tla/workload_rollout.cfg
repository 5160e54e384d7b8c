SPECIFICATION FairSpec
CONSTANTS
    Kinds = {"StatefulSet", "DaemonSet", "Service"}
    SpecsOf <- MCSpecsOf
    None = None
    MaxEdits = 3
    Faults = {"fail", "restart", "lag", "edit", "delete", "relist"}
    MaxFaults = 1
INVARIANTS
    TypeOK
PROPERTIES
    NeverGoesBack
    ClaimsAfterSet
    RollsOut
CHECK_DEADLOCK FALSE
