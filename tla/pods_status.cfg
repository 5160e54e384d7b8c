SPECIFICATION FairSpec
CONSTANTS
    a = a
    b = b
    Kinds = {"TEndpoint", "TExitedRecord", "TServer"}
    Pods = {a, b}
    PodsOf <- MCPodsOf
    SpecsOf <- MCSpecsOf
    None = None
    Limit = 2
    CheckLen = 1
    EditsOf <- MCEditsOf
    Faults = {"fail", "restart", "relist", "edit", "delete"}
    MaxFaults = 1
PROPERTIES
    StatusFollows
    NewestKept
    ExitRecorded
CHECK_DEADLOCK FALSE
