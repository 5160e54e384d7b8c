SPECIFICATION FairSpec
CONSTANTS
    Watches = {te}
    Names = {a, b}
    Limit = 1
    Servers = {"registry", "config"}
    Faults = {"broken", "restart", "overtime"}
    MaxVersion = 4
    MaxFaults = 1
INVARIANT ServedInStep
PROPERTIES NeverGoesBack CatchesUp
CHECK_DEADLOCK FALSE
