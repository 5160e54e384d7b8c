SPECIFICATION FairSpec
CONSTANTS
    a = a
    b = b
    Claims = {a, b}
    Guarded = {a}
    Policies = {"Delete", "Retain"}
    ClaimsOf <- MCClaimsOf
    None = None
    MaxEdits = 1
    MaxFaults = 1
PROPERTIES
    DataKept
    ServedAtLast
CHECK_DEADLOCK FALSE
