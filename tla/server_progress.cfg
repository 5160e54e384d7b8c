SPECIFICATION FairSpec
CONSTANTS
    Pid = {1, 2}
    Adapter = {Servant, AdminAdapter}
    Servant = Servant
    AdminAdapter = AdminAdapter
    None = None
    LaunchInterval = 1
    TermTime = 1
    KillTime = 0
    HeartTimeout = 0
    MaxRequests = 1
    Faults = {"lost", "overtime", "noTemplate", "noLaunch", "hurry", "stuck", "deaf", "crash", "nodeCrash"}
    MaxFaults = 1
PROPERTIES
    StartEnds
    StopEnds
    StuckIsReplaced
    ConditionFollows
CHECK_DEADLOCK FALSE
