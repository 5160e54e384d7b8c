SPECIFICATION Spec
CONSTANTS
    Pid = {1, 2, 3}
    Adapter = {Servant, AdminAdapter}
    Servant = Servant
    AdminAdapter = AdminAdapter
    None = None
    LaunchInterval = 1
    TermTime = 1
    KillTime = 0
    HeartTimeout = 0
    MaxRequests = 2
    Faults = {"lost", "overtime", "noTemplate", "noLaunch", "hurry", "stuck", "deaf", "late", "crash", "nodeCrash"}
    MaxFaults = 1
INVARIANTS
    TypeOK
    OneServer
PROPERTIES
    AskedFirst
CHECK_DEADLOCK FALSE
