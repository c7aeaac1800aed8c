SPECIFICATION AppsSpec
CONSTANTS
    a1 = a1
    a2 = a2
    r1 = r1
    r2 = r2
    p1 = p1
    p2 = p2
    b = b
    w = w
    App = {a1}
    Dispatch = {r1}
    Manager = {b, w}
    Bridge = b
    NoManager = NoManager
    Process = {p1, p2}
    ByUser = {p2}
    NoProcess = NoProcess
    Command <- MCCommand
    StartCommand <- MCStartCommand
    Startup <- MCStartup
    Allowed <- MCAllowed
    Method <- MCMethod
    Path <- MCPath
    Port <- MCPort
    AppOf <- MCAppOf
    Backend = {"none", "down"}
    MaxEvents = 2
INVARIANTS AppsConsistent CallIsHandledOnce
PROPERTIES RequestIsAnswered ApprovalStopsProcess
CHECK_DEADLOCK FALSE
