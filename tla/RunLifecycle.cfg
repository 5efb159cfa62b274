\* Two processes started three times in all, and two servers that offer at most one tool each.
SPECIFICATION Spec
CONSTANTS
    Procs = {p1, p2}
    NoProc = NoProc
    ServerCount = 2
    Tools = {a, b, read}
    Builtins = {read}
    ConnectAttempts = 2
    MaxListed = 1
    NeedsLogin = {1}
    MaxStarts = 3
    MaxLost = 1
SYMMETRY Interchangeable
INVARIANTS
    OneRunAtATime
    LogIsClosed
    ExitTellsTheCause
    ToolsFollowConfig
CHECK_DEADLOCK FALSE
