SPECIFICATION Spec
CONSTANTS
    p1 = p1
    p2 = p2
    p3 = p3
    a = a
    b = b
    u1 = u1
    u2 = u2
    u3 = u3
    i1 = i1
    i2 = i2
    i3 = i3
    d1 = d1
    d2 = d2
    NoProc = NoProc
    Procs = {p1, p2, p3}
    Files = {a, b}
    Scenarios <- AllScenarios
    SecondsPerDay = 4
    SecondsPerMinute = 2
INVARIANTS UpgradesComplete ScriptsShowReadings
PROPERTIES ToolsKeepReadings SyncToolCopies
CHECK_DEADLOCK FALSE
