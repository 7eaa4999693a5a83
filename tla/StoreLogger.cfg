SPECIFICATION LoggerSpec
CONSTANTS
    u1 = u1  u2 = u2  e1 = e1  e2 = e2  p1 = p1  p2 = p2  v1 = v1  v2 = v2
    None = None
    NullPtr = NullPtr
    Uuids = {u1, u2}
    ExtIds = {e1, e2}
    Props = {p1}
    Times = {1, 2}
    Values = {v1}
    AutoCommit = TRUE
    AutoFlush = TRUE
    Clients = {"redefine"}
    Faults = {"rotation"}
    HomeExt <- OwnIds
    Sources <- OwnSources
PROPERTIES PendingReadingsLeaveMemory FlushIsInvisible AddAppends
