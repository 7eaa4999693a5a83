SPECIFICATION Spec
CONSTANTS
    u1 = u1  u2 = u2  e1 = e1  e2 = e2  p1 = p1  p2 = p2  p3 = p3  v1 = v1  v2 = v2
    None = None
    NullPtr = NullPtr
    Uuids = {u1, u2}
    ExtIds = {e1, e2}
    Props = {p1, p2, p3}
    Times = {2, 10}
    Values = {v1, v2}
    MinBulk = 1
    MaxPending = 2
    WithoutDevice <- UnknownDevice
    AsPosted <- UnknownInBerlin
    Stores <- AllStores
    Definitions <- FewDefinitions
    Batches <- FewBatches
    Sources <- BothSensors
    BeforeAsText <- TextOrder
INVARIANTS BackendTypeOK SensorsAreBuffered HandlersAgreeWithServer
PROPERTIES QueriesSeePending FlushStores DiskKeepsReadings NewSensorStartsEmpty SyncCopiesSensor ServerIsTransactional
