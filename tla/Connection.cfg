SPECIFICATION Spec
CONSTANTS
    MinBulkSize = 1
    MaxBulkSize = 2
    MaxReadings = 5
    Sqls = {insertSensor, selectSensors, insertReading, hasTable}
    OwnSqls = {insertSensor, selectSensors}
    InsertSql = insertReading
    NoStatement = NoStatement
    MaxOpened = 3
    MaxPrepared = 8
INVARIANTS StatementsAreUsable
PROPERTIES FlushHandsOverEachOnce OnlyRollbacksLeak
CHECK_DEADLOCK FALSE
