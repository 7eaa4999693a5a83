--------------------------- MODULE RocksDBRecords ---------------------------
(***************************************************************************)
(* The record methods of klio::RocksDBStore: a directory for each sensor   *)
(* with a database of its properties and one of its readings.  The         *)
(* write-ahead log is always off, so readings live in a memtable until     *)
(* RocksDB writes them out or the database is closed.                      *)
(***************************************************************************)
EXTENDS BackendData

CONSTANT BeforeAsText(_, _)   \* the order of timestamps as decimal strings

\* Directories are made, and unmade, at once: the write reaches disk.
Directory(m, c) == [m EXCEPT !.view = c, !.disk.sensors = c.sensors]

-----------------------------------------------------------------------------
(* Life cycle *)

\* open of a new object goes through the uuids of its empty sensor buffer and
\* so opens no database, and prepare throws for a directory that is not open.
Prepare(m) == [srv |-> m,
               ok |-> \A u \in Uuids : m.view.sensors[u] = None,
               sensors |-> Nothing.sensors]

\* Closing a database writes out its memtable.
Close(m) == Disconnected(m.view)

\* initialize and dispose remove the directory with all that is in it.
Initialize(m) == Disconnected(Nothing)
Dispose(m) == Disconnected(Nothing)

\* RocksDB writes out a memtable in its own time.
Persist(m, u) == [m EXCEPT !.disk.readings[u] = m.view.readings[u]]

-----------------------------------------------------------------------------
(* Sensors *)

\* put_sensor and get_sensor_records: no key for the device type.
Keys(s) == Converted(s, WithoutDevice)

\* create_directory throws if the directory exists.
AddSensorRecord(m, u, s) ==
    IF m.view.sensors[u] # None THEN Thrown(m)
    ELSE Done(Directory(m, PutSensor(m.view, u, Keys(s))))

\* Mutant: the database of the readings is not removed.
RemovePropertiesOnly(m, u) == Done(Directory(m, PutSensor(m.view, u, None)))

\* Both databases are closed, and the directory is removed if there is one.
RemoveSensorRecord(m, u) ==
    Done([view |-> Without(m.view, u), disk |-> Without(m.disk, u), txn |-> m.txn,
          prepared |-> m.prepared, noisy |-> m.noisy])

\* put_sensor does not create a database.
UpdateSensorRecord(m, u, s) ==
    IF m.view.sensors[u] = None THEN Thrown(m)
    ELSE Done(Directory(m, PutSensor(m.view, u, Keys(s))))

-----------------------------------------------------------------------------
(* Readings *)

\* Put replaces a value, and a WriteBatch is many of them.
PutValues(m, u, rs) ==
    Done([m EXCEPT !.view.readings[u] = KeepFirst(rs, m.view.readings[u])])

AddSingleReadings(m, u, rs) == PutValues(m, u, rs)

AddBulkReadings(m, u, rs) == PutValues(m, u, rs)

InsertReadings(m, u, rs) ==
    IF Cardinality(Recorded(rs)) <= MinBulk
    THEN AddSingleReadings(m, u, rs)
    ELSE AddBulkReadings(m, u, rs)

UpdateReadings(m, u, rs) == AddBulkReadings(m, u, rs)

-----------------------------------------------------------------------------
(* Queries *)

GetAll(m, u) == {m.view.readings[u]}

GetTimeframe(m, u, from, to) == {Between(m.view.readings[u], from, to)}

GetNumber(m, u) == {Cardinality(Recorded(rs)) : rs \in GetAll(m, u)}

\* SeekToLast goes to the greatest key, and keys are decimal strings.  Without
\* any key the iterator is not valid and is read all the same.
GetLast(m, u) ==
    LET pairs == Pairs(m.view.readings[u])
        last == {p \in pairs : \A q \in pairs \ {p} : BeforeAsText(q[1], p[1])}
    IN IF pairs = {} THEN AnyPair ELSE last

GetOne(m, u, time) == {ReadingAt(rs, time) : rs \in GetAll(m, u)}
=============================================================================
