------------------------------- MODULE Store -------------------------------
(***************************************************************************)
(* One klio::Store over a SQLite3 file: the public methods of              *)
(* libklio/store.cpp with the record operations, transactions and life     *)
(* cycle of libklio/sqlite3.  A method is one action that makes every       *)
(* change the call makes; only sync, a loop over the source's sensors that *)
(* holds a transaction open, is one action per iteration.  A call that     *)
(* throws before it changed anything is a stuttering step and has no       *)
(* disjunct.                                                               *)
(***************************************************************************)
EXTENDS StoreBuffers

CONSTANTS
    AutoCommit,  \* _auto_commit
    AutoFlush,   \* _auto_flush
    HomeExt,     \* the external id each sensor is created with
    Clients,     \* what clients do besides adding and removing sensors:
                 \* "redefine" them with update_sensor, "rename" their external
                 \* ids, and call it for a sensor "unknown" to the store
    Faults,      \* what may fail outside the library: a "commit" (SQLITE_BUSY,
                 \* the file is shared with other processes), a sync's "source",
                 \* the process in a "rotation", between the two statements
                 \* that put a sensor into the new file
    Sources      \* the contents of the stores this one is synchronised with

ASSUME OptionsAssumption ==
    /\ AutoCommit \in BOOLEAN
    /\ AutoFlush \in BOOLEAN
    /\ Clients \subseteq {"redefine", "rename", "unknown"}
    /\ Faults \subseteq {"commit", "source", "rotation"}
    /\ HomeExt \in [Uuids -> ExtIds]

\* Clients that keep a sensor's external id for its life and update only
\* sensors the store has.
Orderly == Clients \subseteq {"redefine"}

\* A source is itself a store: its sensors have their tables (else it throws
\* when their readings are asked for), its external ids are unique, and between
\* orderly clients a sensor has its external id in every store.
ASSUME SourcesAssumption ==
    /\ Sources \subseteq WholeDatabases
    /\ \A src \in Sources : \A u \in Uuids :
          src[u] # None => /\ ~Taken(src, u, src[u].ext)
                           /\ Orderly => src[u].ext = HomeExt[u]

\* A running sync: the source's sensors it has yet to visit, and whether it
\* copies their readings.
Syncs == [todo : WholeDatabases, readings : BOOLEAN]

ASSUME NoSyncAssumption == None \notin Syncs

VARIABLES
    disk,     \* what is committed to the file
    conn,     \* what the connection reads: disk and its uncommitted writes
    inTxn,    \* the connection is between BEGIN and COMMIT or ROLLBACK; with
              \* manual commits this is _transaction->pending()
    buf,      \* the three buffers of the Store object
    due,      \* now - _last_flush >= _flush_timeout
    status,   \* "open", "closed" (_db = NULL, or the process is gone), or
              \* "refused" (and the file is one check_integrity refuses)
    syncing   \* the running sync, or None

vars == <<disk, conn, inTxn, buf, due, status, syncing>>

TypeOK ==
    /\ disk \in Databases
    /\ conn \in Databases
    /\ inTxn \in BOOLEAN
    /\ buf \in Buffers
    /\ due \in BOOLEAN
    /\ status \in {"open", "closed", "refused"}
    /\ syncing \in Syncs \cup {None}

\* A store as the factory creates it: an empty file, _last_flush = 0.
Init ==
    /\ disk = EmptyDatabase
    /\ conn = EmptyDatabase
    /\ inTxn = FALSE
    /\ buf = EmptyBuffers
    /\ due = TRUE
    /\ status = "open"
    /\ syncing = None

-----------------------------------------------------------------------------
(* Transactions *)

Idle == status = "open" /\ syncing = None

\* auto_start_transaction does not throw.
MayWrite == Idle /\ (AutoCommit \/ inTxn)

\* A loop over _sensors_buffer would dereference a null sensor: the process
\* dies, which is what Crash models.
NoNullSensor == \A u \in Uuids : buf.sensors[u] # NullPtr

\* Mutants: the handler's destructor does not roll back; every call commits.
FinishWithoutRollback(db, ok) ==
    /\ conn' = db
    /\ IF AutoCommit /\ ok THEN disk' = db ELSE UNCHANGED disk
FinishAtOnce(db, ok) == conn' = db /\ disk' = db

\* The end of a call that began with auto_start_transaction and leaves the
\* connection at db.  With automatic commits the call's own handler commits;
\* if the call throws, or COMMIT is refused (which is only logged), the
\* handler's destructor rolls back.
Finish(db, ok) ==
    \/ /\ ~AutoCommit
       /\ conn' = db
       /\ UNCHANGED disk
    \/ /\ AutoCommit
       /\ ok
       /\ conn' = db
       /\ disk' = db
    \/ /\ AutoCommit
       /\ ok => "commit" \in Faults
       /\ conn' = disk
       /\ UNCHANGED disk

StartTransaction ==
    /\ Idle
    /\ ~AutoCommit
    /\ ~inTxn          \* else it is only logged
    /\ inTxn' = TRUE
    /\ UNCHANGED <<disk, conn, buf, due, status, syncing>>

\* flush_all(_auto_flush), then COMMIT.  Without a pending transaction the
\* readings are written one statement at a time and COMMIT is skipped.
CommitTransaction ==
    /\ Idle
    /\ ~AutoCommit
    /\ NoNullSensor
    /\ \E r \in FlushAllOutcomes(conn, buf, AutoFlush) :
          /\ conn' = r.db
          /\ buf' = r.buf
          /\ \/ /\ r.ok \/ ~inTxn
                /\ disk' = r.db
                /\ inTxn' = FALSE
             \/ /\ inTxn
                /\ r.ok => "commit" \in Faults
                /\ UNCHANGED <<disk, inTxn>>
    /\ UNCHANGED <<due, status, syncing>>

\* Mutant: rollback_transaction does not refill the buffers.
RollbackWithoutReload ==
    /\ Idle
    /\ ~AutoCommit
    /\ conn' = disk
    /\ inTxn' = FALSE
    /\ UNCHANGED <<disk, buf, due, status, syncing>>

RollbackTransaction ==
    /\ Idle
    /\ ~AutoCommit
    /\ conn' = disk
    /\ inTxn' = FALSE
    /\ buf' = LoadBuffers(disk)
    /\ UNCHANGED <<disk, due, status, syncing>>

-----------------------------------------------------------------------------
(* Sensors *)

\* External ids a client gives to sensor u.
ClientIds(u) == IF "rename" \in Clients THEN ExtIds ELSE {HomeExt[u]}

ClientSensors(u) == [ext : ClientIds(u), props : Props]

AddSensor(u, s) ==
    /\ MayWrite
    /\ CanInsert(conn, u, s)
    /\ Finish(InsertSensor(conn, u, s), TRUE)
    /\ buf' = SetBuffers(buf, u, s)
    /\ UNCHANGED <<inTxn, due, status, syncing>>

\* clear_buffers is given the object the buffer holds, or, if it holds none,
\* one that get_sensors read from the table.
RemoveSensor(u) ==
    LET e == IF buf.sensors[u] \in {None, NullPtr} THEN conn[u].ext
             ELSE buf.sensors[u].ext
    IN
    /\ MayWrite
    /\ HasTable(conn, u)
    /\ Finish(DeleteSensor(conn, u), TRUE)
    /\ buf' = ClearSensor(buf, u, e)
    /\ UNCHANGED <<inTxn, due, status, syncing>>

\* DROP TABLE throws.  The row is deleted by then, and with manual commits it
\* stays so.
RemoveSensorWithoutTable(u) ==
    /\ MayWrite
    /\ ~AutoCommit
    /\ conn[u] # None
    /\ ~HasTable(conn, u)
    /\ conn' = DeleteSensor(conn, u)
    /\ UNCHANGED <<disk, inTxn, buf, due, status, syncing>>

UpdateSensor(u, s) ==
    /\ MayWrite
    /\ "redefine" \in Clients
    /\ conn[u] = None => "unknown" \in Clients
    /\ conn[u] # None => ~Taken(conn, u, s.ext)
    /\ Finish(UpdateRecord(conn, u, s), TRUE)
    /\ buf' = SetBuffers(buf, u, s)
    /\ UNCHANGED <<inTxn, due, status, syncing>>

\* update_sensor throws, but the client changed the very object the buffer
\* holds (get_sensor hands it out, add_sensor keeps the caller's).
UpdateSensorRefused(u, s) ==
    /\ Idle
    /\ "redefine" \in Clients
    /\ buf.sensors[u] \notin {None, NullPtr}
    /\ ~MayWrite \/ (conn[u] # None /\ Taken(conn, u, s.ext))
    /\ buf' = [buf EXCEPT !.sensors[u] = s]
    /\ UNCHANGED <<disk, conn, inTxn, due, status, syncing>>

\* get_sensors_by_external_id: operator[] files a null pointer under a uuid
\* that has an external id entry and no sensor.
LookupByExternalId(e) ==
    /\ Idle
    /\ buf.ids[e] # None
    /\ buf.sensors[buf.ids[e]] = None
    /\ buf' = [buf EXCEPT !.sensors[buf.ids[e]] = NullPtr]
    /\ UNCHANGED <<disk, conn, inTxn, due, status, syncing>>

-----------------------------------------------------------------------------
(* Readings *)

\* add_reading, add_readings and update_readings with their auto_flush.  When
\* a flush is due and no transaction is open, the call throws after the
\* readings were buffered.
AddReadings(u, rs, kind) ==
    LET b == BufferReadings(buf, u, rs, kind) IN
    /\ Idle
    /\ buf.sensors[u] \notin {None, NullPtr}
    /\ buf.ops[u] # None
    /\ rs # NoReadings
    /\ \/ /\ ~(AutoFlush /\ due /\ MayWrite)
          /\ buf' = b
          /\ UNCHANGED <<disk, conn, due>>
       \/ /\ AutoFlush /\ due /\ MayWrite
          /\ NoNullSensor
          /\ \E r \in FlushAllOutcomes(conn, b, TRUE) :
                /\ Finish(r.db, r.ok)
                /\ buf' = r.buf
                /\ due' = ~r.ok
    /\ UNCHANGED <<inTxn, status, syncing>>

\* flush(bool), and flush() with ignore = _auto_flush.
Flush(ignore) ==
    /\ MayWrite
    /\ NoNullSensor
    /\ \E r \in FlushAllOutcomes(conn, buf, ignore) :
          /\ Finish(r.db, r.ok)
          /\ buf' = r.buf
    /\ UNCHANGED <<inTxn, due, status, syncing>>

\* get_all_readings, get_timeframe_readings, get_num_readings,
\* get_last_reading and get_reading: flush(sensor, true) comes first and does
\* not go through auto_start_transaction.  Of a sensor that is gone the flush
\* throws, or drops the readings if the statement is still cached; of one that
\* is stored without a table the flush or the query throws.
ReadReadings(u) ==
    LET db == FlushSensors(conn, buf, {u}) IN
    /\ Idle
    /\ buf.ops[u] # None
    /\ conn[u] # None => HasTable(conn, u)
    /\ conn' = db
    /\ disk' = IF inTxn THEN disk ELSE db
    /\ buf' = ClearOperations(buf, {u})
    /\ UNCHANGED <<inTxn, due, status, syncing>>

\* The clock of auto_flush.
TimeoutElapses ==
    /\ AutoFlush
    /\ due' = TRUE
    /\ UNCHANGED <<disk, conn, inTxn, buf, status, syncing>>

-----------------------------------------------------------------------------
(* Synchronisation *)

\* sync and sync_readings (with readings), or sync_sensors.
SyncBegin(src, readings) ==
    /\ MayWrite
    /\ inTxn' = TRUE
    /\ syncing' = [todo |-> src, readings |-> readings]
    /\ UNCHANGED <<disk, conn, buf, due, status>>

\* The loop goes on, or an exception leaves sync and the handler of an
\* automatic transaction rolls back.  The buffers keep what the loop did.
SyncLeaves(u, db, ok) ==
    IF ok
    THEN /\ conn' = db
         /\ syncing' = [syncing EXCEPT !.todo[u] = None]
         /\ UNCHANGED inTxn
    ELSE /\ conn' = IF AutoCommit THEN disk ELSE db
         /\ syncing' = None
         /\ inTxn' = ~AutoCommit

\* The sensor that stands for the source's sensor u, with external id e.
LocalUuidByUuid(u, e) == u       \* Mutant: external ids are not looked up.
LocalUuid(u, e) == IF buf.ids[e] = None THEN u ELSE buf.ids[e]

\* One iteration: the source's readings, sync_sensor_record, set_buffers and,
\* if any readings came, add_readings as updates.  A flush that falls due runs
\* inside the transaction sync holds: the BEGIN of its own handler is refused,
\* so its COMMIT does nothing.
SyncSensor(u) ==
    LET row == syncing.todo[u]
        s == [ext |-> row.ext, props |-> row.props]
        known == buf.ids[row.ext]
        local == LocalUuid(u, row.ext)
        changed == known # None /\ buf.sensors[known].props # row.props
        fits == IF known = None THEN CanInsert(conn, u, s)
                ELSE changed /\ conn[local] # None => ~Taken(conn, local, s.ext)
        db == IF known = None THEN InsertSensor(conn, u, s)
              ELSE IF changed THEN UpdateRecord(conn, local, s) ELSE conn
        copying == syncing.readings /\ row.readings # NoReadings
        b == IF copying
             THEN BufferReadings(SetBuffers(buf, local, s), local, row.readings, "UPDATE")
             ELSE SetBuffers(buf, local, s)
    IN
    /\ status = "open" /\ syncing # None
    /\ row # None
    /\ known # None => buf.sensors[known] \notin {None, NullPtr}   \* else Crash
    /\ \/ /\ ~fits
          /\ SyncLeaves(u, conn, FALSE)
          /\ UNCHANGED <<buf, due>>
       \/ /\ fits
          /\ ~(copying /\ AutoFlush /\ due)
          /\ SyncLeaves(u, db, TRUE)
          /\ buf' = b
          /\ UNCHANGED due
       \/ /\ fits
          /\ copying /\ AutoFlush /\ due
          /\ \A w \in Uuids : b.sensors[w] # NullPtr
          /\ \E r \in FlushAllOutcomes(db, b, TRUE) :
                /\ SyncLeaves(u, r.db, r.ok)
                /\ buf' = r.buf
                /\ due' = ~r.ok
    /\ UNCHANGED <<disk, status>>

\* The source throws when its readings are asked for.
SyncSourceFails(u) ==
    /\ "source" \in Faults
    /\ status = "open" /\ syncing # None
    /\ syncing.readings
    /\ syncing.todo[u] # None
    /\ SyncLeaves(u, conn, FALSE)
    /\ UNCHANGED <<disk, buf, due, status>>

SyncEnd ==
    /\ status = "open" /\ syncing # None
    /\ syncing.todo = EmptyDatabase
    /\ Finish(conn, TRUE)
    /\ inTxn' = ~AutoCommit
    /\ syncing' = None
    /\ UNCHANGED <<buf, due, status>>

-----------------------------------------------------------------------------
(* Life cycle *)

Prepare ==
    /\ status' = "open"
    /\ buf' = LoadBuffers(disk)
    /\ UNCHANGED <<disk, conn, inTxn, syncing>>

\* open, check_integrity and prepare; due, because _last_flush of a new object
\* is 0, or as it was when the same object is opened again.
Open ==
    /\ status = "closed"
    /\ Prepare
    /\ due' \in {due, TRUE}

\* create_sqlite3_store on a file that may be there: open, initialize, which
\* adds what is missing, and prepare.
Create ==
    /\ status \in {"closed", "refused"}
    /\ Prepare
    /\ due' = TRUE

\* close: a pending transaction is rolled back and the buffers are dropped.
Close ==
    /\ Idle
    /\ status' = "closed"
    /\ conn' = disk
    /\ inTxn' = FALSE
    /\ buf' = EmptyBuffers
    /\ UNCHANGED <<disk, due, syncing>>

\* The file a rotation leaves: the buffered sensors in S, without readings.
RotatedDatabase(S) ==
    [u \in Uuids |-> IF u \in S
                     THEN [ext |-> buf.sensors[u].ext, props |-> buf.sensors[u].props,
                           readings |-> NoReadings]
                     ELSE None]

Distinct(S) == \A u, w \in S : buf.sensors[u].ext = buf.sensors[w].ext => u = w

\* rotate: the file is renamed, and each buffered sensor is added to the new
\* one, by two statements that are committed by themselves, until an external
\* id repeats.
Rotate ==
    /\ Idle
    /\ ~inTxn
    /\ NoNullSensor
    /\ \E S \in SUBSET Buffered(buf) :
          /\ Distinct(S)
          /\ S # Buffered(buf) => \E f \in Buffered(buf) \ S : ~Distinct(S \cup {f})
          /\ disk' = RotatedDatabase(S)
          /\ conn' = RotatedDatabase(S)
    /\ UNCHANGED <<inTxn, buf, due, status, syncing>>

\* The process ends without a word.
Ended(db) ==
    /\ disk' = db
    /\ conn' = db
    /\ inTxn' = FALSE
    /\ buf' = EmptyBuffers
    /\ due' = TRUE
    /\ syncing' = None

Stopped(db) == Ended(db) /\ status' = "closed"

Crash == status = "open" /\ Stopped(disk)

\* ... while readings are being written outside a transaction: the file has
\* the insertions up to some timestamp, or all of them and the updates up to it.
CrashWhileWriting(u, kind, cut) ==
    LET upTo(r) == [t \in Times |-> IF t <= cut THEN r[t] ELSE None]
        o == buf.ops[u]
        early == IF kind = "INSERT" THEN [ins |-> upTo(o.ins), upd |-> NoReadings]
                 ELSE [ins |-> o.ins, upd |-> upTo(o.upd)]
    IN
    /\ Idle
    /\ ~inTxn
    /\ o # None
    /\ HasTable(conn, u)
    /\ Stopped([conn EXCEPT ![u] =
                  [conn[u] EXCEPT !.readings = Written(conn[u].readings, early)]])

\* rotate has put the sensors in S into the new file.
Rotating(S) ==
    /\ Idle
    /\ ~inTxn
    /\ S \subseteq Buffered(buf)
    /\ \A u \in S : buf.sensors[u] # NullPtr
    /\ Distinct(S)

\* ... while rotate is filling the new file, between two sensors,
CrashWhileRotating(S) ==
    /\ Rotating(S)
    /\ Stopped(RotatedDatabase(S))

\* ... after the INSERT of a sensor and before its CREATE TABLE,
CrashBeforeTable(S, u) ==
    /\ "rotation" \in Faults
    /\ Rotating(S)
    /\ u \in S
    /\ Stopped([RotatedDatabase(S) EXCEPT ![u].readings = None])

\* ... or before the new file has its tables and its version.
CrashBeforeInitialized ==
    /\ Rotating({})
    /\ Ended(EmptyDatabase)
    /\ status' = "refused"

-----------------------------------------------------------------------------
Next ==
    \/ StartTransaction
    \/ CommitTransaction
    \/ RollbackTransaction
    \/ \E u \in Uuids :
          \/ \E s \in ClientSensors(u) :
                \/ AddSensor(u, s)
                \/ UpdateSensor(u, s)
                \/ UpdateSensorRefused(u, s)
          \/ RemoveSensor(u)
          \/ RemoveSensorWithoutTable(u)
          \/ \E rs \in Readings, kind \in {"INSERT", "UPDATE"} : AddReadings(u, rs, kind)
          \/ ReadReadings(u)
          \/ SyncSensor(u)
          \/ SyncSourceFails(u)
          \/ \E kind \in {"INSERT", "UPDATE"}, cut \in Times :
                CrashWhileWriting(u, kind, cut)
    \/ \E e \in ExtIds : LookupByExternalId(e)
    \/ \E ignore \in BOOLEAN : Flush(ignore)
    \/ \E src \in Sources, readings \in BOOLEAN : SyncBegin(src, readings)
    \/ SyncEnd
    \/ TimeoutElapses
    \/ Open
    \/ Create
    \/ Close
    \/ Rotate
    \/ Crash
    \/ \E S \in SUBSET Uuids :
          \/ CrashWhileRotating(S)
          \/ \E u \in S : CrashBeforeTable(S, u)
    \/ CrashBeforeInitialized

Spec == Init /\ [][Next]_vars
=============================================================================
