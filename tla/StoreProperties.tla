-------------------------- MODULE StoreProperties --------------------------
(***************************************************************************)
(* What a store has to get right, over the actions of module Store.        *)
(***************************************************************************)
EXTENDS Store

(* Invariants *)

\* A sensor has a place for pending readings exactly while it is in the sensor
\* buffer: set_buffers and clear_buffers keep the two maps together on every
\* path, so no flush or addition meets a sensor without operations.
BuffersAgree ==
    \A u \in Uuids : buf.ops[u] # None <=> buf.sensors[u] \notin {None, NullPtr}

\* While clients are orderly and nothing outside fails, the sensors an open
\* store answers for are the sensors of its database, each with its table: at
\* every point of a sync, and after any rollback, rotation or restart.
BuffersMirrorDatabase ==
    Orderly /\ Faults = {} /\ status = "open" =>
        \A u \in Uuids :
            /\ buf.sensors[u] # None <=> conn[u] # None
            /\ conn[u] # None => HasTable(conn, u) /\ buf.sensors[u].ext = conn[u].ext

\* Under the same conditions _external_ids_buffer leads to every buffered
\* sensor and to nothing else, so that neither a lookup nor a sync meets a
\* sensor that is gone.
ExternalIdsLeadToSensors ==
    Orderly /\ Faults = {} =>
        \A e \in ExtIds, u \in Uuids :
            buf.ids[e] = u <=>
                buf.sensors[u] \notin {None, NullPtr} /\ buf.sensors[u].ext = e

-----------------------------------------------------------------------------
(* Action properties *)

\* What the store answers when it is asked for u's readings: a pending update
\* before what the table has, and that before a pending insertion.
Series(u) ==
    [t \in Times |->
        CASE ~HasTable(conn, u) -> None
          [] HasTable(conn, u) /\ buf.ops[u] = None -> conn[u].readings[t]
          [] HasTable(conn, u) /\ buf.ops[u] # None ->
                KeepFirst(buf.ops[u].upd, KeepFirst(conn[u].readings, buf.ops[u].ins))[t]]

\* Every sensor the store answers for has its table.  BuffersMirrorDatabase
\* implies it, but a crash in the middle of a rotation may end it for good.
Whole == \A u \in Buffered(buf) : HasTable(conn, u)

\* Buffering cannot be observed: commit_transaction, flush and the flush in
\* front of every query move readings from memory to the file and leave what
\* the store answers as it was, while no table is missing.  (For the flushes
\* that throw in an automatic transaction, flush(false) because a time repeats
\* and any flush because a table is missing, see FailedFlushKeepsReadings.)
FlushIsInvisible ==
    [][/\ Whole
       /\ \/ CommitTransaction
          \/ Flush(TRUE)
          \/ ~AutoCommit /\ Flush(FALSE)
          \/ \E u \in Uuids : ReadReadings(u)
       => \A u \in Uuids : Series(u)' = Series(u)]_vars

\* add_reading and add_readings add the timestamps the sensor does not have,
\* whether they are stored, pending or pending as updates, change no recorded
\* reading, and touch no other sensor: with and without the flush the call may
\* cause, inside and outside a transaction, while no table is missing.
AddAppends ==
    [][\A u \in Uuids, rs \in Readings :
          Whole /\ AddReadings(u, rs, "INSERT") =>
              \A w \in Uuids :
                  Series(w)' = IF w = u THEN KeepFirst(Series(u), rs) ELSE Series(w)]_vars

\* A sensor that is added starts without readings and takes none from another
\* sensor, even if its uuid or external id was in use before.
NewSensorHasNoReadings ==
    [][\A u \in Uuids, s \in Sensors :
          AddSensor(u, s) =>
              \A w \in Uuids : Series(w)' = IF w = u THEN NoReadings ELSE Series(w)]_vars

\* A synchronised sensor is found under the source's external id with the
\* source's definition, answers for every reading of the source with the
\* source's value, and no other sensor's readings change: whichever of the two
\* stores knew the external id first, under whatever uuid, and whether or not a
\* flush falls due in the middle of the sync.
SyncCopies ==
    [][\A u \in Uuids :
          SyncSensor(u) /\ syncing' # None =>
              LET row == syncing.todo[u] IN
              \E w \in Uuids :
                  /\ buf'.ids[row.ext] = w
                  /\ conn'[w] # None /\ conn'[w].ext = row.ext /\ conn'[w].props = row.props
                  /\ syncing.readings =>
                        \A t \in Recorded(row.readings) : Series(w)'[t] = row.readings[t]
                  /\ \A x \in Uuids \ {w} : Series(x)' = Series(x)]_vars

RotationStep ==
    \/ Rotate
    \/ CrashBeforeInitialized
    \/ \E S \in SUBSET Uuids :
          CrashWhileRotating(S) \/ \E u \in S : CrashBeforeTable(S, u)

Kept(db, u, t) == HasTable(db, u) /\ db[u].readings[t] # None

\* The readings a step may take from the file and from the connection.
ReadingsStayPut ==
    \A u \in Uuids, t \in Times :
        /\ Kept(disk, u, t) /\ ~Kept(disk', u, t) =>
              ~Kept(conn, u, t) \/ RemoveSensor(u) \/ RotationStep
        /\ Kept(conn, u, t) /\ ~Kept(conn', u, t) =>
              ~Kept(disk, u, t) \/ RemoveSensor(u) \/ RotationStep

\* A committed reading leaves the file only by a rotation, by remove_sensor,
\* or with the commit of a transaction that had already removed it, and a
\* transaction that has seen a reading loses it only by a rotation, by
\* remove_sensor, or because it was not committed: no failed or refused call,
\* redefinition, sync, flush, restart or crash loses what was stored.
ReadingsStay == [][ReadingsStayPut]_vars

\* The file behaves as a transactional one under automatic and manual commits:
\* the connection reads what is kept except inside a transaction, and a commit,
\* a rollback, a failed call, a close and a crash leave it in one of two states.
File == INSTANCE TransactionalFile
            WITH Contents <- Databases, committed <- disk, current <- conn,
                 active <- inTxn

FileIsTransactional == File!Spec

-----------------------------------------------------------------------------
(* Liveness *)

Pending(u, t) ==
    /\ buf.ops[u] # None
    /\ buf.ops[u].ins[t] # None \/ buf.ops[u].upd[t] # None

\* The store has no timer of its own: readings are flushed by the addition
\* that follows the timeout.  So the clock has to run, a sync has to go
\* through its loop, and the client has to go on adding readings whenever the
\* store lets it.
LoggerSpec ==
    /\ Spec
    /\ WF_vars(TimeoutElapses)
    /\ WF_vars(SyncEnd \/ \E u \in Uuids : SyncSensor(u))
    /\ SF_vars(\E u \in Uuids, rs \in Readings : AddReadings(u, rs, "INSERT"))

\* With automatic flushes and commits no reading stays in memory for ever,
\* whichever sensor the logger goes on with, unless a crash in the middle of a
\* rotation left a sensor without its table, on which every flush throws.
PendingReadingsLeaveMemory ==
    \A u \in Uuids, t \in Times : Pending(u, t) ~> ~Pending(u, t) \/ ~Whole

-----------------------------------------------------------------------------
(* What the documentation leads one to expect, and the code does not do.  *)

\* "The store is responsible for storing the data along with the metadata in a
\* consistent manner" (README.md:19), and a store synchronised twice has the
\* readings of both sources (tests/sensors/test_readings.cpp:812): neither
\* update_sensor nor a sync makes a reading disappear.
RedefinitionKeepsReadings ==
    [][\A u \in Uuids :
          SyncSensor(u) \/ (\E s \in Sensors : UpdateSensor(u, s)) =>
              \A w \in Uuids : Recorded(Series(w)) \subseteq Recorded(Series(w)')]_vars

\* Likewise a flush that throws leaves the readings it was to write, in memory
\* or in the file: a flush(false) that meets a repeated time, and, after a
\* rotation that was killed between the two statements of a sensor, any flush.
FailedFlushKeepsReadings ==
    [][\A ignore \in BOOLEAN :
          Flush(ignore) => \A u \in Uuids : Series(u)' = Series(u)]_vars

\* "When automatic commits are off, a transaction must be open before any
\* operation is invoked" (tests/store/test_sqlite3_store.cpp:322).
WritesNeedTransaction ==
    [][~AutoCommit /\ disk' # disk => inTxn \/ RotationStep]_vars
=============================================================================
