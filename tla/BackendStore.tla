---------------------------- MODULE BackendStore ----------------------------
(***************************************************************************)
(* One klio::Store over each of the other backends: the public methods of  *)
(* libklio/store.cpp, which dispatch on the backend's record methods, its  *)
(* transaction handlers and its life cycle.  As in module Store a method   *)
(* is one action, sync is one action per sensor, and a call that throws    *)
(* before it changed anything has no disjunct.  Automatic flushes are on,  *)
(* and clients keep a sensor's external id and update sensors they got.    *)
(***************************************************************************)
EXTENDS BackendData, SequencesExt

CONSTANTS
    Stores,       \* the stores to look at: [kind, auto (_auto_commit), faulty]
    Definitions,  \* the sensors a client makes of each uuid
    Batches,      \* the readings it adds at once, for each uuid
    Sources,      \* the contents of the stores this one is synchronised with
    MaxPending,   \* bound on the readings in memory
    BeforeAsText(_, _)

Kinds == {"postgresql", "redis", "rocksdb", "txt", "msg"}
WithTransactions == {"postgresql", "redis"}

\* A std::map holds finitely many sensors.
ASSUME UuidsAssumption == IsFiniteSet(Uuids)

\* The other stores have no transaction handler and always commit by themselves.
ASSUME StoresAssumption ==
    /\ Stores \subseteq [kind : Kinds, auto : BOOLEAN, faulty : BOOLEAN]
    /\ \A s \in Stores : s.kind \in WithTransactions \/ s.auto

ASSUME ClientsAssumption ==
    /\ Definitions \in [Uuids -> SUBSET Sensors]
    /\ Batches \in [Uuids -> SUBSET Readings]
    /\ \A u, w \in Uuids : \A s \in Definitions[u], d \in Definitions[w] :
          s.ext = d.ext <=> u = w

\* Two timestamps are two strings.
ASSUME TextOrderAssumption ==
    \A s, t \in Times : s # t => BeforeAsText(s, t) \/ BeforeAsText(t, s)

ASSUME SourcesAssumption ==
    /\ Sources \subseteq WholeDatabases
    /\ \A src \in Sources, u \in Uuids :
          src[u] # None => [ext |-> src[u].ext, props |-> src[u].props] \in Definitions[u]

VARIABLES
    store,     \* which store this is
    srv,       \* the medium
    pending,   \* _pending of _transaction, or of the handler a sync holds
    buf,       \* the buffers
    due,       \* now - _last_flush >= _flush_timeout
    beat,      \* now - _last_heartbeat > 1800
    status,    \* "open", "closed", or "disposed"
    syncing    \* the running sync, or None

vars == <<store, srv, pending, buf, due, beat, status, syncing>>

Syncs == [todo : WholeDatabases, readings : BOOLEAN]

ASSUME NoSyncAssumption == None \notin Syncs

\* A store as the factory creates it.
Init ==
    /\ store \in Stores
    /\ srv = [Disconnected(Nothing) EXCEPT !.prepared = (store.kind = "postgresql")]
    /\ pending = FALSE
    /\ buf = EmptyBuffers
    /\ due = TRUE
    /\ beat = TRUE
    /\ status = "open"
    /\ syncing = None

-----------------------------------------------------------------------------
(* The virtual methods of Store *)

PG == INSTANCE PostgreSQLRecords
RD == INSTANCE RedisRecords
RO == INSTANCE RocksDBRecords
TX == INSTANCE TXTRecords
MS == INSTANCE MSGRecords WITH Faulty <- store.faulty

\* What each kind makes of one call, by kind.
AddSensorRecord(m, u, s) ==
    CASE store.kind = "postgresql" -> PG!AddSensorRecord(m, u, s)
      [] store.kind = "redis"      -> RD!AddSensorRecord(m, buf, u, s)
      [] store.kind = "rocksdb"    -> RO!AddSensorRecord(m, u, s)
      [] store.kind = "txt"        -> TX!AddSensorRecord(m, u, s)
      [] store.kind = "msg"        -> MS!AddSensorRecord(m, u, s)

RemoveSensorRecord(m, u) ==
    CASE store.kind = "postgresql" -> PG!RemoveSensorRecord(m, u)
      [] store.kind = "redis"      -> RD!RemoveSensorRecord(m, buf, u)
      [] store.kind = "rocksdb"    -> RO!RemoveSensorRecord(m, u)
      [] store.kind = "txt"        -> TX!RemoveSensorRecord(m, u)
      [] store.kind = "msg"        -> MS!RemoveSensorRecord(m, u)

UpdateSensorRecord(m, u, s) ==
    CASE store.kind = "postgresql" -> PG!UpdateSensorRecord(m, u, s)
      [] store.kind = "redis"      -> RD!UpdateSensorRecord(m, buf, u, s)
      [] store.kind = "rocksdb"    -> RO!UpdateSensorRecord(m, u, s)
      [] store.kind = "txt"        -> TX!UpdateSensorRecord(m, u, s)
      [] store.kind = "msg"        -> MS!UpdateSensorRecord(m, u, s)

InsertReadings(m, u, rs, ignore) ==
    CASE store.kind = "postgresql" -> PG!InsertReadings(m, u, rs, ignore)
      [] store.kind = "redis"      -> RD!InsertReadings(m, u, rs)
      [] store.kind = "rocksdb"    -> RO!InsertReadings(m, u, rs)
      [] store.kind = "txt"        -> TX!InsertReadings(m, u, rs)
      [] store.kind = "msg"        -> MS!InsertReadings(m, u, rs, ignore)

UpdateReadingRecords(m, u, rs, ignore) ==
    CASE store.kind = "postgresql" -> PG!UpdateReadings(m, u, rs, ignore)
      [] store.kind = "redis"      -> RD!UpdateReadings(m, u, rs)
      [] store.kind = "rocksdb"    -> RO!UpdateReadings(m, u, rs)
      [] store.kind = "txt"        -> TX!UpdateReadings(m, u, rs)
      [] store.kind = "msg"        -> MS!UpdateReadings(m, u, rs, ignore)

Prepares(m) ==
    CASE store.kind = "postgresql" -> {PG!Prepare(m)}
      [] store.kind = "redis"      -> {RD!Prepare(m)}
      [] store.kind = "rocksdb"    -> {RO!Prepare(m)}
      [] store.kind = "txt"        -> {TX!Prepare(m)}
      [] store.kind = "msg"        -> MS!Prepare(m)

Closed(m) ==
    CASE store.kind = "postgresql" -> PG!Close(m)
      [] store.kind = "redis"      -> RD!Close(m)
      [] store.kind = "rocksdb"    -> RO!Close(m)
      [] store.kind = "txt"        -> TX!Close(m)
      [] store.kind = "msg"        -> MS!Close(m)

Disposals(m) ==
    CASE store.kind = "postgresql" -> {PG!Dispose(m)}
      [] store.kind = "redis"      -> {RD!Dispose(m)}
      [] store.kind = "rocksdb"    -> {RO!Dispose(m)}
      [] store.kind = "txt"        -> {TX!Dispose(m)}
      [] store.kind = "msg"        -> MS!Dispose(m)

\* CREATE TABLE IF NOT EXISTS, and nothing for Redis: what is there stays.
Initializations(m) ==
    CASE store.kind \in WithTransactions -> Done(m)
      [] store.kind = "rocksdb"          -> Done(RO!Initialize(m))
      [] store.kind = "txt"              -> Done(TX!Initialize(m))
      [] store.kind = "msg"              -> MS!Initialize(m)

Begin(m) == IF store.kind = "redis" THEN RD!Begin(m) ELSE PG!Begin(m)
Commit(m) == IF store.kind = "redis" THEN RD!Commit(m) ELSE PG!Commit(m)
Rollback(m) == IF store.kind = "redis" THEN RD!Rollback(m) ELSE PG!Rollback(m)

-----------------------------------------------------------------------------
(* Transactions *)

HasHandler == store.kind \in WithTransactions

\* auto_start_transaction, of a call that has a handler of its own.
Started(m) == IF HasHandler /\ store.auto THEN Begin(m) ELSE [srv |-> m, ok |-> FALSE]

\* Mutant: the destructor does not roll back.
EndedPending(m, isPending, returned) == IF isPending /\ returned THEN Commit(m).srv ELSE m

\* auto_commit_transaction, and the destructor of a handler still pending.
Ended(m, isPending, returned) ==
    LET c == IF isPending /\ returned THEN Commit(m) ELSE [srv |-> m, ok |-> FALSE]
    IN IF isPending /\ ~c.ok THEN Rollback(c.srv).srv ELSE c.srv

\* A call between auto_start_transaction and auto_commit_transaction.
Call(m, Body(_)) ==
    LET h == Started(m)
    IN {[o EXCEPT !.srv = Ended(o.srv, h.ok, o.ok)] : o \in Body(h.srv)}

Idle == status = "open" /\ syncing = None

\* auto_start_transaction does not throw.
MayWrite == Idle /\ (HasHandler => store.auto \/ pending)

-----------------------------------------------------------------------------
(* Flushing *)

\* Mutant: flush(sensor, ...) forgets the updates.
FlushSensorInsertions(m, b, u, ignore) ==
    {[srv |-> r.srv, ok |-> r.ok, buf |-> IF r.ok THEN ClearOperations(b, {u}) ELSE b] :
        r \in InsertReadings(m, u, b.ops[u].ins, ignore)}

\* flush(sensor, ignore): the insertions, then the updates if there are any;
\* each is cleared once it was handed over without an exception.
FlushSensor(m, b, u, ignore) ==
    LET inserted == InsertReadings(m, u, b.ops[u].ins, ignore)
        updates == b.ops[u].upd
        half == [b EXCEPT !.ops[u].ins = NoReadings]
        updated(n) == IF updates = NoReadings THEN Done(n)
                      ELSE UpdateReadingRecords(n, u, updates, ignore)
    IN IF b.ops[u] = None
       THEN {[srv |-> m, buf |-> b, ok |-> FALSE]}
       ELSE {[srv |-> r.srv, buf |-> b, ok |-> FALSE] : r \in {i \in inserted : ~i.ok}}
            \cup UNION {{[srv |-> r.srv, ok |-> r.ok,
                          buf |-> IF r.ok THEN ClearOperations(b, {u}) ELSE half] :
                            r \in updated(i.srv)} : i \in {j \in inserted : j.ok}}

\* The loop of flush_all over the n sensors of an order, up to the first flush
\* that throws.
FlushInOrder(m, b, ignore, order, n) ==
    LET after[i \in 0 .. n] ==
            IF i = 0 THEN {[srv |-> m, buf |-> b, ok |-> TRUE]}
            ELSE UNION {IF o.ok THEN FlushSensor(o.srv, o.buf, order[i], ignore) ELSE {o} :
                           o \in after[i - 1]}
    IN after[n]

\* flush_all: the sensors in any order.
FlushAll(m, b, ignore) ==
    UNION {FlushInOrder(m, b, ignore, order, Cardinality(Buffered(b))) :
              order \in SetToSeqs(Buffered(b))}

\* auto_flush.  The flush timeout of a TXT store is 0.
FlushIfDue(m, b, mayWrite) ==
    IF ~due THEN {[srv |-> m, buf |-> b, ok |-> TRUE, due |-> FALSE]}
    ELSE IF ~mayWrite THEN {[srv |-> m, buf |-> b, ok |-> FALSE, due |-> TRUE]}
    ELSE {[srv |-> o.srv, buf |-> o.buf, ok |-> o.ok,
           due |-> store.kind = "txt" \/ ~o.ok] :
             o \in Call(m, LAMBDA n : FlushAll(n, b, TRUE))}

-----------------------------------------------------------------------------
(* The client's transactions *)

StartTransaction ==
    /\ Idle
    /\ ~store.auto
    /\ ~pending          \* else it is only logged
    /\ srv' = Begin(srv).srv
    /\ pending' = Begin(srv).ok
    /\ UNCHANGED <<store, buf, due, beat, status, syncing>>

CommitTransaction ==
    /\ Idle
    /\ ~store.auto
    /\ \E o \in FlushAll(srv, buf, TRUE) :
          LET c == IF o.ok /\ pending THEN Commit(o.srv) ELSE [srv |-> o.srv, ok |-> ~pending]
          IN /\ srv' = c.srv
             /\ pending' = ~c.ok
             /\ buf' = o.buf
    /\ UNCHANGED <<store, due, beat, status, syncing>>

\* Rollback, clear_buffers and prepare; PostgreSQL's throws with empty buffers.
RollbackTransaction ==
    LET r == IF pending THEN Rollback(srv) ELSE [srv |-> srv, ok |-> TRUE] IN
    /\ Idle
    /\ ~store.auto
    /\ \E p \in Prepares(r.srv) :
          /\ srv' = p.srv
          /\ buf' = IF p.ok THEN LoadBuffers(p.sensors) ELSE EmptyBuffers
    /\ pending' = ~r.ok
    /\ UNCHANGED <<store, due, beat, status, syncing>>

-----------------------------------------------------------------------------
(* Sensors *)

\* A record method, and what it makes of the buffers when it returns.
SensorCall(Method(_), after) ==
    /\ MayWrite
    /\ \E o \in Call(srv, Method) :
          /\ srv' = o.srv
          /\ buf' = IF o.ok THEN after ELSE buf
    /\ UNCHANGED <<store, pending, due, beat, status, syncing>>

AddSensor(u, s) ==
    SensorCall(LAMBDA m : AddSensorRecord(m, u, s), SetBuffers(buf, u, s))

\* Mutant: the buffers are left to the next prepare.
RemoveSensorFromDatabase(u) ==
    /\ buf.sensors[u] # None
    /\ SensorCall(LAMBDA m : RemoveSensorRecord(m, u), buf)

RemoveSensor(u) ==
    /\ buf.sensors[u] # None
    /\ SensorCall(LAMBDA m : RemoveSensorRecord(m, u),
                  ClearSensor(buf, u, buf.sensors[u].ext))

UpdateSensor(u, s) ==
    /\ buf.sensors[u] # None
    /\ SensorCall(LAMBDA m : UpdateSensorRecord(m, u, s), SetBuffers(buf, u, s))

-----------------------------------------------------------------------------
(* Readings *)

InMemory(b) ==
    LET count(u) == IF b.ops[u] = None THEN 0
                    ELSE Cardinality(Recorded(b.ops[u].ins)) + Cardinality(Recorded(b.ops[u].upd))
    IN FoldLeft(LAMBDA n, u : n + count(u), 0, SetToSeq(Uuids))

AddReadings(u, rs, kind) ==
    LET b == BufferReadings(buf, u, rs, kind) IN
    /\ Idle
    /\ buf.sensors[u] # None /\ buf.ops[u] # None
    /\ InMemory(b) <= MaxPending
    /\ \E o \in FlushIfDue(srv, b, MayWrite) :
          /\ srv' = o.srv
          /\ buf' = o.buf
          /\ due' = o.due
    /\ UNCHANGED <<store, pending, beat, status, syncing>>

\* flush(ignore).
Flush(ignore) ==
    /\ MayWrite
    /\ \E o \in Call(srv, LAMBDA m : FlushAll(m, buf, ignore)) :
          /\ srv' = o.srv
          /\ buf' = o.buf
    /\ UNCHANGED <<store, pending, due, beat, status, syncing>>

\* MSGStore::flush: a heartbeat that fails keeps the readings in memory.
BeatAndFlush ==
    /\ MayWrite
    /\ store.kind = "msg"
    /\ \E through \in MS!Heartbeats(beat), o \in FlushAll(srv, buf, TRUE) :
          /\ beat' = (beat /\ ~through)
          /\ srv' = IF through THEN o.srv ELSE srv
          /\ buf' = IF through THEN o.buf ELSE buf
    /\ UNCHANGED <<store, pending, due, status, syncing>>

\* Every query flushes its sensor, outside any transaction of its own, and
\* then asks the backend.
Query(u) ==
    /\ Idle
    /\ buf.ops[u] # None
    /\ \E o \in FlushSensor(srv, buf, u, TRUE) :
          /\ srv' = IF store.kind = "redis" THEN RD!Queried(o.srv) ELSE o.srv
          /\ buf' = o.buf
    /\ UNCHANGED <<store, pending, due, beat, status, syncing>>

TimeoutElapses ==
    /\ due' = TRUE
    /\ beat' = TRUE
    /\ UNCHANGED <<store, srv, pending, buf, status, syncing>>

-----------------------------------------------------------------------------
(* Synchronisation *)

SyncBegin(src, readings) ==
    /\ MayWrite
    /\ srv' = Started(srv).srv
    /\ pending' = (pending \/ Started(srv).ok)
    /\ syncing' = [todo |-> src, readings |-> readings]
    /\ UNCHANGED <<store, buf, due, beat, status>>

\* The loop goes on with sensor u done, or an exception leaves sync.
SyncGoesOn(u, m, ok) ==
    IF ok
    THEN /\ srv' = m
         /\ syncing' = [syncing EXCEPT !.todo[u] = None]
         /\ UNCHANGED pending
    ELSE /\ srv' = Ended(m, store.auto /\ pending, FALSE)
         /\ syncing' = None
         /\ pending' = (pending /\ ~store.auto)

\* One iteration; the flush that may be due has a handler of its own, whose
\* COMMIT ends the transaction the sync holds.
SyncSensor(u) ==
    LET row == syncing.todo[u]
        s == [ext |-> row.ext, props |-> row.props]
        known == buf.ids[row.ext]
        records == IF known = None THEN AddSensorRecord(srv, u, s)
                   ELSE IF buf.sensors[known].props # row.props
                   THEN UpdateSensorRecord(srv, known, s) ELSE Done(srv)
        local == IF known = None THEN u ELSE known
        b == SetBuffers(buf, local, s)
        copying == syncing.readings /\ row.readings # NoReadings
        buffered == IF copying THEN BufferReadings(b, local, row.readings, "UPDATE") ELSE b
    IN
    /\ status = "open" /\ syncing # None
    /\ row # None
    /\ known # None => buf.sensors[known] # None
    /\ \/ \E r \in {n \in records : ~n.ok} :
             /\ SyncGoesOn(u, r.srv, FALSE)
             /\ UNCHANGED <<buf, due>>
       \/ \E r \in {n \in records : n.ok} :
          \E o \in IF copying THEN FlushIfDue(r.srv, buffered, TRUE)
                   ELSE {[srv |-> r.srv, buf |-> b, ok |-> TRUE, due |-> due]} :
             /\ SyncGoesOn(u, o.srv, o.ok)
             /\ buf' = o.buf
             /\ due' = o.due
    /\ UNCHANGED <<store, beat, status>>

\* The source throws when its readings are asked for.
SyncSourceFails(u) ==
    /\ store.faulty
    /\ status = "open" /\ syncing # None
    /\ syncing.readings
    /\ syncing.todo[u] # None
    /\ SyncGoesOn(u, srv, FALSE)
    /\ UNCHANGED <<store, buf, due, beat, status>>

SyncEnd ==
    /\ status = "open" /\ syncing # None
    /\ syncing.todo = EmptyDatabase
    /\ srv' = Ended(srv, store.auto /\ pending, TRUE)
    /\ pending' = (pending /\ ~store.auto)
    /\ syncing' = None
    /\ UNCHANGED <<store, buf, due, beat, status>>

-----------------------------------------------------------------------------
(* Life cycle *)

\* A new object over medium m: prepare may throw, and the object is gone.
Prepared(m, beats) ==
    \E p \in Prepares(m) :
        /\ srv' = IF p.ok THEN p.srv ELSE Disconnected(p.srv.disk)
        /\ buf' = IF p.ok THEN LoadBuffers(p.sensors) ELSE EmptyBuffers
        /\ status' = IF p.ok THEN "open" ELSE "closed"
        /\ due' = TRUE
        /\ beat' = beats
        /\ UNCHANGED <<store, pending, syncing>>

\* Factory methods create_*: open, initialize, prepare.
Create ==
    /\ status # "open"
    /\ \E i \in Initializations(srv) : i.ok /\ Prepared(i.srv, TRUE)

\* Factory methods open_*: open, check_integrity (for mSG a heartbeat), prepare.
Open ==
    /\ status = "closed"
    /\ ~HasHandler
    /\ store.kind = "msg" => TRUE \in MS!Heartbeats(TRUE)
    /\ Prepared(srv, store.kind # "msg")

\* close, or the destructor.
Close ==
    /\ Idle
    /\ store.kind = "postgresql" => PG!CanFinalize(srv)
    /\ srv' = Closed(srv)
    /\ pending' = FALSE
    /\ buf' = EmptyBuffers
    /\ status' = "closed"
    /\ UNCHANGED <<store, due, beat, syncing>>

Dispose ==
    /\ Idle
    /\ store.kind = "postgresql" => PG!CanFinalize(srv)
    /\ srv' \in Disposals(srv)
    /\ pending' = FALSE
    /\ buf' = EmptyBuffers
    /\ status' = "disposed"
    /\ UNCHANGED <<store, due, beat, syncing>>

\* The process ends: the server takes back the open transaction, and the
\* memtables are gone.
Crash ==
    /\ status = "open"
    /\ srv' = Disconnected(srv.disk)
    /\ pending' = FALSE
    /\ buf' = EmptyBuffers
    /\ due' = TRUE
    /\ beat' = TRUE
    /\ status' = "closed"
    /\ syncing' = None
    /\ UNCHANGED store

\* RocksDB writes out a memtable.
PersistReadings(u) ==
    /\ store.kind = "rocksdb"
    /\ status = "open"
    /\ srv' = RO!Persist(srv, u)
    /\ UNCHANGED <<store, pending, buf, due, beat, status, syncing>>

-----------------------------------------------------------------------------
Next ==
    \/ StartTransaction
    \/ CommitTransaction
    \/ RollbackTransaction
    \/ \E u \in Uuids :
          \/ \E s \in Definitions[u] : AddSensor(u, s) \/ UpdateSensor(u, s)
          \/ RemoveSensor(u)
          \/ \E rs \in Batches[u], kind \in {"INSERT", "UPDATE"} : AddReadings(u, rs, kind)
          \/ Query(u)
          \/ SyncSensor(u)
          \/ SyncSourceFails(u)
          \/ PersistReadings(u)
    \/ \E ignore \in BOOLEAN : Flush(ignore)
    \/ BeatAndFlush
    \/ \E src \in Sources, readings \in BOOLEAN : SyncBegin(src, readings)
    \/ SyncEnd
    \/ TimeoutElapses
    \/ Create
    \/ Open
    \/ Close
    \/ Dispose
    \/ Crash

Spec == Init /\ [][Next]_vars
=============================================================================
