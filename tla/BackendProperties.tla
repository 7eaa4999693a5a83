------------------------- MODULE BackendProperties -------------------------
(***************************************************************************)
(* What a store over any backend has to get right, over the actions of     *)
(* module BackendStore, and for which backends the code gets it right.     *)
(***************************************************************************)
EXTENDS BackendStore

BackendTypeOK ==
    /\ store \in Stores
    /\ srv \in Media
    /\ pending \in BOOLEAN
    /\ buf \in Buffers
    /\ due \in BOOLEAN /\ beat \in BOOLEAN
    /\ status \in {"open", "closed", "disposed"}
    /\ syncing \in Syncs \cup {None}

-----------------------------------------------------------------------------
(* Invariants *)

\* A sensor as a kind of store will find it on its medium.
AsStored(s) ==
    CASE store.kind = "postgresql"                  -> s
      [] store.kind \in {"redis", "rocksdb", "txt"} -> Converted(s, WithoutDevice)
      [] store.kind = "msg"                         -> Converted(s, AsPosted)

\* While nothing outside fails, an open Redis, RocksDB or mSG store answers for
\* the very sensors of its medium, in transactions, syncs, after rollbacks and
\* restarts, and the medium defines each as memory does but for the device type
\* (and for mSG the time zone); with automatic commits PostgreSQL has no sensor its
\* store does not know (the converse fails: see UpdateReadings), and no TXT store
\* knows a sensor that has no file.
SensorsAreBuffered ==
    status = "open" /\ ~store.faulty =>
        \A u \in Uuids :
              /\ store.kind \in {"redis", "rocksdb", "msg"} =>
                    srv.view.sensors[u] = IF buf.sensors[u] = None THEN None
                                          ELSE AsStored(buf.sensors[u])
              /\ store.kind = "postgresql" /\ store.auto =>
                    (srv.view.sensors[u] # None => buf.sensors[u] # None)
              /\ store.kind = "txt" =>
                    (buf.sensors[u] # None => srv.view.sensors[u] # None)

\* No call with automatic commits leaves a transaction open, whatever throws
\* and however handlers are nested in a sync.  With manual commits the handler
\* of PostgreSQL is pending exactly while the server is in a transaction, and
\* that of Redis at least then: an EXEC it takes for a failure leaves it pending.
HandlersAgreeWithServer ==
    /\ store.auto /\ syncing = None => srv.txn = "none" /\ ~pending
    /\ ~store.auto => (srv.txn # "none" => pending)
    /\ ~store.auto /\ store.kind = "postgresql" => (pending => srv.txn # "none")

-----------------------------------------------------------------------------
(* Queries *)

\* The answers of the five queries, by kind.
All(u) ==
    CASE store.kind = "postgresql" -> PG!GetAll(srv, u)
      [] store.kind = "redis"      -> RD!GetAll(srv, u)
      [] store.kind = "rocksdb"    -> RO!GetAll(srv, u)
      [] store.kind = "txt"        -> TX!GetAll(srv, u)
      [] store.kind = "msg"        -> MS!GetAll(srv, u)

Timeframe(u, from, to) ==
    CASE store.kind = "postgresql" -> PG!GetTimeframe(srv, u, from, to)
      [] store.kind = "redis"      -> RD!GetTimeframe(srv, u, from, to)
      [] store.kind = "rocksdb"    -> RO!GetTimeframe(srv, u, from, to)
      [] store.kind = "txt"        -> TX!GetTimeframe(srv, u, from, to)
      [] store.kind = "msg"        -> MS!GetTimeframe(srv, u, from, to)

Number(u) ==
    CASE store.kind = "postgresql" -> PG!GetNumber(srv, u)
      [] store.kind = "redis"      -> RD!GetNumber(srv, u)
      [] store.kind = "rocksdb"    -> RO!GetNumber(srv, u)
      [] store.kind = "txt"        -> TX!GetNumber(srv, u)
      [] store.kind = "msg"        -> MS!GetNumber(srv, u)

LastOf(u) ==
    CASE store.kind = "postgresql" -> PG!GetLast(srv, u)
      [] store.kind = "redis"      -> RD!GetLast(srv, u)
      [] store.kind = "rocksdb"    -> RO!GetLast(srv, u)
      [] store.kind = "txt"        -> TX!GetLast(srv, u)
      [] store.kind = "msg"        -> MS!GetLast(srv, u)

One(u, time) ==
    CASE store.kind = "postgresql" -> PG!GetOne(srv, u, time)
      [] store.kind = "redis"      -> RD!GetOne(srv, u, time)
      [] store.kind = "rocksdb"    -> RO!GetOne(srv, u, time)
      [] store.kind = "txt"        -> TX!GetOne(srv, u, time)
      [] store.kind = "msg"        -> MS!GetOne(srv, u, time)

\* What waits for u and what is stored, merged as a flush of each kind merges them:
\* Redis and RocksDB replace values, updates last; a text file keeps the first line.
\* PostgreSQL has nothing to merge when it welcomes what waits.
Answer(u) ==
    LET ins == buf.ops[u].ins
        upd == buf.ops[u].upd
        old == srv.view.readings[u]
    IN CASE store.kind \in {"redis", "rocksdb"}   -> KeepFirst(upd, KeepFirst(ins, old))
         [] store.kind \in {"txt", "postgresql"} -> KeepFirst(old, KeepFirst(ins, upd))

\* The times an mSG server answers for: all but the first that was ever posted.
TimesButFirst(u) ==
    LET times == UNION {Recorded(rs) : rs \in {buf.ops[u].ins, buf.ops[u].upd,
                                                srv.view.readings[u]}}
    IN {t \in times : \E s \in times : s < t}

\* Nothing waits for PostgreSQL that it could refuse: one reading it has, or
\* any update, loses the whole flush.
Welcome ==
    /\ srv.txn # "aborted"
    /\ \A u \in Buffered(buf) :
          /\ buf.ops[u].upd = NoReadings
          /\ Recorded(buf.ops[u].ins) \cap Recorded(srv.view.readings[u]) = {}

\* A query answers for what was stored and for what waited in memory alike, inside
\* the client's transaction or outside: the flush in front of it hands over every
\* insertion and update, singly or in bulks, in the order that decides which value of
\* a time wins.  Not between MULTI and EXEC, when Redis answers nothing, nor when
\* PostgreSQL refuses what waits.
QueriesSeePending ==
    [][\A u \in Uuids :
          /\ Query(u) /\ ~store.faulty
          /\ store.kind = "redis" => srv.txn = "none"
          /\ store.kind = "postgresql" => Welcome
          => IF store.kind = "msg"
             THEN /\ \A rs \in All(u)' : Recorded(rs) = TimesButFirst(u)
                  /\ Number(u)' = {Cardinality(TimesButFirst(u))}
                  /\ \A t \in TimesButFirst(u) : \A answer \in One(u, t)' : answer[1] = t
             ELSE /\ All(u)' = {Answer(u)}
                  /\ Number(u)' = {Cardinality(Recorded(Answer(u)))}
                  /\ \A t \in Recorded(Answer(u)) : One(u, t)' = {<<t, Answer(u)[t]>>}]_vars

\* Idle and outside a transaction, when every server answers.
Answering == Idle /\ srv.txn = "none" /\ ~store.faulty

\* The queries of a store agree with each other, whatever the backend: the last
\* reading of a sensor with readings is the latest of them all, and a timeframe has
\* those between its ends.
QueriesAgree ==
    Answering =>
        \A u \in Buffered(buf) : NoReadings \notin All(u) =>
            /\ \A answer \in LastOf(u) : \E rs \in All(u) : answer \in Latest(rs)
            /\ \A from, to \in Times :
                  Timeframe(u, from, to) = {Between(rs, from, to) : rs \in All(u)}

-----------------------------------------------------------------------------
(* Action properties *)

Pending(u, t) ==
    /\ buf.ops[u] # None
    /\ buf.ops[u].ins[t] # None \/ buf.ops[u].upd[t] # None

Stored(u, t) == srv.view.readings[u][t] # None

FlushStep == BeatAndFlush \/ CommitTransaction
             \/ (\E ignore \in BOOLEAN : Flush(ignore))
             \/ (\E u \in Uuids : Query(u))

\* A reading leaves memory only when the backend has it: in the flush of an
\* addition, of a commit, in front of a query, with ignored errors or without.
\* It is given up only with its sensor, by a rollback or the end of the store,
\* and when the sensor is redefined by the client or a sync.  PostgreSQL has to
\* welcome the readings, and the mSG server has to answer; but a heartbeat that
\* fails keeps what the flush after it would have lost.
FlushStores ==
    [][\A u \in Uuids, t \in Times :
          Pending(u, t) /\ ~Pending(u, t)' /\ ~Stored(u, t)' =>
              LET safe == \/ store.kind \in {"redis", "rocksdb", "txt"}
                          \/ store.kind = "msg" /\ ~store.faulty
              IN /\ safe => \/ status' # "open"
                            \/ syncing # None /\ syncing.todo[u] # None
                            \/ RollbackTransaction
                            \/ RemoveSensor(u)
                            \/ \E s \in Definitions[u] : AddSensor(u, s) \/ UpdateSensor(u, s)
                 /\ store.kind = "postgresql" /\ Welcome => ~FlushStep
                 /\ store.kind = "msg" /\ beat /\ beat' => ~BeatAndFlush]_vars

\* The updates PostgreSQL may carry out in this step.
Updating(u) ==
    \/ buf.ops[u] # None /\ buf.ops[u].upd # NoReadings
    \/ SyncSensor(u)
    \/ \E rs \in Batches[u] : AddReadings(u, rs, "UPDATE")

\* A reading on disk keeps its value, which only Redis, RocksDB and mSG stores
\* replace by a later one; and it goes only with its sensor, with the store (dispose, and
\* create_* of a store in a directory), or with the commit of a transaction that
\* had already removed or updated it: no failed call, nested transaction, rollback,
\* redefinition, sync, restart or crash takes it.  PostgreSQL keeps the
\* readings of a removed sensor, and may move one when it is told to update.
DiskKeepsReadings ==
    [][\A u \in Uuids, t \in Times :
          srv.disk.readings[u][t] \notin {None, srv'.disk.readings[u][t]} =>
              \/ srv.view.readings[u][t] # srv.disk.readings[u][t]
              \/ srv'.disk.readings[u][t] # None /\ store.kind \in {"redis", "rocksdb", "msg"}
              \/ RemoveSensor(u) /\ store.kind # "postgresql"
              \/ Dispose
              \/ Create /\ store.kind \in {"rocksdb", "txt"}
              \/ store.kind = "postgresql" /\ Updating(u)]_vars

\* A sensor the store did not know starts without readings, even if its uuid
\* was in use before.  Not so in PostgreSQL, whose table readings outlives its
\* sensors, nor in Redis once a sync failed: its sensors are rolled back and
\* stay in the buffers, so that a later flush stores readings without a sensor.
NewSensorStartsEmpty ==
    [][\A u \in Uuids :
          /\ store.kind # "postgresql" /\ (store.kind = "redis" => ~store.faulty)
          /\ buf.sensors[u] = None /\ buf'.sensors[u] # None
          /\ \E s \in Definitions[u] : AddSensor(u, s)
          => \A t \in Times : ~Pending(u, t)' /\ ~Stored(u, t)']_vars

\* The values a sync has to win over: pending updates, what is stored, insertions.
Synced(u) ==
    KeepFirst(IF buf.ops[u] = None THEN NoReadings ELSE buf.ops[u].upd,
        KeepFirst(srv.view.readings[u], IF buf.ops[u] = None THEN NoReadings ELSE buf.ops[u].ins))

\* A step of a sync that does not end it.
Synchronised(u) ==
    /\ syncing # None /\ syncing' # None
    /\ syncing.todo[u] # None /\ syncing'.todo[u] = None

\* After the iteration of a sync a sensor is found under the source's external
\* id; the medium defines it as the source does, as far as it stores definitions;
\* and its readings are there or in memory, with the source's values in Redis and
\* RocksDB, whether or not a flush fell due.  A text file keeps the first
\* definition.  In PostgreSQL the readings arrive as updates, which store nothing
\* for a sensor without readings, and for one with several abort the sync's
\* transaction, definition and all.
SyncCopiesSensor ==
    [][\A u \in Uuids :
          Synchronised(u) =>
              LET row == syncing.todo[u] IN
              \E w \in Uuids :
                 /\ buf'.ids[row.ext] = w
                 /\ ~store.faulty /\ (\/ store.kind \in {"redis", "rocksdb", "msg"}
                                       \/ /\ store.kind = "postgresql"
                                          /\ store.auto /\ ~syncing.readings
                                          /\ buf.sensors = srv.view.sensors)
                    => srv'.view.sensors[w] = AsStored([ext |-> row.ext, props |-> row.props])
                 /\ syncing.readings /\ store.kind # "postgresql" /\ ~store.faulty =>
                       \A t \in Recorded(row.readings) :
                          /\ Pending(w, t)' \/ Stored(w, t)'
                          /\ store.kind \in {"redis", "rocksdb"} =>
                                Synced(w)'[t] = row.readings[t]]_vars

-----------------------------------------------------------------------------
(* Refinement *)

\* The two servers with transactions keep what module TransactionalFile
\* promises, through handlers nested in a sync, transactions the server aborted
\* and EXECs the store takes for failures.
Transactions == INSTANCE TransactionalFile
    WITH Contents <- Contents,
         committed <- IF HasHandler THEN srv.disk ELSE Nothing,
         current <- IF HasHandler THEN srv.view ELSE Nothing,
         active <- srv.txn # "none"

ServerIsTransactional == Transactions!Spec
=============================================================================
