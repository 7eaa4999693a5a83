---------------------------- MODULE StoreProofs ----------------------------
(***************************************************************************)
(* Theorems about a store, for every set of sensors, external ids, times   *)
(* and values, every choice of clients, faults and sources, and both       *)
(* automatic and manual commits and flushes.                               *)
(***************************************************************************)
EXTENDS StoreProperties, TLAPS

(* Readings and tables *)

LEMMA KeepFirstType ==
    ASSUME NEW r \in Readings, NEW q \in Readings
    PROVE  KeepFirst(r, q) \in Readings
BY DEF KeepFirst, Readings

LEMMA NoOperationsType == NoReadings \in Readings /\ NoOperations \in Operations
BY DEF NoReadings, Readings, NoOperations, Operations

LEMMA WrittenType ==
    ASSUME NEW table \in Readings, NEW o \in Operations
    PROVE  Written(table, o) \in Readings
BY KeepFirstType DEF Written, Operations

LEMMA TableType ==
    ASSUME NEW db \in Databases, NEW u \in Uuids, HasTable(db, u)
    PROVE  db[u] \in Rows /\ db[u].readings \in Readings
<1>1. db[u] \in Rows /\ db[u].readings # None
  BY DEF HasTable, Databases
<1>. QED BY <1>1 DEF Rows

LEMMA InsertSensorType ==
    ASSUME NEW db \in Databases, NEW u \in Uuids, NEW s \in Sensors
    PROVE  InsertSensor(db, u, s) \in Databases
BY NoOperationsType DEF InsertSensor, Databases, Rows, Sensors

LEMMA UpdateRecordType ==
    ASSUME NEW db \in Databases, NEW u \in Uuids, NEW s \in Sensors
    PROVE  UpdateRecord(db, u, s) \in Databases
BY DEF UpdateRecord, Databases, Rows, Sensors

LEMMA DeleteSensorType ==
    ASSUME NEW db \in Databases, NEW u \in Uuids
    PROVE  DeleteSensor(db, u) \in Databases
BY DEF DeleteSensor, Databases

-----------------------------------------------------------------------------
(* Buffers *)

\* BuffersAgree, of any three buffers.
Agree(b) == \A u \in Uuids : b.ops[u] # None <=> b.sensors[u] \notin {None, NullPtr}

GoodBuffers == {b \in Buffers : Agree(b)}

LEMMA EmptyBuffersGood == EmptyBuffers \in GoodBuffers
BY DEF EmptyBuffers, GoodBuffers, Buffers, Agree

LEMMA SetBuffersGood ==
    ASSUME NEW b \in GoodBuffers, NEW u \in Uuids, NEW s \in Sensors
    PROVE  SetBuffers(b, u, s) \in GoodBuffers
BY AbsentAssumption, NoOperationsType
DEF SetBuffers, GoodBuffers, Buffers, Agree, Sensors

LEMMA ClearSensorGood ==
    ASSUME NEW b \in GoodBuffers, NEW u \in Uuids, NEW e
    PROVE  ClearSensor(b, u, e) \in GoodBuffers
BY DEF ClearSensor, GoodBuffers, Buffers, Agree

LEMMA LoadBuffersGood ==
    ASSUME NEW db \in Databases
    PROVE  LoadBuffers(db) \in GoodBuffers
<1> DEFINE b == LoadBuffers(db)
<1>1. b.sensors \in [Uuids -> Sensors \cup {None, NullPtr}]
  BY DEF LoadBuffers, Databases, Rows, Sensors
<1>2. b.ops \in [Uuids -> Operations \cup {None}]
  BY NoOperationsType DEF LoadBuffers
<1>3. b.ids \in [ExtIds -> Uuids \cup {None}]
  BY DEF LoadBuffers
<1>4. b = [sensors |-> b.sensors, ops |-> b.ops, ids |-> b.ids]
  BY DEF LoadBuffers
<1>5. ASSUME NEW u \in Uuids
      PROVE  b.ops[u] # None <=> b.sensors[u] \notin {None, NullPtr}
  <2>1. CASE db[u] = None
    BY <2>1 DEF LoadBuffers
  <2>2. CASE db[u] # None
    <3>1. [ext |-> db[u].ext, props |-> db[u].props] \in Sensors
      BY <2>2 DEF Databases, Rows, Sensors
    <3>. QED BY <2>2, <3>1, AbsentAssumption, NoOperationsType DEF LoadBuffers
  <2>. QED BY <2>1, <2>2
<1>. HIDE DEF b
<1>6. b \in Buffers
  BY <1>1, <1>2, <1>3, <1>4 DEF Buffers
<1>7. b \in GoodBuffers
  BY <1>5, <1>6 DEF GoodBuffers, Agree
<1>. QED BY <1>7 DEF b

LEMMA BufferReadingsGood ==
    ASSUME NEW b \in GoodBuffers, NEW u \in Uuids, NEW rs \in Readings, NEW kind,
           b.ops[u] # None
    PROVE  BufferReadings(b, u, rs, kind) \in GoodBuffers
BY AbsentAssumption, KeepFirstType
DEF BufferReadings, GoodBuffers, Buffers, Agree, Operations

LEMMA ClearOperationsGood ==
    ASSUME NEW b \in GoodBuffers, NEW S \in SUBSET Uuids,
           \A u \in S : b.ops[u] # None
    PROVE  ClearOperations(b, S) \in GoodBuffers
BY AbsentAssumption, NoOperationsType
DEF ClearOperations, GoodBuffers, Buffers, Agree

-----------------------------------------------------------------------------
(* Flushing *)

LEMMA FlushSensorsType ==
    ASSUME NEW db \in Databases, NEW b \in Buffers, NEW S \in SUBSET Uuids,
           \A u \in S : b.ops[u] # None
    PROVE  FlushSensors(db, b, S) \in Databases
<1>1. ASSUME NEW u \in Uuids, u \in S, HasTable(db, u)
      PROVE  [db[u] EXCEPT !.readings = Written(db[u].readings, b.ops[u])] \in Rows
  <2>1. db[u] \in Rows /\ db[u].readings \in Readings /\ b.ops[u] \in Operations
    BY <1>1, TableType DEF Buffers
  <2>2. Written(db[u].readings, b.ops[u]) \in Readings
    BY <2>1, WrittenType
  <2>. QED BY <2>1, <2>2 DEF Rows
<1>. QED BY <1>1 DEF FlushSensors, Databases

LEMMA FlushUntilFailureType ==
    ASSUME NEW db \in Databases, NEW b \in Buffers, NEW u \in Uuids
    PROVE  FlushUntilFailure(db, b, u) \in Databases
<1>1. CASE ~HasTable(db, u) \/ b.ops[u] = None
  BY <1>1 DEF FlushUntilFailure
<1>2. CASE HasTable(db, u) /\ b.ops[u] # None
  <2> DEFINE repeated == Recorded(db[u].readings) \cap Recorded(b.ops[u].ins)
             before == [t \in Times |-> IF \E s \in repeated : s <= t
                                        THEN None ELSE b.ops[u].ins[t]]
  <2>1. db[u] \in Rows /\ db[u].readings \in Readings /\ b.ops[u] \in Operations
    BY <1>2, TableType DEF Buffers
  <2>2. before \in Readings
    BY <2>1 DEF Operations, Readings
  <2>3. KeepFirst(db[u].readings, before) \in Readings
    BY <2>1, <2>2, KeepFirstType
  <2>4. FlushUntilFailure(db, b, u) =
          [db EXCEPT ![u] = [db[u] EXCEPT !.readings = KeepFirst(db[u].readings, before)]]
    BY <1>2 DEF FlushUntilFailure
  <2>. QED BY <2>1, <2>3, <2>4 DEF Databases, Rows
<1>. QED BY <1>1, <1>2

\* Whatever flush_all does, sensor by sensor: it ran to its end, or it ended at
\* a sensor f after it had flushed the ones in done.
LEMMA FlushAllCases ==
    ASSUME NEW db, NEW b, NEW ignore, NEW r \in FlushAllOutcomes(db, b, ignore)
    PROVE  \/ /\ r.db = FlushSensors(db, b, Buffered(b))
              /\ r.buf = ClearOperations(b, Buffered(b))
              /\ r.ok = TRUE
           \/ \E f \in Buffered(b), done \in SUBSET Buffered(b) :
                 /\ r.db = FlushUntilFailure(FlushSensors(db, b, done), b, f)
                 /\ r.buf = ClearOperations(b, done)
                 /\ r.ok = FALSE
<1> DEFINE fails == {u \in Buffered(b) : FlushFails(db, b, u, ignore)}
           ignorable == {u \in fails : ignore /\ b.ops[u] # None /\ db[u] = None}
<1>1. \/ /\ r.db = FlushSensors(db, b, Buffered(b))
         /\ r.buf = ClearOperations(b, Buffered(b))
         /\ r.ok = TRUE
      \/ \E f \in fails : \E done \in SUBSET (Buffered(b) \ ({f} \cup (fails \ ignorable))) :
            /\ r.db = FlushUntilFailure(FlushSensors(db, b, done), b, f)
            /\ r.buf = ClearOperations(b, done)
            /\ r.ok = FALSE
  BY DEF FlushAllOutcomes
<1>. QED BY <1>1

LEMMA FlushAllGood ==
    ASSUME NEW db \in Databases, NEW b \in GoodBuffers,
           \A u \in Uuids : b.sensors[u] # NullPtr,
           NEW ignore, NEW r \in FlushAllOutcomes(db, b, ignore)
    PROVE  r.db \in Databases /\ r.buf \in GoodBuffers /\ r.ok \in BOOLEAN
<1>1. Buffered(b) \subseteq Uuids /\ \A u \in Buffered(b) : b.ops[u] # None
  BY DEF Buffered, GoodBuffers, Agree
<1>2. b \in Buffers
  BY DEF GoodBuffers
<1>3. CASE /\ r.db = FlushSensors(db, b, Buffered(b))
           /\ r.buf = ClearOperations(b, Buffered(b))
           /\ r.ok = TRUE
  BY <1>1, <1>2, <1>3, FlushSensorsType, ClearOperationsGood
<1>4. ASSUME NEW f \in Buffered(b), NEW done \in SUBSET Buffered(b),
             r.db = FlushUntilFailure(FlushSensors(db, b, done), b, f),
             r.buf = ClearOperations(b, done), r.ok = FALSE
      PROVE  r.db \in Databases /\ r.buf \in GoodBuffers /\ r.ok \in BOOLEAN
  <2>1. FlushSensors(db, b, done) \in Databases
    BY <1>1, <1>2, FlushSensorsType
  <2>2. r.db \in Databases
    BY <1>1, <1>2, <1>4, <2>1, FlushUntilFailureType
  <2>3. done \subseteq Uuids /\ \A u \in done : b.ops[u] # None
    BY <1>1
  <2>4. ClearOperations(b, done) \in GoodBuffers
    BY <2>3, ClearOperationsGood
  <2>. QED BY <1>4, <2>2, <2>4
<1>5. \/ /\ r.db = FlushSensors(db, b, Buffered(b))
         /\ r.buf = ClearOperations(b, Buffered(b))
         /\ r.ok = TRUE
      \/ \E f \in Buffered(b), done \in SUBSET Buffered(b) :
            /\ r.db = FlushUntilFailure(FlushSensors(db, b, done), b, f)
            /\ r.buf = ClearOperations(b, done)
            /\ r.ok = FALSE
  BY FlushAllCases
<1>. QED BY <1>3, <1>4, <1>5

-----------------------------------------------------------------------------
(* Type correctness *)

\* TypeOK and BuffersAgree are inductive only together: a flush can be typed
\* because every buffered sensor has operations, and the buffers stay in
\* agreement because what is filed in them are sensors and operations.
GoodState ==
    /\ disk \in Databases
    /\ conn \in Databases
    /\ inTxn \in BOOLEAN
    /\ buf \in GoodBuffers
    /\ due \in BOOLEAN
    /\ status \in {"open", "closed", "refused"}
    /\ syncing \in Syncs \cup {None}

LEMMA GoodStateSplit == GoodState <=> TypeOK /\ BuffersAgree
BY DEF GoodState, TypeOK, BuffersAgree, GoodBuffers, Agree

LEMMA InitGood == Init => GoodState
<1>1. EmptyDatabase \in Databases
  BY DEF EmptyDatabase, Databases
<1>. QED BY <1>1, EmptyBuffersGood DEF Init, GoodState

LEMMA FinishType ==
    ASSUME NEW db \in Databases, NEW ok, disk \in Databases, conn \in Databases,
           Finish(db, ok)
    PROVE  disk' \in Databases /\ conn' \in Databases
BY DEF Finish

LEMMA ClientSensorsType ==
    ASSUME NEW u \in Uuids, NEW s \in ClientSensors(u)
    PROVE  s \in Sensors
BY OptionsAssumption DEF ClientSensors, ClientIds, Sensors

LEMMA TransactionsGood ==
    ASSUME GoodState,
           StartTransaction \/ CommitTransaction \/ RollbackTransaction
    PROVE  GoodState'
<1>1. CASE StartTransaction
  BY <1>1 DEF GoodState, StartTransaction
<1>2. CASE CommitTransaction
  <2>1. PICK r \in FlushAllOutcomes(conn, buf, AutoFlush) :
          /\ conn' = r.db
          /\ buf' = r.buf
          /\ \/ disk' = r.db /\ inTxn' = FALSE
             \/ UNCHANGED <<disk, inTxn>>
    BY <1>2 DEF CommitTransaction
  <2>2. r.db \in Databases /\ r.buf \in GoodBuffers
    BY <1>2, FlushAllGood DEF CommitTransaction, NoNullSensor, GoodState
  <2>. QED BY <1>2, <2>1, <2>2 DEF CommitTransaction, GoodState
<1>3. CASE RollbackTransaction
  BY <1>3, LoadBuffersGood DEF RollbackTransaction, GoodState
<1>. QED BY <1>1, <1>2, <1>3

LEMMA SensorsGood ==
    ASSUME GoodState, NEW u \in Uuids, NEW s \in ClientSensors(u),
           AddSensor(u, s) \/ UpdateSensor(u, s) \/ UpdateSensorRefused(u, s)
    PROVE  GoodState'
<1>. s \in Sensors
  BY ClientSensorsType
<1>1. CASE AddSensor(u, s)
  <2>1. disk' \in Databases /\ conn' \in Databases
    BY <1>1, InsertSensorType, FinishType DEF AddSensor, GoodState
  <2>. QED BY <1>1, <2>1, SetBuffersGood DEF AddSensor, GoodState
<1>2. CASE UpdateSensor(u, s)
  <2>1. disk' \in Databases /\ conn' \in Databases
    BY <1>2, UpdateRecordType, FinishType DEF UpdateSensor, GoodState
  <2>. QED BY <1>2, <2>1, SetBuffersGood DEF UpdateSensor, GoodState
<1>3. CASE UpdateSensorRefused(u, s)
  <2>1. buf' \in GoodBuffers
    BY <1>3, AbsentAssumption
    DEF UpdateSensorRefused, GoodState, GoodBuffers, Buffers, Agree
  <2>. QED BY <1>3, <2>1 DEF UpdateSensorRefused, GoodState
<1>. QED BY <1>1, <1>2, <1>3

LEMMA RemoveSensorGood ==
    ASSUME GoodState, NEW u \in Uuids, RemoveSensor(u)
    PROVE  GoodState'
<1>1. disk' \in Databases /\ conn' \in Databases
  BY DeleteSensorType, FinishType DEF RemoveSensor, GoodState
<1>2. buf' \in GoodBuffers
  BY ClearSensorGood DEF RemoveSensor, GoodState
<1>. QED BY <1>1, <1>2 DEF RemoveSensor, GoodState

LEMMA RemoveWithoutTableGood ==
    ASSUME GoodState, NEW u \in Uuids, RemoveSensorWithoutTable(u)
    PROVE  GoodState'
<1>1. conn' \in Databases
  BY DeleteSensorType DEF RemoveSensorWithoutTable, GoodState
<1>. QED BY <1>1 DEF RemoveSensorWithoutTable, GoodState

LEMMA LookupGood ==
    ASSUME GoodState, NEW e \in ExtIds, LookupByExternalId(e)
    PROVE  GoodState'
<1>1. buf' \in GoodBuffers
  BY DEF LookupByExternalId, GoodState, GoodBuffers, Buffers, Agree
<1>. QED BY <1>1 DEF LookupByExternalId, GoodState

LEMMA ReadingsGood ==
    ASSUME GoodState,
           \/ \E u \in Uuids, rs \in Readings, kind \in {"INSERT", "UPDATE"} :
                 AddReadings(u, rs, kind)
           \/ \E ignore \in BOOLEAN : Flush(ignore)
           \/ \E u \in Uuids : ReadReadings(u)
    PROVE  GoodState'
<1>1. ASSUME NEW u \in Uuids, NEW rs \in Readings, NEW kind, AddReadings(u, rs, kind)
      PROVE  GoodState'
  <2> DEFINE b == BufferReadings(buf, u, rs, kind)
  <2>1. b \in GoodBuffers /\ b.sensors = buf.sensors
    <3>1. buf.ops[u] # None /\ buf \in GoodBuffers
      BY <1>1 DEF AddReadings, GoodState
    <3>. QED BY <3>1, BufferReadingsGood DEF BufferReadings, GoodBuffers, Buffers
  <2>2. UNCHANGED <<inTxn, status, syncing>>
    BY <1>1 DEF AddReadings
  <2>3. CASE buf' = b /\ UNCHANGED <<disk, conn, due>>
    BY <2>1, <2>2, <2>3 DEF GoodState
  <2>4. ASSUME NoNullSensor,
               NEW r \in FlushAllOutcomes(conn, b, TRUE),
               Finish(r.db, r.ok), buf' = r.buf, due' = ~r.ok
        PROVE  GoodState'
    <3>1. \A w \in Uuids : b.sensors[w] # NullPtr
      BY <2>1, <2>4 DEF NoNullSensor
    <3>. HIDE DEF b
    <3>2. r.db \in Databases /\ r.buf \in GoodBuffers /\ r.ok \in BOOLEAN
      BY <2>1, <3>1, FlushAllGood DEF GoodState
    <3>3. disk' \in Databases /\ conn' \in Databases
      BY <2>4, <3>2, FinishType DEF GoodState
    <3>. QED BY <2>2, <2>4, <3>2, <3>3 DEF GoodState
  <2>. QED BY <1>1, <2>3, <2>4 DEF AddReadings
<1>2. ASSUME NEW ignore, Flush(ignore)
      PROVE  GoodState'
  <2>1. PICK r \in FlushAllOutcomes(conn, buf, ignore) :
          Finish(r.db, r.ok) /\ buf' = r.buf
    BY <1>2 DEF Flush
  <2>2. r.db \in Databases /\ r.buf \in GoodBuffers
    BY <1>2, FlushAllGood DEF Flush, NoNullSensor, GoodState
  <2>3. disk' \in Databases /\ conn' \in Databases
    BY <2>1, <2>2, FinishType DEF GoodState
  <2>. QED BY <1>2, <2>1, <2>2, <2>3 DEF Flush, GoodState
<1>3. ASSUME NEW u \in Uuids, ReadReadings(u)
      PROVE  GoodState'
  <2>1. buf \in GoodBuffers /\ buf \in Buffers /\ \A w \in {u} : buf.ops[w] # None
    BY <1>3 DEF ReadReadings, GoodState, GoodBuffers
  <2>2. FlushSensors(conn, buf, {u}) \in Databases
    BY <2>1, FlushSensorsType DEF GoodState
  <2>3. ClearOperations(buf, {u}) \in GoodBuffers
    BY <2>1, ClearOperationsGood
  <2>. QED BY <1>3, <2>2, <2>3 DEF ReadReadings, GoodState
<1>. QED BY <1>1, <1>2, <1>3

LEMMA SyncLeavesType ==
    ASSUME GoodState, syncing # None, NEW u \in Uuids, NEW db \in Databases, NEW ok,
           SyncLeaves(u, db, ok)
    PROVE  conn' \in Databases /\ inTxn' \in BOOLEAN /\ syncing' \in Syncs \cup {None}
<1>1. syncing \in Syncs
  BY DEF GoodState
<1>2. [syncing EXCEPT !.todo[u] = None] \in Syncs
  BY <1>1 DEF Syncs, WholeDatabases, Databases, HasTable
<1>. QED BY <1>2, OptionsAssumption DEF SyncLeaves, GoodState

LEMMA VisitedType ==
    ASSUME GoodState, NEW u \in Uuids, SyncSensor(u)
    PROVE  /\ syncing # None
           /\ syncing.todo[u] \in Rows
           /\ syncing.todo[u].readings \in Readings
<1>1. syncing # None /\ syncing.todo[u] # None
  BY DEF SyncSensor
<1>2. syncing.todo \in Databases /\ HasTable(syncing.todo, u)
  BY <1>1 DEF GoodState, Syncs, WholeDatabases
<1>. QED BY <1>1, <1>2, TableType

LEMMA SyncSensorGood ==
    ASSUME GoodState, NEW u \in Uuids, SyncSensor(u)
    PROVE  GoodState'
<1> DEFINE row == syncing.todo[u]
           s == [ext |-> row.ext, props |-> row.props]
           known == buf.ids[row.ext]
           local == LocalUuid(u, row.ext)
           changed == known # None /\ buf.sensors[known].props # row.props
           db == IF known = None THEN InsertSensor(conn, u, s)
                 ELSE IF changed THEN UpdateRecord(conn, local, s) ELSE conn
           copying == syncing.readings /\ row.readings # NoReadings
           b == IF copying
                THEN BufferReadings(SetBuffers(buf, local, s), local, row.readings, "UPDATE")
                ELSE SetBuffers(buf, local, s)
<1>1. row \in Rows /\ row.readings \in Readings /\ syncing # None
  BY VisitedType
<1>2. s \in Sensors /\ row.ext \in ExtIds /\ row.readings \in Readings
  BY <1>1 DEF Rows, Sensors
<1>3. local \in Uuids
  BY <1>2 DEF LocalUuid, GoodState, GoodBuffers, Buffers
<1>4. db \in Databases
  BY <1>2, <1>3, InsertSensorType, UpdateRecordType DEF GoodState
<1>5. b \in GoodBuffers
  <2>1. SetBuffers(buf, local, s) \in GoodBuffers
    BY <1>2, <1>3, SetBuffersGood DEF GoodState
  <2>2. SetBuffers(buf, local, s).ops[local] # None
    <3>1. SetBuffers(buf, local, s).sensors[local] = s
      BY <1>3 DEF SetBuffers
    <3>. QED BY <1>2, <1>3, <2>1, <3>1, AbsentAssumption DEF GoodBuffers, Agree
  <2>. QED BY <1>2, <1>3, <2>1, <2>2, BufferReadingsGood
<1>6. UNCHANGED <<disk, status>>
  BY DEF SyncSensor
<1>7. \/ SyncLeaves(u, conn, FALSE) /\ UNCHANGED <<buf, due>>
      \/ SyncLeaves(u, db, TRUE) /\ buf' = b /\ UNCHANGED due
      \/ /\ \A w \in Uuids : b.sensors[w] # NullPtr
         /\ \E r \in FlushAllOutcomes(db, b, TRUE) :
               /\ SyncLeaves(u, r.db, r.ok)
               /\ buf' = r.buf
               /\ due' = ~r.ok
  BY DEF SyncSensor
<1>. HIDE DEF db, b
<1>8. CASE SyncLeaves(u, conn, FALSE) /\ UNCHANGED <<buf, due>>
  BY <1>1, <1>6, <1>8, SyncLeavesType DEF GoodState
<1>9. CASE SyncLeaves(u, db, TRUE) /\ buf' = b /\ UNCHANGED due
  BY <1>1, <1>4, <1>5, <1>6, <1>9, SyncLeavesType DEF GoodState
<1>10. ASSUME \A w \in Uuids : b.sensors[w] # NullPtr,
              NEW r \in FlushAllOutcomes(db, b, TRUE),
              SyncLeaves(u, r.db, r.ok), buf' = r.buf, due' = ~r.ok
       PROVE  GoodState'
  <2>1. r.db \in Databases /\ r.buf \in GoodBuffers /\ r.ok \in BOOLEAN
    BY <1>4, <1>5, <1>10, FlushAllGood
  <2>2. conn' \in Databases /\ inTxn' \in BOOLEAN /\ syncing' \in Syncs \cup {None}
    BY <1>1, <1>10, <2>1, SyncLeavesType
  <2>. QED BY <1>6, <1>10, <2>1, <2>2 DEF GoodState
<1>. QED BY <1>7, <1>8, <1>9, <1>10

LEMMA SyncGood ==
    ASSUME GoodState,
           \/ \E src \in Sources, readings \in BOOLEAN : SyncBegin(src, readings)
           \/ \E u \in Uuids : SyncSensor(u) \/ SyncSourceFails(u)
           \/ SyncEnd
    PROVE  GoodState'
<1>1. ASSUME NEW src \in Sources, NEW readings \in BOOLEAN, SyncBegin(src, readings)
      PROVE  GoodState'
  <2>1. [todo |-> src, readings |-> readings] \in Syncs
    BY SourcesAssumption DEF Syncs
  <2>. QED BY <1>1, <2>1 DEF SyncBegin, GoodState
<1>2. ASSUME NEW u \in Uuids, SyncSourceFails(u)
      PROVE  GoodState'
  <2>1. SyncLeaves(u, conn, FALSE) /\ syncing # None /\ conn \in Databases
    BY <1>2 DEF SyncSourceFails, GoodState
  <2>2. conn' \in Databases /\ inTxn' \in BOOLEAN /\ syncing' \in Syncs \cup {None}
    BY <2>1, SyncLeavesType
  <2>. QED BY <1>2, <2>2 DEF SyncSourceFails, GoodState
<1>3. CASE SyncEnd
  BY <1>3, FinishType DEF SyncEnd, GoodState
<1>. QED BY <1>1, <1>2, <1>3, SyncSensorGood

LEMMA RotatedDatabaseType ==
    ASSUME GoodState, NEW S \in SUBSET Buffered(buf), \A u \in S : buf.sensors[u] # NullPtr
    PROVE  RotatedDatabase(S) \in Databases
<1>1. \A u \in S : u \in Uuids /\ buf.sensors[u] \in Sensors
  BY DEF Buffered, GoodState, GoodBuffers, Buffers
<1>. QED BY <1>1, NoOperationsType DEF RotatedDatabase, Databases, Rows, Sensors

LEMMA StoppedGood ==
    ASSUME GoodState, NEW db \in Databases, Stopped(db)
    PROVE  GoodState'
BY EmptyBuffersGood DEF Stopped, Ended, GoodState

LEMMA CrashBeforeTableGood ==
    ASSUME GoodState, NEW S \in SUBSET Uuids, NEW u \in S, CrashBeforeTable(S, u)
    PROVE  GoodState'
<1>1. RotatedDatabase(S) \in Databases
  BY RotatedDatabaseType DEF CrashBeforeTable, Rotating
<1>2. RotatedDatabase(S)[u] \in Rows
  <2>1. RotatedDatabase(S)[u] # None
    <3>1. buf.sensors[u] \in Sensors
      BY DEF CrashBeforeTable, Rotating, Buffered, GoodState, GoodBuffers, Buffers
    <3>2. [ext |-> buf.sensors[u].ext, props |-> buf.sensors[u].props,
           readings |-> NoReadings] \in Rows
      BY <3>1, NoOperationsType DEF Rows, Sensors
    <3>. QED BY <3>2, AbsentAssumption DEF RotatedDatabase
  <2>. QED BY <1>1, <2>1 DEF Databases
<1>3. [RotatedDatabase(S) EXCEPT ![u].readings = None] \in Databases
  BY <1>1, <1>2 DEF Databases, Rows
<1>. QED BY <1>3, StoppedGood DEF CrashBeforeTable

LEMMA CrashBeforeInitializedGood ==
    ASSUME GoodState, CrashBeforeInitialized
    PROVE  GoodState'
<1>1. EmptyDatabase \in Databases
  BY DEF EmptyDatabase, Databases
<1>. QED BY <1>1, EmptyBuffersGood DEF CrashBeforeInitialized, Ended, GoodState

LEMMA LifeCycleGood ==
    ASSUME GoodState,
           \/ TimeoutElapses \/ Open \/ Create \/ Close \/ Rotate \/ Crash
           \/ CrashBeforeInitialized
           \/ \E S \in SUBSET Uuids :
                 CrashWhileRotating(S) \/ \E u \in S : CrashBeforeTable(S, u)
           \/ \E u \in Uuids, kind \in {"INSERT", "UPDATE"}, cut \in Times :
                 CrashWhileWriting(u, kind, cut)
    PROVE  GoodState'
<1>1. CASE TimeoutElapses
  BY <1>1 DEF TimeoutElapses, GoodState
<1>2. CASE Open \/ Create
  BY <1>2, LoadBuffersGood DEF Open, Create, Prepare, GoodState
<1>3. CASE Close
  BY <1>3, EmptyBuffersGood DEF Close, GoodState
<1>4. CASE Rotate
  <2>1. PICK S \in SUBSET Buffered(buf) :
          disk' = RotatedDatabase(S) /\ conn' = RotatedDatabase(S)
    BY <1>4 DEF Rotate
  <2>2. \A u \in S : buf.sensors[u] # NullPtr
    BY <1>4 DEF Rotate, NoNullSensor, Buffered
  <2>3. RotatedDatabase(S) \in Databases
    BY <2>2, RotatedDatabaseType
  <2>. QED BY <1>4, <2>1, <2>3 DEF Rotate, GoodState
<1>5. CASE Crash
  BY <1>5, StoppedGood DEF Crash, GoodState
<1>6. ASSUME NEW S \in SUBSET Uuids, CrashWhileRotating(S)
      PROVE  GoodState'
  <2>1. RotatedDatabase(S) \in Databases /\ Stopped(RotatedDatabase(S))
    BY <1>6, RotatedDatabaseType DEF CrashWhileRotating, Rotating
  <2>. QED BY <2>1, StoppedGood
<1>7. ASSUME NEW u \in Uuids, NEW kind, NEW cut, CrashWhileWriting(u, kind, cut)
      PROVE  GoodState'
  <2> DEFINE upTo(r) == [t \in Times |-> IF t <= cut THEN r[t] ELSE None]
             o == buf.ops[u]
             early == IF kind = "INSERT" THEN [ins |-> upTo(o.ins), upd |-> NoReadings]
                      ELSE [ins |-> o.ins, upd |-> upTo(o.upd)]
  <2>1. \A r \in Readings : upTo(r) \in Readings
    BY DEF Readings
  <2>2. o \in Operations
    BY <1>7 DEF CrashWhileWriting, GoodState, GoodBuffers, Buffers
  <2>3. early \in Operations
    BY <2>1, <2>2, NoOperationsType DEF Operations
  <2>. HIDE DEF early
  <2>4. conn[u] \in Rows /\ conn[u].readings \in Readings
        /\ Stopped([conn EXCEPT ![u] =
                       [conn[u] EXCEPT !.readings = Written(conn[u].readings, early)]])
    <3>1. conn \in Databases /\ HasTable(conn, u)
      BY <1>7 DEF CrashWhileWriting, GoodState
    <3>. QED BY <1>7, <3>1, TableType DEF CrashWhileWriting, early
  <2>5. Written(conn[u].readings, early) \in Readings
    BY <2>3, <2>4, WrittenType
  <2>6. [conn EXCEPT ![u] =
           [conn[u] EXCEPT !.readings = Written(conn[u].readings, early)]] \in Databases
    BY <2>4, <2>5 DEF GoodState, Databases, Rows
  <2>. QED BY <2>4, <2>6, StoppedGood
<1>. QED
  BY <1>1, <1>2, <1>3, <1>4, <1>5, <1>6, <1>7,
     CrashBeforeTableGood, CrashBeforeInitializedGood

LEMMA NextGood ==
    ASSUME GoodState, [Next]_vars
    PROVE  GoodState'
<1>1. CASE UNCHANGED vars
  BY <1>1 DEF vars, GoodState
<1>2. CASE Next
  <2>1. CASE StartTransaction \/ CommitTransaction \/ RollbackTransaction
    BY <2>1, TransactionsGood
  <2>2. ASSUME NEW u \in Uuids, NEW s \in ClientSensors(u),
               AddSensor(u, s) \/ UpdateSensor(u, s) \/ UpdateSensorRefused(u, s)
        PROVE  GoodState'
    BY <2>2, SensorsGood
  <2>3. ASSUME NEW u \in Uuids, RemoveSensor(u) \/ RemoveSensorWithoutTable(u)
        PROVE  GoodState'
    BY <2>3, RemoveSensorGood, RemoveWithoutTableGood
  <2>4. ASSUME NEW e \in ExtIds, LookupByExternalId(e)
        PROVE  GoodState'
    BY <2>4, LookupGood
  <2>5. CASE \/ \E u \in Uuids, rs \in Readings, kind \in {"INSERT", "UPDATE"} :
                   AddReadings(u, rs, kind)
             \/ \E ignore \in BOOLEAN : Flush(ignore)
             \/ \E u \in Uuids : ReadReadings(u)
    BY <2>5, ReadingsGood
  <2>6. CASE \/ \E src \in Sources, readings \in BOOLEAN : SyncBegin(src, readings)
             \/ \E u \in Uuids : SyncSensor(u) \/ SyncSourceFails(u)
             \/ SyncEnd
    BY <2>6, SyncGood
  <2>7. CASE \/ TimeoutElapses \/ Open \/ Create \/ Close \/ Rotate \/ Crash
             \/ CrashBeforeInitialized
             \/ \E S \in SUBSET Uuids :
                   CrashWhileRotating(S) \/ \E u \in S : CrashBeforeTable(S, u)
             \/ \E u \in Uuids, kind \in {"INSERT", "UPDATE"}, cut \in Times :
                   CrashWhileWriting(u, kind, cut)
    BY <2>7, LifeCycleGood
  <2>. QED BY <1>2, <2>1, <2>2, <2>3, <2>4, <2>5, <2>6, <2>7 DEF Next
<1>. QED BY <1>1, <1>2

\* The variables of the store keep their types, whatever clients do and
\* whatever fails.
THEOREM TypeCorrect == Spec => []TypeOK
<1>1. Init => GoodState
  BY InitGood
<1>2. GoodState /\ [Next]_vars => GoodState'
  BY NextGood
<1>3. GoodState => TypeOK
  BY GoodStateSplit
<1>. QED BY <1>1, <1>2, <1>3, PTL DEF Spec

\* A sensor has operations exactly while the store holds it: no call meets a
\* sensor it cannot buffer for or flush, with any clients and any faults.
THEOREM BuffersStayInAgreement == Spec => []BuffersAgree
<1>1. Init => GoodState
  BY InitGood
<1>2. GoodState /\ [Next]_vars => GoodState'
  BY NextGood
<1>3. GoodState => BuffersAgree
  BY GoodStateSplit
<1>. QED BY <1>1, <1>2, <1>3, PTL DEF Spec

-----------------------------------------------------------------------------
(***************************************************************************)
(* A store's file is transactional and no stored reading is lost, for      *)
(* every set of sensors, ids and readings, whatever clients do and         *)
(* whatever fails.                                                         *)
(***************************************************************************)

\* What transactions the store has open when, and that nothing is uncommitted
\* outside one.
FileInv ==
    /\ ~inTxn => conn = disk
    /\ AutoCommit => (inTxn <=> syncing # None)
    /\ syncing # None => inTxn /\ status = "open"
    /\ status # "open" => ~inTxn

FileStep == [File!Next]_<<disk, conn, inTxn>>

LEMMA InitFile == GoodState /\ Init => FileInv /\ File!Init
BY DEF Init, GoodState, FileInv, File!Init

\* Every call that ends in Finish: with automatic commits it writes through or
\* leaves the file alone, with manual ones it writes in the open transaction.
LEMMA FinishFile ==
    ASSUME FileInv, GoodState', MayWrite, NEW db, NEW ok, Finish(db, ok),
           UNCHANGED <<inTxn, status, syncing>>
    PROVE  FileInv' /\ FileStep
<1>1. CASE AutoCommit
  <2>1. ~inTxn /\ conn = disk
    BY <1>1 DEF FileInv, MayWrite, Idle
  <2>2. conn' = disk' /\ conn' \in Databases
    BY <1>1 DEF Finish, GoodState
  <2>. QED BY <2>1, <2>2 DEF FileInv, FileStep, File!Next, File!WriteThrough
<1>2. CASE ~AutoCommit
  <2>1. inTxn /\ UNCHANGED disk /\ conn' \in Databases
    BY <1>2 DEF Finish, MayWrite, GoodState
  <2>. QED BY <1>2, <2>1 DEF FileInv, FileStep, File!Next, File!Write
<1>. QED BY <1>1, <1>2

\* Rolling back outside a transaction does nothing.
LEMMA AbortFile ==
    ASSUME FileInv, GoodState, conn' = disk, disk' = disk, inTxn' = FALSE
    PROVE  FileStep
<1>1. CASE inTxn
  BY <1>1 DEF FileStep, File!Next, File!Abort
<1>2. CASE ~inTxn
  BY <1>2 DEF FileInv, GoodState, FileStep
<1>. QED BY <1>1, <1>2

LEMMA TransactionsFile ==
    ASSUME FileInv, GoodState, GoodState',
           StartTransaction \/ CommitTransaction \/ RollbackTransaction
    PROVE  FileInv' /\ FileStep
<1>1. CASE StartTransaction
  BY <1>1 DEF StartTransaction, Idle, FileInv, FileStep, File!Next, File!Start
<1>2. CASE CommitTransaction
  <2>1. ~AutoCommit /\ status = "open" /\ syncing = None
        /\ status' = status /\ syncing' = syncing
    BY <1>2 DEF CommitTransaction, Idle
  <2>2. PICK r \in FlushAllOutcomes(conn, buf, AutoFlush) :
          /\ conn' = r.db
          /\ \/ disk' = r.db /\ inTxn' = FALSE
             \/ inTxn /\ disk' = disk /\ inTxn' = inTxn
    BY <1>2 DEF CommitTransaction
  <2>3. conn' \in Databases /\ inTxn \in BOOLEAN
    BY DEF GoodState
  <2>4. CASE disk' = r.db /\ inTxn' = FALSE
    BY <2>1, <2>2, <2>3, <2>4
    DEF FileInv, FileStep, File!Next, File!Commit, File!WriteThrough
  <2>5. CASE inTxn /\ disk' = disk /\ inTxn' = inTxn
    <3>1. FileInv'
      BY <2>1, <2>5 DEF FileInv
    <3>2. FileStep
      BY <2>3, <2>5 DEF FileStep, File!Next, File!Write
    <3>. QED BY <3>1, <3>2
  <2>. QED BY <2>2, <2>4, <2>5
<1>3. CASE RollbackTransaction
  <2>1. conn' = disk /\ inTxn' = FALSE /\ UNCHANGED disk
        /\ ~AutoCommit /\ Idle /\ UNCHANGED <<status, syncing>>
    BY <1>3 DEF RollbackTransaction
  <2>2. FileInv'
    BY <2>1 DEF FileInv, Idle
  <2>3. FileStep
    BY <2>1, AbortFile
  <2>. QED BY <2>2, <2>3
<1>. QED BY <1>1, <1>2, <1>3

LEMMA ReadReadingsFile ==
    ASSUME FileInv, GoodState', NEW u \in Uuids, ReadReadings(u)
    PROVE  FileInv' /\ FileStep
<1>1. disk' = (IF inTxn THEN disk ELSE conn') /\ conn' \in Databases
      /\ UNCHANGED <<inTxn, status, syncing>>
  BY DEF ReadReadings, GoodState
<1>. QED BY <1>1 DEF FileInv, FileStep, File!Next, File!Write, File!WriteThrough

\* An iteration of sync, and its failure.
LEMMA SyncLeavesFile ==
    ASSUME FileInv, GoodState, GoodState', syncing # None, NEW u \in Uuids, NEW db,
           NEW ok \in BOOLEAN, SyncLeaves(u, db, ok), UNCHANGED <<disk, status>>
    PROVE  FileInv' /\ FileStep
<1>1. inTxn /\ status = "open" /\ conn' \in Databases /\ AutoCommit \in BOOLEAN
  BY OptionsAssumption DEF FileInv, GoodState
<1>2. CASE ok
  <2>1. syncing' # None
    <3>1. syncing' = [syncing EXCEPT !.todo[u] = None] /\ syncing \in Syncs
      BY <1>2 DEF SyncLeaves, GoodState
    <3>2. syncing' \in Syncs
      BY <3>1 DEF Syncs, WholeDatabases, Databases, HasTable
    <3>. QED BY <3>2, NoSyncAssumption
  <2>2. inTxn' = inTxn
    BY <1>2 DEF SyncLeaves
  <2>. QED BY <1>1, <2>1, <2>2 DEF FileInv, FileStep, File!Next, File!Write
<1>3. CASE ~ok
  <2>1. /\ conn' = (IF AutoCommit THEN disk ELSE db)
        /\ syncing' = None
        /\ inTxn' = ~AutoCommit
    BY <1>3 DEF SyncLeaves
  <2>. QED
    BY <1>1, <2>1 DEF FileInv, FileStep, File!Next, File!Write, File!Abort
<1>. QED BY <1>2, <1>3

LEMMA SyncFile ==
    ASSUME FileInv, GoodState, GoodState',
           \/ \E src \in Sources, readings \in BOOLEAN : SyncBegin(src, readings)
           \/ \E u \in Uuids : SyncSensor(u) \/ SyncSourceFails(u)
           \/ SyncEnd
    PROVE  FileInv' /\ FileStep
<1>1. ASSUME NEW src \in Sources, NEW readings \in BOOLEAN, SyncBegin(src, readings)
      PROVE  FileInv' /\ FileStep
  <2>1. [todo |-> src, readings |-> readings] # None
    BY SourcesAssumption, NoSyncAssumption DEF Syncs
  <2>2. inTxn' = TRUE /\ syncing' # None /\ MayWrite /\ UNCHANGED <<disk, conn, status>>
    BY <1>1, <2>1 DEF SyncBegin
  <2>. QED
    BY <2>2 DEF MayWrite, Idle, FileInv, FileStep, File!Next, File!Start
<1>2. ASSUME NEW u \in Uuids, SyncSensor(u)
      PROVE  FileInv' /\ FileStep
  <2>1. \E db, ok : ok \in BOOLEAN /\ SyncLeaves(u, db, ok)
    <3>1. \A db, b : \A r \in FlushAllOutcomes(db, b, TRUE) : r.ok \in BOOLEAN
      BY FlushAllCases
    <3>. HIDE DEF FlushAllOutcomes
    <3>. QED BY <1>2, <3>1 DEF SyncSensor
  <2>2. syncing # None /\ UNCHANGED <<disk, status>>
    BY <1>2 DEF SyncSensor
  <2>. QED BY <2>1, <2>2, SyncLeavesFile
<1>3. ASSUME NEW u \in Uuids, SyncSourceFails(u)
      PROVE  FileInv' /\ FileStep
  <2>1. SyncLeaves(u, conn, FALSE) /\ syncing # None /\ UNCHANGED <<disk, status>>
    BY <1>3 DEF SyncSourceFails
  <2>. QED BY <2>1, SyncLeavesFile
<1>4. CASE SyncEnd
  <2>1. inTxn /\ status = "open" /\ syncing' = None /\ inTxn' = ~AutoCommit
        /\ Finish(conn, TRUE) /\ UNCHANGED status /\ conn' \in Databases
    BY <1>4 DEF SyncEnd, FileInv, GoodState
  <2>2. CASE AutoCommit
    BY <2>1, <2>2 DEF Finish, FileInv, FileStep, File!Next, File!Commit, File!Abort
  <2>3. CASE ~AutoCommit
    BY <2>1, <2>3 DEF Finish, FileInv, FileStep, File!Next, File!Write
  <2>. QED BY <2>2, <2>3
<1>. QED BY <1>1, <1>2, <1>3, <1>4

\* A process that ends outside a transaction leaves what it had written.
LEMMA StoppedFile ==
    ASSUME FileInv, GoodState, GoodState', ~inTxn, NEW db, Ended(db)
    PROVE  FileInv' /\ FileStep
<1>1. conn' = disk' /\ inTxn' = inTxn /\ syncing' = None /\ conn' \in Databases
  BY DEF Ended, GoodState
<1>2. AutoCommit => ~inTxn'
  BY <1>1
<1>. QED BY <1>1, <1>2 DEF FileInv, FileStep, File!Next, File!WriteThrough

LEMMA LifeCycleFile ==
    ASSUME FileInv, GoodState, GoodState',
           \/ TimeoutElapses \/ Open \/ Create \/ Close \/ Rotate \/ Crash
           \/ CrashBeforeInitialized
           \/ \E S \in SUBSET Uuids :
                 CrashWhileRotating(S) \/ \E u \in S : CrashBeforeTable(S, u)
           \/ \E u \in Uuids, kind \in {"INSERT", "UPDATE"}, cut \in Times :
                 CrashWhileWriting(u, kind, cut)
    PROVE  FileInv' /\ FileStep
<1>1. CASE TimeoutElapses
  BY <1>1 DEF TimeoutElapses, FileInv, FileStep
<1>2. CASE Open \/ Create
  <2>1. UNCHANGED <<disk, conn, inTxn, syncing>> /\ status' = "open"
    BY <1>2 DEF Open, Create, Prepare
  <2>. QED BY <2>1 DEF FileInv, FileStep
<1>3. CASE Close
  <2>1. conn' = disk /\ disk' = disk /\ inTxn' = FALSE /\ syncing = None /\ syncing' = None
    BY <1>3 DEF Close, Idle
  <2>. QED BY <2>1, AbortFile DEF FileInv
<1>4. CASE Rotate
  <2>1. ~inTxn /\ conn' = disk' /\ conn' \in Databases /\ UNCHANGED <<inTxn, status, syncing>>
    BY <1>4 DEF Rotate, GoodState
  <2>. QED BY <2>1 DEF FileInv, FileStep, File!Next, File!WriteThrough
<1>5. CASE Crash
  <2>1. conn' = disk /\ disk' = disk /\ inTxn' = FALSE /\ syncing' = None
    BY <1>5 DEF Crash, Stopped, Ended
  <2>. QED BY <2>1, AbortFile DEF FileInv
<1>6. ASSUME NEW S \in SUBSET Uuids, CrashWhileRotating(S)
      PROVE  FileInv' /\ FileStep
  BY <1>6, StoppedFile DEF CrashWhileRotating, Rotating, Stopped
<1>7. ASSUME NEW u \in Uuids, NEW kind, NEW cut, CrashWhileWriting(u, kind, cut)
      PROVE  FileInv' /\ FileStep
  BY <1>7, StoppedFile DEF CrashWhileWriting, Stopped
<1>8. ASSUME NEW S \in SUBSET Uuids, NEW u \in S, CrashBeforeTable(S, u)
      PROVE  FileInv' /\ FileStep
  <2>1. ~inTxn /\ \E db : Ended(db)
    BY <1>8 DEF CrashBeforeTable, Rotating, Stopped
  <2>. QED BY <2>1, StoppedFile
<1>9. CASE CrashBeforeInitialized
  BY <1>9, StoppedFile DEF CrashBeforeInitialized, Rotating
<1>. QED BY <1>1, <1>2, <1>3, <1>4, <1>5, <1>6, <1>7, <1>8, <1>9

LEMMA CallsFile ==
    ASSUME FileInv, GoodState, GoodState',
           \/ \E u \in Uuids, s \in Sensors : \/ AddSensor(u, s)
                                           \/ UpdateSensor(u, s)
                                           \/ UpdateSensorRefused(u, s)
           \/ \E u \in Uuids : RemoveSensor(u)
           \/ \E e \in ExtIds : LookupByExternalId(e)
           \/ \E u \in Uuids, rs \in Readings, kind \in {"INSERT", "UPDATE"} :
                 AddReadings(u, rs, kind)
           \/ \E ignore \in BOOLEAN : Flush(ignore)
    PROVE  FileInv' /\ FileStep
<1>1. UNCHANGED <<inTxn, status, syncing>>
  BY DEF AddSensor, UpdateSensor, UpdateSensorRefused, RemoveSensor, LookupByExternalId,
         AddReadings, Flush
<1>2. \/ UNCHANGED <<disk, conn>>
      \/ MayWrite /\ \E db, ok : Finish(db, ok)
  BY DEF AddSensor, UpdateSensor, UpdateSensorRefused, RemoveSensor, LookupByExternalId,
         AddReadings, Flush
<1>3. CASE UNCHANGED <<disk, conn>>
  BY <1>1, <1>3 DEF FileInv, FileStep
<1>. QED BY <1>1, <1>2, <1>3, FinishFile

LEMMA RemoveWithoutTableFile ==
    ASSUME FileInv, GoodState', NEW u \in Uuids, RemoveSensorWithoutTable(u)
    PROVE  FileInv' /\ FileStep
<1>1. inTxn /\ UNCHANGED <<disk, inTxn, status, syncing>> /\ conn' \in Databases
  BY DEF RemoveSensorWithoutTable, MayWrite, GoodState
<1>. QED BY <1>1 DEF FileInv, FileStep, File!Next, File!Write

LEMMA NextFile ==
    ASSUME FileInv, GoodState, GoodState', [Next]_vars
    PROVE  FileInv' /\ FileStep
<1>1. CASE UNCHANGED vars
  BY <1>1 DEF vars, FileInv, FileStep
<1>2. CASE Next
  <2>1. \A u \in Uuids : ClientSensors(u) \subseteq Sensors
    BY ClientSensorsType
  <2>2. \/ StartTransaction \/ CommitTransaction \/ RollbackTransaction
        \/ \E u \in Uuids, s \in Sensors : \/ AddSensor(u, s)
                                        \/ UpdateSensor(u, s)
                                        \/ UpdateSensorRefused(u, s)
        \/ \E u \in Uuids : RemoveSensor(u) \/ RemoveSensorWithoutTable(u)
        \/ \E e \in ExtIds : LookupByExternalId(e)
        \/ \E u \in Uuids, rs \in Readings, kind \in {"INSERT", "UPDATE"} :
              AddReadings(u, rs, kind)
        \/ \E ignore \in BOOLEAN : Flush(ignore)
        \/ \E u \in Uuids : ReadReadings(u)
        \/ \E src \in Sources, readings \in BOOLEAN : SyncBegin(src, readings)
        \/ \E u \in Uuids : SyncSensor(u) \/ SyncSourceFails(u)
        \/ SyncEnd
        \/ TimeoutElapses \/ Open \/ Create \/ Close \/ Rotate \/ Crash
        \/ CrashBeforeInitialized
        \/ \E S \in SUBSET Uuids :
              CrashWhileRotating(S) \/ \E u \in S : CrashBeforeTable(S, u)
        \/ \E u \in Uuids, kind \in {"INSERT", "UPDATE"}, cut \in Times :
              CrashWhileWriting(u, kind, cut)
    BY <1>2, <2>1 DEF Next
  <2>. QED
    BY <2>2, TransactionsFile, CallsFile, RemoveWithoutTableFile, ReadReadingsFile,
       SyncFile, LifeCycleFile
<1>. QED BY <1>1, <1>2

\* The store implements a transactional file: outside a transaction the
\* connection reads what is kept, inside one nothing is kept before the commit,
\* and a rollback, a close or a crash returns to what was committed.
THEOREM FileTheorem == Spec => FileIsTransactional
<1>1. Init => GoodState /\ FileInv /\ File!Init
  BY InitGood, InitFile
<1>2. GoodState /\ FileInv /\ [Next]_vars => GoodState' /\ FileInv' /\ FileStep
  BY NextGood, NextFile
<1>. QED BY <1>1, <1>2, PTL DEF Spec, FileIsTransactional, File!Spec, FileStep

-----------------------------------------------------------------------------
(***************************************************************************)
(* Only a rotation, remove_sensor and the end of a transaction take        *)
(* readings away.                                                          *)
(***************************************************************************)

Keeps(db, after) ==
    \A u \in Uuids, t \in Times : Kept(db, u, t) => Kept(after, u, t)

\* What every other step does: it goes back to the file, or it keeps what the
\* connection had and leaves the file alone or brings it up to date.
KeepingStep ==
    \/ conn' = disk /\ disk' = disk
    \/ Keeps(conn, conn') /\ disk' \in {disk, conn'}

LEMMA KeepingStepKeeps ==
    ASSUME KeepingStep, NEW u \in Uuids, NEW t \in Times
    PROVE  /\ Kept(disk, u, t) /\ ~Kept(disk', u, t) => ~Kept(conn, u, t)
           /\ Kept(conn, u, t) /\ ~Kept(conn', u, t) => ~Kept(disk, u, t)
BY DEF KeepingStep, Keeps, Kept

-----------------------------------------------------------------------------
(* Operators *)

LEMMA KeepFirstKeeps ==
    ASSUME NEW old, NEW new, NEW t \in Times, old[t] # None \/ new[t] # None
    PROVE  KeepFirst(old, new)[t] # None
BY DEF KeepFirst

LEMMA InsertSensorKeeps ==
    ASSUME NEW db \in Databases, NEW u \in Uuids, NEW s \in Sensors, CanInsert(db, u, s)
    PROVE  Keeps(db, InsertSensor(db, u, s))
BY DEF Keeps, Kept, HasTable, InsertSensor, CanInsert, Databases

LEMMA UpdateRecordKeeps ==
    ASSUME NEW db \in Databases, NEW u \in Uuids, NEW s \in Sensors
    PROVE  Keeps(db, UpdateRecord(db, u, s))
<1>1. UpdateRecord(db, u, s) \in Databases
  BY UpdateRecordType
<1>2. CASE db[u] = None
  BY <1>2 DEF UpdateRecord, Keeps
<1>3. CASE db[u] # None
  <2> DEFINE row == [ext |-> s.ext, props |-> s.props, readings |-> db[u].readings]
  <2>1. UpdateRecord(db, u, s) = [db EXCEPT ![u] = row]
    BY <1>3 DEF UpdateRecord
  <2>2. row # None
    <3>1. row \in Rows
      BY <1>3 DEF Databases, Rows, Sensors
    <3>. QED BY <3>1, AbsentAssumption
  <2>. QED BY <2>1, <2>2 DEF Keeps, Kept, HasTable, Databases
<1>. QED BY <1>2, <1>3

LEMMA FlushSensorsKeeps ==
    ASSUME NEW db \in Databases, NEW b \in Buffers, NEW S \in SUBSET Uuids,
           \A u \in S : b.ops[u] # None
    PROVE  Keeps(db, FlushSensors(db, b, S))
<1>1. SUFFICES ASSUME NEW u \in Uuids, NEW t \in Times, Kept(db, u, t)
               PROVE  Kept(FlushSensors(db, b, S), u, t)
  BY DEF Keeps
<1>2. CASE u \notin S
  BY <1>1, <1>2 DEF FlushSensors, Kept, HasTable
<1>3. CASE u \in S
  <2>1. db[u] \in Rows /\ db[u].readings \in Readings /\ db[u].readings[t] # None
    BY <1>1, TableType DEF Kept
  <2>2. FlushSensors(db, b, S)[u]
          = [db[u] EXCEPT !.readings = Written(db[u].readings, b.ops[u])]
    BY <1>1, <1>3 DEF FlushSensors, Kept
  <2>3. Written(db[u].readings, b.ops[u])[t] # None
    BY <2>1, KeepFirstKeeps DEF Written
  <2>4. FlushSensors(db, b, S)[u].readings[t] # None
    BY <2>1, <2>2, <2>3 DEF Rows
  <2>5. HasTable(FlushSensors(db, b, S), u)
    <3>1. b.ops[u] \in Operations
      BY <1>3 DEF Buffers
    <3>2. Written(db[u].readings, b.ops[u]) \in Readings
      BY <2>1, <3>1, WrittenType
    <3>3. FlushSensors(db, b, S)[u] \in Rows
          /\ FlushSensors(db, b, S)[u].readings = Written(db[u].readings, b.ops[u])
      BY <2>1, <2>2, <3>2 DEF Rows
    <3>. QED BY <3>2, <3>3, AbsentAssumption DEF HasTable
  <2>. QED BY <2>4, <2>5 DEF Kept
<1>. QED BY <1>2, <1>3

LEMMA FlushUntilFailureKeeps ==
    ASSUME NEW db \in Databases, NEW b \in Buffers, NEW u \in Uuids
    PROVE  Keeps(db, FlushUntilFailure(db, b, u))
<1>1. CASE ~HasTable(db, u) \/ b.ops[u] = None
  BY <1>1 DEF FlushUntilFailure, Keeps
<1>2. CASE HasTable(db, u) /\ b.ops[u] # None
  <2> DEFINE repeated == Recorded(db[u].readings) \cap Recorded(b.ops[u].ins)
             before == [t \in Times |-> IF \E s \in repeated : s <= t
                                        THEN None ELSE b.ops[u].ins[t]]
             row == [db[u] EXCEPT !.readings = KeepFirst(db[u].readings, before)]
  <2>1. FlushUntilFailure(db, b, u) = [db EXCEPT ![u] = row]
    BY <1>2 DEF FlushUntilFailure
  <2>2. db[u] \in Rows /\ db[u].readings \in Readings /\ b.ops[u] \in Operations
    BY <1>2, TableType DEF Buffers
  <2>3. before \in Readings
    BY <2>2 DEF Operations, Readings
  <2>4. /\ row \in Rows
        /\ row.readings = KeepFirst(db[u].readings, before)
        /\ row.readings \in Readings
    <3>. HIDE DEF before
    <3>1. KeepFirst(db[u].readings, before) \in Readings
      BY <2>2, <2>3, KeepFirstType
    <3>. QED BY <2>2, <3>1 DEF Rows
  <2>5. \A t \in Times : db[u].readings[t] # None => row.readings[t] # None
    BY <2>4, KeepFirstKeeps
  <2>6. row # None /\ row.readings # None
    BY <2>4, AbsentAssumption
  <2>. HIDE DEF row
  <2>. QED BY <2>1, <2>5, <2>6 DEF Keeps, Kept, HasTable, Databases
<1>. QED BY <1>1, <1>2

\* Whether flush_all runs to its end or throws half-way.
LEMMA FlushAllKeeps ==
    ASSUME NEW db \in Databases, NEW b \in GoodBuffers,
           \A u \in Uuids : b.sensors[u] # NullPtr,
           NEW ignore, NEW r \in FlushAllOutcomes(db, b, ignore)
    PROVE  Keeps(db, r.db)
<1>1. Buffered(b) \subseteq Uuids /\ \A u \in Buffered(b) : b.ops[u] # None
  BY DEF Buffered, GoodBuffers, Agree
<1>2. b \in Buffers
  BY DEF GoodBuffers
<1>3. CASE r.db = FlushSensors(db, b, Buffered(b))
  BY <1>1, <1>2, <1>3, FlushSensorsKeeps
<1>4. ASSUME NEW f \in Buffered(b), NEW done \in SUBSET Buffered(b),
             r.db = FlushUntilFailure(FlushSensors(db, b, done), b, f)
      PROVE  Keeps(db, r.db)
  <2>1. FlushSensors(db, b, done) \in Databases
        /\ Keeps(db, FlushSensors(db, b, done))
    BY <1>1, <1>2, FlushSensorsType, FlushSensorsKeeps
  <2>2. Keeps(FlushSensors(db, b, done), r.db)
    BY <1>1, <1>2, <1>4, <2>1, FlushUntilFailureKeeps
  <2>. QED BY <2>1, <2>2 DEF Keeps
<1>5. \/ /\ r.db = FlushSensors(db, b, Buffered(b))
         /\ r.buf = ClearOperations(b, Buffered(b))
         /\ r.ok = TRUE
      \/ \E f \in Buffered(b), done \in SUBSET Buffered(b) :
            /\ r.db = FlushUntilFailure(FlushSensors(db, b, done), b, f)
            /\ r.buf = ClearOperations(b, done)
            /\ r.ok = FALSE
  BY FlushAllCases
<1>. QED BY <1>3, <1>4, <1>5

-----------------------------------------------------------------------------
(* Steps *)

LEMMA FinishKeeps ==
    ASSUME NEW db, NEW ok, Keeps(conn, db), Finish(db, ok)
    PROVE  KeepingStep
BY DEF Finish, KeepingStep

LEMMA TransactionsKeep ==
    ASSUME GoodState,
           StartTransaction \/ CommitTransaction \/ RollbackTransaction
    PROVE  KeepingStep
<1>1. CASE StartTransaction
  BY <1>1 DEF StartTransaction, KeepingStep, Keeps
<1>2. CASE CommitTransaction
  <2>1. PICK r \in FlushAllOutcomes(conn, buf, AutoFlush) :
          conn' = r.db /\ (disk' = r.db \/ UNCHANGED disk)
    BY <1>2 DEF CommitTransaction
  <2>2. Keeps(conn, r.db)
    BY <1>2, FlushAllKeeps DEF CommitTransaction, NoNullSensor, GoodState
  <2>. QED BY <2>1, <2>2 DEF KeepingStep
<1>3. CASE RollbackTransaction
  BY <1>3 DEF RollbackTransaction, KeepingStep
<1>. QED BY <1>1, <1>2, <1>3

LEMMA SensorsKeep ==
    ASSUME GoodState, NEW u \in Uuids, NEW s \in ClientSensors(u),
           AddSensor(u, s) \/ UpdateSensor(u, s) \/ UpdateSensorRefused(u, s)
    PROVE  KeepingStep
<1>. s \in Sensors
  BY ClientSensorsType
<1>1. CASE AddSensor(u, s)
  BY <1>1, InsertSensorKeeps, FinishKeeps DEF AddSensor, GoodState
<1>2. CASE UpdateSensor(u, s)
  BY <1>2, UpdateRecordKeeps, FinishKeeps DEF UpdateSensor, GoodState
<1>3. CASE UpdateSensorRefused(u, s)
  BY <1>3 DEF UpdateSensorRefused, KeepingStep, Keeps
<1>. QED BY <1>1, <1>2, <1>3

LEMMA ReadingsKeep ==
    ASSUME GoodState,
           \/ \E u \in Uuids, rs \in Readings, kind \in {"INSERT", "UPDATE"} :
                 AddReadings(u, rs, kind)
           \/ \E ignore \in BOOLEAN : Flush(ignore)
           \/ \E u \in Uuids : ReadReadings(u)
    PROVE  KeepingStep
<1>1. ASSUME NEW u \in Uuids, NEW rs \in Readings, NEW kind, AddReadings(u, rs, kind)
      PROVE  KeepingStep
  <2> DEFINE b == BufferReadings(buf, u, rs, kind)
  <2>1. b \in GoodBuffers /\ b.sensors = buf.sensors
    <3>1. buf.ops[u] # None /\ buf \in GoodBuffers
      BY <1>1 DEF AddReadings, GoodState
    <3>. QED BY <3>1, BufferReadingsGood DEF BufferReadings, GoodBuffers, Buffers
  <2>2. CASE UNCHANGED <<disk, conn>>
    BY <2>2 DEF KeepingStep, Keeps
  <2>3. ASSUME NoNullSensor,
               NEW r \in FlushAllOutcomes(conn, b, TRUE), Finish(r.db, r.ok)
        PROVE  KeepingStep
    <3>1. \A w \in Uuids : b.sensors[w] # NullPtr
      BY <2>1, <2>3 DEF NoNullSensor
    <3>. HIDE DEF b
    <3>2. Keeps(conn, r.db)
      BY <2>1, <3>1, FlushAllKeeps DEF GoodState
    <3>. QED BY <2>3, <3>2, FinishKeeps
  <2>. QED BY <1>1, <2>2, <2>3 DEF AddReadings
<1>2. ASSUME NEW ignore, Flush(ignore)
      PROVE  KeepingStep
  <2>1. PICK r \in FlushAllOutcomes(conn, buf, ignore) : Finish(r.db, r.ok)
    BY <1>2 DEF Flush
  <2>2. Keeps(conn, r.db)
    BY <1>2, FlushAllKeeps DEF Flush, NoNullSensor, GoodState
  <2>. QED BY <2>1, <2>2, FinishKeeps
<1>3. ASSUME NEW u \in Uuids, ReadReadings(u)
      PROVE  KeepingStep
  <2>1. buf \in Buffers /\ \A w \in {u} : buf.ops[w] # None
    BY <1>3 DEF ReadReadings, GoodState, GoodBuffers
  <2>2. Keeps(conn, FlushSensors(conn, buf, {u}))
    BY <2>1, FlushSensorsKeeps DEF GoodState
  <2>. QED BY <1>3, <2>2 DEF ReadReadings, KeepingStep
<1>. QED BY <1>1, <1>2, <1>3

\* An iteration never touches the file; one that throws leaves the connection
\* as it was or goes back to the file.
LEMMA SyncSensorKeeps ==
    ASSUME GoodState, NEW u \in Uuids, SyncSensor(u)
    PROVE  KeepingStep
<1> DEFINE row == syncing.todo[u]
           s == [ext |-> row.ext, props |-> row.props]
           known == buf.ids[row.ext]
           local == LocalUuid(u, row.ext)
           changed == known # None /\ buf.sensors[known].props # row.props
           db == IF known = None THEN InsertSensor(conn, u, s)
                 ELSE IF changed THEN UpdateRecord(conn, local, s) ELSE conn
           copying == syncing.readings /\ row.readings # NoReadings
           b == IF copying
                THEN BufferReadings(SetBuffers(buf, local, s), local, row.readings, "UPDATE")
                ELSE SetBuffers(buf, local, s)
<1>1. row \in Rows /\ row.readings \in Readings
  BY VisitedType
<1>2. s \in Sensors /\ row.ext \in ExtIds /\ row.readings \in Readings
  BY <1>1 DEF Rows, Sensors
<1>3. local \in Uuids
  BY <1>2 DEF LocalUuid, GoodState, GoodBuffers, Buffers
<1>4. db \in Databases
  BY <1>2, <1>3, InsertSensorType, UpdateRecordType DEF GoodState
<1>5. b \in GoodBuffers
  <2>1. SetBuffers(buf, local, s) \in GoodBuffers
    BY <1>2, <1>3, SetBuffersGood DEF GoodState
  <2>2. SetBuffers(buf, local, s).ops[local] # None
    <3>1. SetBuffers(buf, local, s).sensors[local] = s
      BY <1>3 DEF SetBuffers
    <3>. QED BY <1>2, <1>3, <2>1, <3>1, AbsentAssumption DEF GoodBuffers, Agree
  <2>. QED BY <1>2, <1>3, <2>1, <2>2, BufferReadingsGood
<1>6. UNCHANGED disk
  BY DEF SyncSensor
<1>7. \/ SyncLeaves(u, conn, FALSE)
      \/ /\ known = None => CanInsert(conn, u, s)
         /\ \/ SyncLeaves(u, db, TRUE)
            \/ /\ \A w \in Uuids : b.sensors[w] # NullPtr
               /\ \E r \in FlushAllOutcomes(db, b, TRUE) : SyncLeaves(u, r.db, r.ok)
  BY DEF SyncSensor
<1>8. known = None => Keeps(conn, InsertSensor(conn, u, s)) \/ ~CanInsert(conn, u, s)
  BY <1>2, InsertSensorKeeps DEF GoodState
<1>9. Keeps(conn, UpdateRecord(conn, local, s)) /\ Keeps(conn, conn)
  BY <1>2, <1>3, UpdateRecordKeeps DEF GoodState, Keeps
<1>10. (known = None => CanInsert(conn, u, s)) => Keeps(conn, db)
  BY <1>8, <1>9
<1>. HIDE DEF db, b
<1>11. ASSUME NEW after, Keeps(conn, after), NEW ok, SyncLeaves(u, after, ok)
       PROVE  KeepingStep
  BY <1>6, <1>11 DEF SyncLeaves, KeepingStep
<1>12. ASSUME \A w \in Uuids : b.sensors[w] # NullPtr, Keeps(conn, db),
              NEW r \in FlushAllOutcomes(db, b, TRUE), SyncLeaves(u, r.db, r.ok)
       PROVE  KeepingStep
  <2>1. Keeps(db, r.db)
    BY <1>4, <1>5, <1>12, FlushAllKeeps
  <2>2. Keeps(conn, r.db)
    BY <1>12, <2>1 DEF Keeps
  <2>. QED BY <1>11, <1>12, <2>2
<1>. QED BY <1>7, <1>9, <1>10, <1>11, <1>12

LEMMA SyncKeeps ==
    ASSUME GoodState,
           \/ \E src \in Sources, readings \in BOOLEAN : SyncBegin(src, readings)
           \/ \E u \in Uuids : SyncSensor(u) \/ SyncSourceFails(u)
           \/ SyncEnd
    PROVE  KeepingStep
<1>. Keeps(conn, conn)
  BY DEF Keeps
<1>1. ASSUME NEW src, NEW readings, SyncBegin(src, readings)
      PROVE  KeepingStep
  BY <1>1 DEF SyncBegin, KeepingStep
<1>2. ASSUME NEW u \in Uuids, SyncSensor(u)
      PROVE  KeepingStep
  BY <1>2, SyncSensorKeeps
<1>3. ASSUME NEW u \in Uuids, SyncSourceFails(u)
      PROVE  KeepingStep
  BY <1>3 DEF SyncSourceFails, SyncLeaves, KeepingStep
<1>4. CASE SyncEnd
  BY <1>4, FinishKeeps DEF SyncEnd
<1>. QED BY <1>1, <1>2, <1>3, <1>4

\* What a crash leaves of a flush outside a transaction.
LEMMA CrashWhileWritingKeeps ==
    ASSUME GoodState, NEW u \in Uuids, NEW kind, NEW cut \in Times,
           CrashWhileWriting(u, kind, cut)
    PROVE  KeepingStep
<1> DEFINE upTo(r) == [t \in Times |-> IF t <= cut THEN r[t] ELSE None]
           o == buf.ops[u]
           early == IF kind = "INSERT" THEN [ins |-> upTo(o.ins), upd |-> NoReadings]
                    ELSE [ins |-> o.ins, upd |-> upTo(o.upd)]
           row == [conn[u] EXCEPT !.readings = Written(conn[u].readings, early)]
<1>1. /\ o \in Operations
      /\ conn \in Databases /\ conn[u] \in Rows /\ conn[u].readings \in Readings
  BY TableType DEF CrashWhileWriting, GoodState, GoodBuffers, Buffers
<1>2. early \in Operations
  BY <1>1 DEF Operations, Readings, NoReadings
<1>3. conn' = [conn EXCEPT ![u] = row] /\ disk' = conn'
  BY DEF CrashWhileWriting, Stopped, Ended
<1>. HIDE DEF early
<1>4. /\ row \in Rows
      /\ row.readings = Written(conn[u].readings, early)
      /\ row.readings \in Readings
  <2>1. Written(conn[u].readings, early) \in Readings
    BY <1>1, <1>2, WrittenType
  <2>. QED BY <1>1, <2>1 DEF Rows
<1>5. \A t \in Times : conn[u].readings[t] # None => row.readings[t] # None
  BY <1>4, KeepFirstKeeps DEF Written
<1>6. row # None /\ row.readings # None
  BY <1>4, AbsentAssumption
<1>. HIDE DEF row
<1>7. Keeps(conn, conn')
  BY <1>1, <1>3, <1>5, <1>6 DEF Keeps, Kept, HasTable, Databases
<1>. QED BY <1>3, <1>7 DEF KeepingStep

LEMMA LifeCycleKeeps ==
    ASSUME GoodState,
           \/ TimeoutElapses
           \/ Open
           \/ Create
           \/ Close
           \/ Crash
           \/ \E e \in ExtIds : LookupByExternalId(e)
           \/ UNCHANGED vars
    PROVE  KeepingStep
<1>. Keeps(conn, conn)
  BY DEF Keeps
<1>1. CASE UNCHANGED <<disk, conn>>
  BY <1>1 DEF KeepingStep
<1>2. CASE Close \/ Crash
  BY <1>2 DEF Close, Crash, Stopped, Ended, KeepingStep
<1>. QED
  BY <1>1, <1>2 DEF TimeoutElapses, Open, Create, Prepare, LookupByExternalId, vars

LEMMA RemoveWithoutTableKeeps ==
    ASSUME GoodState, NEW u \in Uuids, RemoveSensorWithoutTable(u)
    PROVE  KeepingStep
BY DEF RemoveSensorWithoutTable, DeleteSensor, KeepingStep, Keeps, Kept, HasTable,
       GoodState, Databases

-----------------------------------------------------------------------------

LEMMA NextKeeps ==
    ASSUME GoodState, [Next]_vars
    PROVE  KeepingStep \/ RotationStep \/ \E u \in Uuids : RemoveSensor(u)
BY TransactionsKeep, SensorsKeep, RemoveWithoutTableKeeps, ReadingsKeep, SyncKeeps,
   CrashWhileWritingKeeps, LifeCycleKeeps
DEF Next, RotationStep

\* remove_sensor takes only the readings of its own sensor.
LEMMA RemoveSensorKeeps ==
    ASSUME GoodState, NEW u \in Uuids, RemoveSensor(u)
    PROVE  ReadingsStayPut
<1>1. conn' \in {DeleteSensor(conn, u), disk} /\ disk' \in {DeleteSensor(conn, u), disk}
  BY DEF RemoveSensor, Finish
<1>2. conn' = DeleteSensor(conn, u) \/ (conn' = disk /\ disk' = disk)
  BY DEF RemoveSensor, Finish
<1>3. ASSUME NEW w \in Uuids \ {u}, NEW t \in Times
      PROVE  Kept(DeleteSensor(conn, u), w, t) <=> Kept(conn, w, t)
  BY DEF DeleteSensor, Kept, HasTable, GoodState, Databases
<1>. QED BY <1>1, <1>2, <1>3 DEF ReadingsStayPut

\* ReadingsStay, with any clients and any faults: what is stored outlives
\* failed and refused calls, redefinitions, syncs, flushes, restarts, crashes.
THEOREM ReadingsStayTheorem == Spec => ReadingsStay
<1>1. Init => GoodState
  BY InitGood
<1>2. GoodState /\ [Next]_vars => GoodState'
  BY NextGood
<1>3. GoodState /\ [Next]_vars => [ReadingsStayPut]_vars
  <2>1. KeepingStep => ReadingsStayPut
    BY KeepingStepKeeps DEF ReadingsStayPut
  <2>2. RotationStep => ReadingsStayPut
    BY DEF ReadingsStayPut
  <2>. QED BY <2>1, <2>2, NextKeeps, RemoveSensorKeeps
<1>. QED BY <1>1, <1>2, <1>3, PTL DEF Spec, ReadingsStay
=============================================================================
