------------------------- MODULE StoreContentsProofs -------------------------
(***************************************************************************)
(* Between orderly clients and without faults the buffers of a store are   *)
(* its database, for every set of sensors, ids and readings and for        *)
(* automatic and manual commits and flushes.                               *)
(***************************************************************************)
EXTENDS StoreProofs

\* Sensors have their tables, keep the external id they were created with, and
\* share none.
AtHome(db) == \A u \in Uuids : db[u] # None => db[u].ext = HomeExt[u] /\ HasTable(db, u)

UniqueIds(db) ==
    \A u, w \in Uuids :
        db[u] # None /\ db[w] # None /\ db[u].ext = db[w].ext => u = w

\* The external ids of the buffers lead to their sensors and to nothing else.
Led(b) ==
    \A u \in Uuids :
        /\ b.sensors[u] # NullPtr
        /\ \A e \in ExtIds :
              b.ids[e] = u <=> b.sensors[u] # None /\ b.sensors[u].ext = e

\* The buffers b are those of the database db.
Mirrors(db, b) ==
    /\ Led(b)
    /\ AtHome(db)
    /\ \A u \in Uuids :
          /\ b.sensors[u] # None <=> db[u] # None
          /\ db[u] # None => b.sensors[u].ext = db[u].ext

\* The same sensors with the same external ids, and no table less.
SameSensors(db, after) ==
    \A u \in Uuids : /\ db[u] = None <=> after[u] = None
                     /\ db[u] # None => after[u].ext = db[u].ext
                     /\ HasTable(db, u) => HasTable(after, u)

\* ... and with the same definitions.
SameProps(db, after) ==
    \A u \in Uuids : db[u] # None => after[u].props = db[u].props

-----------------------------------------------------------------------------
(* Operators *)

LEMMA MirrorsUnique ==
    ASSUME NEW db \in Databases, NEW b, Mirrors(db, b)
    PROVE  UniqueIds(db)
<1>1. ASSUME NEW u \in Uuids, db[u] # None
      PROVE  b.ids[db[u].ext] = u
  <2>1. db[u].ext \in ExtIds
    BY <1>1 DEF Databases, Rows
  <2>. QED BY <1>1, <2>1 DEF Mirrors, Led
<1>. QED BY <1>1 DEF UniqueIds

\* Readings do not matter.
LEMMA MirrorsStay ==
    ASSUME NEW db, NEW after, NEW b, NEW c, Mirrors(db, b), SameSensors(db, after),
           c.sensors = b.sensors, c.ids = b.ids
    PROVE  Mirrors(after, c)
BY DEF Mirrors, Led, AtHome, SameSensors

LEMMA FlushSensorsSame ==
    ASSUME NEW db \in Databases, NEW b \in Buffers, NEW S \in SUBSET Uuids,
           \A u \in S : b.ops[u] # None
    PROVE  /\ SameSensors(db, FlushSensors(db, b, S))
           /\ SameProps(db, FlushSensors(db, b, S))
<1>1. FlushSensors(db, b, S) \in Databases
  BY FlushSensorsType
<1>2. ASSUME NEW u \in Uuids, db[u] # None
      PROVE  /\ FlushSensors(db, b, S)[u] # None
             /\ FlushSensors(db, b, S)[u].ext = db[u].ext
             /\ FlushSensors(db, b, S)[u].props = db[u].props
             /\ HasTable(db, u) => HasTable(FlushSensors(db, b, S), u)
  <2>1. db[u] \in Rows
    BY <1>2 DEF Databases
  <2>2. CASE u \in S /\ HasTable(db, u)
    <3>1. FlushSensors(db, b, S)[u]
            = [db[u] EXCEPT !.readings = Written(db[u].readings, b.ops[u])]
      BY <2>2 DEF FlushSensors
    <3>2. b.ops[u] \in Operations
      BY <2>2 DEF Buffers
    <3>3. Written(db[u].readings, b.ops[u]) \in Readings
      BY <2>2, <3>2, TableType, WrittenType
    <3>4. /\ FlushSensors(db, b, S)[u] \in Rows
          /\ FlushSensors(db, b, S)[u].readings = Written(db[u].readings, b.ops[u])
          /\ FlushSensors(db, b, S)[u].ext = db[u].ext
          /\ FlushSensors(db, b, S)[u].props = db[u].props
      BY <2>1, <3>1, <3>3 DEF Rows
    <3>. QED BY <3>3, <3>4, AbsentAssumption DEF HasTable
  <2>3. CASE ~(u \in S /\ HasTable(db, u))
    <3>1. FlushSensors(db, b, S)[u] = db[u]
      BY <2>3 DEF FlushSensors
    <3>. QED BY <1>2, <3>1 DEF HasTable
  <2>. QED BY <2>2, <2>3
<1>3. ASSUME NEW u \in Uuids, db[u] = None
      PROVE  FlushSensors(db, b, S)[u] = None
  BY <1>3 DEF FlushSensors, HasTable
<1>4. \A u \in Uuids : HasTable(db, u) => db[u] # None
  BY DEF HasTable
<1>. QED BY <1>2, <1>3, <1>4 DEF SameSensors, SameProps

LEMMA FlushUntilFailureSame ==
    ASSUME NEW db \in Databases, NEW b \in Buffers, NEW u \in Uuids
    PROVE  /\ SameSensors(db, FlushUntilFailure(db, b, u))
           /\ SameProps(db, FlushUntilFailure(db, b, u))
<1>1. CASE ~HasTable(db, u) \/ b.ops[u] = None
  BY <1>1 DEF FlushUntilFailure, SameSensors, SameProps
<1>2. CASE HasTable(db, u) /\ b.ops[u] # None
  <2> DEFINE repeated == Recorded(db[u].readings) \cap Recorded(b.ops[u].ins)
             before == [t \in Times |-> IF \E s \in repeated : s <= t
                                        THEN None ELSE b.ops[u].ins[t]]
             row == [db[u] EXCEPT !.readings = KeepFirst(db[u].readings, before)]
  <2>1. FlushUntilFailure(db, b, u) = [db EXCEPT ![u] = row]
    BY <1>2 DEF FlushUntilFailure
  <2>2. db[u] \in Rows /\ db[u].readings \in Readings /\ b.ops[u] \in Operations
    BY <1>2, TableType DEF Buffers
  <2>3. before \in Readings
    BY <2>2 DEF Operations, Readings
  <2>4. /\ row \in Rows /\ row.ext = db[u].ext /\ row.props = db[u].props
        /\ row.readings \in Readings
    <3>. HIDE DEF before
    <3>1. KeepFirst(db[u].readings, before) \in Readings
      BY <2>2, <2>3, KeepFirstType
    <3>. QED BY <2>2, <3>1 DEF Rows
  <2>5. row # None /\ row.readings # None
    BY <2>4, AbsentAssumption
  <2>. HIDE DEF row
  <2>. QED BY <1>2, <2>1, <2>4, <2>5 DEF SameSensors, SameProps, HasTable, Databases
<1>. QED BY <1>1, <1>2

LEMMA FlushAllSame ==
    ASSUME NEW db \in Databases, NEW b \in GoodBuffers,
           \A u \in Uuids : b.sensors[u] # NullPtr,
           NEW ignore, NEW r \in FlushAllOutcomes(db, b, ignore)
    PROVE  /\ SameSensors(db, r.db)
           /\ SameProps(db, r.db)
           /\ r.buf.sensors = b.sensors
           /\ r.buf.ids = b.ids
<1>1. Buffered(b) \subseteq Uuids /\ \A u \in Buffered(b) : b.ops[u] # None
  BY DEF Buffered, GoodBuffers, Agree
<1>2. b \in Buffers
  BY DEF GoodBuffers
<1>3. \A S : /\ ClearOperations(b, S).sensors = b.sensors
             /\ ClearOperations(b, S).ids = b.ids
  BY <1>2 DEF ClearOperations, Buffers
<1>4. CASE /\ r.db = FlushSensors(db, b, Buffered(b))
           /\ r.buf = ClearOperations(b, Buffered(b))
  BY <1>1, <1>2, <1>3, <1>4, FlushSensorsSame
<1>5. ASSUME NEW f \in Buffered(b), NEW done \in SUBSET Buffered(b),
             r.db = FlushUntilFailure(FlushSensors(db, b, done), b, f),
             r.buf = ClearOperations(b, done)
      PROVE  /\ SameSensors(db, r.db) /\ SameProps(db, r.db)
             /\ r.buf.sensors = b.sensors /\ r.buf.ids = b.ids
  <2>1. FlushSensors(db, b, done) \in Databases
        /\ SameSensors(db, FlushSensors(db, b, done))
        /\ SameProps(db, FlushSensors(db, b, done))
    BY <1>1, <1>2, FlushSensorsType, FlushSensorsSame
  <2>2. /\ SameSensors(FlushSensors(db, b, done), r.db)
        /\ SameProps(FlushSensors(db, b, done), r.db)
    BY <1>1, <1>2, <1>5, <2>1, FlushUntilFailureSame
  <2>3. SameSensors(db, r.db) /\ SameProps(db, r.db)
    BY <2>1, <2>2 DEF SameSensors, SameProps
  <2>. QED BY <1>3, <1>5, <2>3
<1>6. \/ /\ r.db = FlushSensors(db, b, Buffered(b))
         /\ r.buf = ClearOperations(b, Buffered(b))
         /\ r.ok = TRUE
      \/ \E f \in Buffered(b), done \in SUBSET Buffered(b) :
            /\ r.db = FlushUntilFailure(FlushSensors(db, b, done), b, f)
            /\ r.buf = ClearOperations(b, done)
            /\ r.ok = FALSE
  BY FlushAllCases
<1>. QED BY <1>4, <1>5, <1>6

\* flush_all ends early only at a sensor whose flush throws.
LEMMA FlushAllFails ==
    ASSUME NEW db, NEW b, NEW ignore, NEW r \in FlushAllOutcomes(db, b, ignore)
    PROVE  \/ /\ r.db = FlushSensors(db, b, Buffered(b))
              /\ r.buf = ClearOperations(b, Buffered(b))
              /\ r.ok = TRUE
           \/ \E f \in Buffered(b) : FlushFails(db, b, f, ignore)
<1> DEFINE fails == {u \in Buffered(b) : FlushFails(db, b, u, ignore)}
           ignorable == {u \in fails : ignore /\ b.ops[u] # None /\ db[u] = None}
           complete == {[db  |-> FlushSensors(db, b, Buffered(b)),
                         buf |-> ClearOperations(b, Buffered(b)),
                         ok  |-> TRUE]}
           cut(f) == {[db  |-> FlushUntilFailure(FlushSensors(db, b, done), b, f),
                       buf |-> ClearOperations(b, done),
                       ok  |-> FALSE] :
                      done \in SUBSET (Buffered(b) \ ({f} \cup (fails \ ignorable)))}
<1>1. r \in complete \/ \E f \in fails : r \in cut(f)
  <2>. HIDE DEF complete, cut, fails, ignorable
  <2>1. FlushAllOutcomes(db, b, ignore) \subseteq complete \cup UNION {cut(f) : f \in fails}
    BY DEF FlushAllOutcomes, complete, cut, fails, ignorable
  <2>. QED BY <2>1
<1>. QED BY <1>1

\* A flush of all sensors that ignores errors runs to its end, if every sensor
\* has its table.
LEMMA FlushAllSucceeds ==
    ASSUME NEW db, NEW b \in GoodBuffers, \A u \in Uuids : b.sensors[u] # NullPtr,
           \A u \in Buffered(b) : HasTable(db, u),
           NEW r \in FlushAllOutcomes(db, b, TRUE)
    PROVE  /\ r.db = FlushSensors(db, b, Buffered(b))
           /\ r.buf = ClearOperations(b, Buffered(b))
           /\ r.ok = TRUE
<1>1. \A u \in Buffered(b) : ~FlushFails(db, b, u, TRUE)
  BY DEF Buffered, GoodBuffers, Agree, FlushFails
<1>2. \/ /\ r.db = FlushSensors(db, b, Buffered(b))
         /\ r.buf = ClearOperations(b, Buffered(b))
         /\ r.ok = TRUE
      \/ \E u \in Buffered(b) : FlushFails(db, b, u, TRUE)
  BY FlushAllFails
<1>. QED BY <1>1, <1>2

LEMMA MirrorsWhole ==
    ASSUME NEW db, NEW b, Mirrors(db, b)
    PROVE  /\ \A u \in Uuids : b.sensors[u] # NullPtr
           /\ \A u \in Buffered(b) : HasTable(db, u)
BY DEF Mirrors, Led, AtHome, Buffered

LEMMA LoadBuffersMirrors ==
    ASSUME NEW db \in Databases, AtHome(db), UniqueIds(db)
    PROVE  Mirrors(db, LoadBuffers(db))
<1> DEFINE b == LoadBuffers(db)
<1>1. ASSUME NEW u \in Uuids
      PROVE  /\ b.sensors[u] # NullPtr
             /\ b.sensors[u] # None <=> db[u] # None
             /\ db[u] # None => b.sensors[u].ext = db[u].ext
  <2>1. CASE db[u] = None
    BY <2>1, AbsentAssumption DEF LoadBuffers
  <2>2. CASE db[u] # None
    <3>1. [ext |-> db[u].ext, props |-> db[u].props] \in Sensors
      BY <2>2 DEF Databases, Rows, Sensors
    <3>2. b.sensors[u] = [ext |-> db[u].ext, props |-> db[u].props]
      BY <2>2 DEF LoadBuffers
    <3>. QED BY <2>2, <3>1, <3>2, AbsentAssumption DEF LoadBuffers
  <2>. QED BY <2>1, <2>2
<1>2. ASSUME NEW u \in Uuids, NEW e \in ExtIds
      PROVE  b.ids[e] = u <=> db[u] # None /\ db[u].ext = e
  <2> DEFINE H == {w \in Uuids : db[w] # None /\ db[w].ext = e}
  <2>1. b.ids[e] = IF \E w \in Uuids : db[w] # None /\ db[w].ext = e
                   THEN CHOOSE w \in Uuids : db[w] # None /\ db[w].ext = e
                   ELSE None
    BY DEF LoadBuffers
  <2>2. None \notin Uuids
    BY AbsentAssumption
  <2>3. CASE \E w \in Uuids : db[w] # None /\ db[w].ext = e
    <3>1. b.ids[e] \in Uuids /\ db[b.ids[e]] # None /\ db[b.ids[e]].ext = e
      BY <2>1, <2>3
    <3>. QED BY <3>1 DEF UniqueIds
  <2>4. CASE ~\E w \in Uuids : db[w] # None /\ db[w].ext = e
    BY <2>1, <2>2, <2>4
  <2>. QED BY <2>3, <2>4
<1>. HIDE DEF b
<1>3. Mirrors(db, b)
  BY <1>1, <1>2 DEF Mirrors, Led
<1>. QED BY <1>3 DEF b

\* A sensor nobody knows.
LEMMA InsertMirrors ==
    ASSUME NEW db \in Databases, NEW b \in GoodBuffers, Mirrors(db, b),
           NEW u \in Uuids, NEW s \in Sensors, s.ext = HomeExt[u], b.ids[s.ext] = None
    PROVE  Mirrors(InsertSensor(db, u, s), SetBuffers(b, u, s))
<1> DEFINE after == InsertSensor(db, u, s)
           c == SetBuffers(b, u, s)
           row == [ext |-> s.ext, props |-> s.props, readings |-> NoReadings]
<1>1. s.ext \in ExtIds /\ s # None /\ s # NullPtr /\ None \notin Uuids
  BY AbsentAssumption DEF Sensors
<1>2. row # None
  BY NoOperationsType, AbsentAssumption DEF Rows, Sensors
<1>3. \A w \in Uuids : after[w] = IF w = u THEN row ELSE db[w]
  BY DEF InsertSensor, Databases
<1>4. \A w \in Uuids : c.sensors[w] = IF w = u THEN s ELSE b.sensors[w]
  BY <1>1 DEF SetBuffers
<1>5. \A e \in ExtIds : c.ids[e] = IF e = s.ext THEN u ELSE b.ids[e]
  BY DEF SetBuffers, GoodBuffers, Buffers
<1>6. \A w \in Uuids : b.sensors[w] # None => b.sensors[w].ext # s.ext
  BY <1>1 DEF Mirrors, Led
<1>7. b.sensors[u] = None
  BY <1>6 DEF Mirrors, AtHome
<1>8. Led(c)
  BY <1>1, <1>4, <1>5, <1>6, <1>7 DEF Mirrors, Led
<1>9. AtHome(after)
  BY <1>2, <1>3, NoOperationsType, AbsentAssumption DEF Mirrors, AtHome, HasTable
<1>10. row.ext = s.ext
  OBVIOUS
<1>. HIDE DEF after, c, row
<1>11. Mirrors(after, c)
  BY <1>1, <1>2, <1>3, <1>4, <1>8, <1>9, <1>10 DEF Mirrors
<1>. QED BY <1>11 DEF after, c

\* A sensor that is there, in the buffers and in the table.
LEMMA SetBuffersMirrors ==
    ASSUME NEW db, NEW b \in GoodBuffers, Mirrors(db, b),
           NEW u \in Uuids, db[u] # None, NEW s \in Sensors, s.ext = HomeExt[u]
    PROVE  Mirrors(db, SetBuffers(b, u, s))
<1> DEFINE c == SetBuffers(b, u, s)
<1>1. s.ext \in ExtIds /\ s # None /\ s # NullPtr
  BY AbsentAssumption DEF Sensors
<1>2. b.ids[s.ext] = u /\ db[u].ext = s.ext
  BY <1>1 DEF Mirrors, Led, AtHome
<1>3. \A w \in Uuids : c.sensors[w] = IF w = u THEN s ELSE b.sensors[w]
  BY <1>2 DEF SetBuffers
<1>4. \A e \in ExtIds : c.ids[e] = b.ids[e]
  BY <1>2 DEF SetBuffers, GoodBuffers, Buffers
<1>. HIDE DEF c
<1>5. Led(c)
  BY <1>1, <1>2, <1>3, <1>4 DEF Mirrors, Led
<1>6. Mirrors(db, c)
  BY <1>1, <1>2, <1>3, <1>5 DEF Mirrors
<1>. QED BY <1>6 DEF c

LEMMA UpdateRecordSame ==
    ASSUME NEW db \in Databases, NEW u \in Uuids, NEW s \in Sensors,
           db[u] # None => db[u].ext = s.ext
    PROVE  SameSensors(db, UpdateRecord(db, u, s))
<1>1. CASE db[u] = None
  BY <1>1 DEF UpdateRecord, SameSensors
<1>2. CASE db[u] # None
  <2> DEFINE row == [ext |-> s.ext, props |-> s.props, readings |-> db[u].readings]
  <2>1. row \in Rows
    BY <1>2 DEF Databases, Rows, Sensors
  <2>2. UpdateRecord(db, u, s) = [db EXCEPT ![u] = row]
    BY <1>2 DEF UpdateRecord
  <2>3. row # None
    BY <2>1, AbsentAssumption
  <2>. QED BY <1>2, <2>2, <2>3 DEF SameSensors, HasTable, Databases
<1>. QED BY <1>1, <1>2

LEMMA DeleteMirrors ==
    ASSUME NEW db \in Databases, NEW b \in GoodBuffers, Mirrors(db, b),
           NEW u \in Uuids, db[u] # None
    PROVE  Mirrors(DeleteSensor(db, u), ClearSensor(b, u, b.sensors[u].ext))
<1> DEFINE after == DeleteSensor(db, u)
           e == b.sensors[u].ext
           c == ClearSensor(b, u, e)
<1>1. e \in ExtIds /\ b.ids[e] = u /\ None # NullPtr /\ None \notin Uuids
  <2>1. db[u].ext \in ExtIds
    BY DEF Databases, Rows
  <2>. QED BY <2>1, AbsentAssumption DEF Mirrors, Led
<1>2. \A w \in Uuids : after[w] = IF w = u THEN None ELSE db[w]
  BY DEF DeleteSensor, Databases
<1>3. \A w \in Uuids : c.sensors[w] = IF w = u THEN None ELSE b.sensors[w]
  BY DEF ClearSensor, GoodBuffers, Buffers
<1>4. \A x \in ExtIds : c.ids[x] = IF x = e THEN None ELSE b.ids[x]
  BY DEF ClearSensor, GoodBuffers, Buffers
<1>5. \A w \in Uuids : b.sensors[w] # None /\ b.sensors[w].ext = e => w = u
  BY <1>1 DEF Mirrors, Led
<1>. HIDE DEF after, c, e
<1>6. Led(c)
  BY <1>1, <1>3, <1>4, <1>5 DEF Mirrors, Led
<1>7. Mirrors(after, c)
  BY <1>2, <1>3, <1>6 DEF Mirrors, AtHome, HasTable
<1>. QED BY <1>7 DEF after, c, e

-----------------------------------------------------------------------------
(* Steps *)

\* What holds between calls of orderly clients without faults: the open store
\* mirrors what its connection reads, and what it could go back to can be
\* loaded.
MirrorInv ==
    /\ AtHome(disk)
    /\ UniqueIds(disk)
    /\ syncing # None => AtHome(syncing.todo)
    /\ status = "open" => Mirrors(conn, buf)
    /\ status # "open" => buf = EmptyBuffers

LEMMA InitMirror == Init => MirrorInv
<1>. None # NullPtr /\ None \notin Uuids
  BY AbsentAssumption
<1>. QED BY DEF Init, MirrorInv, AtHome, UniqueIds, Mirrors, Led, EmptyDatabase, EmptyBuffers

\* The end of a call that leaves a mirror behind.
LEMMA MirrorCall ==
    ASSUME MirrorInv, GoodState', status = "open", Mirrors(conn', buf'),
           disk' \in {disk, conn'}, UNCHANGED <<status, syncing>>
    PROVE  MirrorInv'
<1>1. UniqueIds(conn') /\ AtHome(conn')
  BY MirrorsUnique DEF GoodState, Mirrors
<1>2. UniqueIds(disk') /\ AtHome(disk')
  BY <1>1 DEF MirrorInv
<1>. QED BY <1>2 DEF MirrorInv

\* A call that ends in Finish(db, ok) and keeps the sensors.
LEMMA MirrorFinish ==
    ASSUME MirrorInv, FileInv, GoodState', MayWrite, Faults = {},
           NEW db, NEW ok \in BOOLEAN, Finish(db, ok), SameSensors(conn, db),
           buf'.sensors = buf.sensors, buf'.ids = buf.ids,
           UNCHANGED <<status, syncing>>
    PROVE  MirrorInv'
<1>1. status = "open" /\ Mirrors(conn, buf)
  BY DEF MirrorInv, MayWrite, Idle
<1>2. AutoCommit => conn = disk
  BY DEF FileInv, MayWrite, Idle
<1>3. conn' \in {db, conn} /\ disk' \in {disk, conn'}
  BY <1>2 DEF Finish
<1>4. SameSensors(conn, conn')
  BY <1>3 DEF SameSensors
<1>5. Mirrors(conn', buf')
  BY <1>1, <1>4, MirrorsStay
<1>. QED BY <1>1, <1>3, <1>5, MirrorCall

LEMMA TransactionsMirror ==
    ASSUME MirrorInv, GoodState, GoodState',
           StartTransaction \/ CommitTransaction \/ RollbackTransaction
    PROVE  MirrorInv'
<1>1. status = "open" /\ Mirrors(conn, buf) /\ UNCHANGED <<status, syncing>>
  BY DEF StartTransaction, CommitTransaction, RollbackTransaction, Idle, MirrorInv
<1>2. CASE StartTransaction
  BY <1>1, <1>2, MirrorCall DEF StartTransaction
<1>3. CASE CommitTransaction
  <2>1. PICK r \in FlushAllOutcomes(conn, buf, AutoFlush) :
          conn' = r.db /\ buf' = r.buf /\ disk' \in {disk, r.db}
    BY <1>3 DEF CommitTransaction
  <2>2. SameSensors(conn, r.db) /\ r.buf.sensors = buf.sensors /\ r.buf.ids = buf.ids
    BY <1>3, FlushAllSame DEF CommitTransaction, NoNullSensor, GoodState
  <2>3. Mirrors(conn', buf')
    BY <1>1, <2>1, <2>2, MirrorsStay
  <2>. QED BY <1>1, <2>1, <2>3, MirrorCall
<1>4. CASE RollbackTransaction
  <2>1. conn' = disk /\ disk' = disk /\ buf' = LoadBuffers(disk)
    BY <1>4 DEF RollbackTransaction
  <2>2. Mirrors(conn', buf')
    BY <2>1, LoadBuffersMirrors DEF MirrorInv, GoodState
  <2>. QED BY <1>1, <2>1, <2>2, MirrorCall
<1>. QED BY <1>2, <1>3, <1>4

LEMMA HomeSensors ==
    ASSUME Orderly, NEW u \in Uuids, NEW s \in ClientSensors(u)
    PROVE  s \in Sensors /\ s.ext = HomeExt[u]
BY ClientSensorsType DEF Orderly, ClientSensors, ClientIds

LEMMA SensorsMirror ==
    ASSUME MirrorInv, GoodState, GoodState', Orderly, Faults = {},
           NEW u \in Uuids, NEW s \in ClientSensors(u),
           AddSensor(u, s) \/ UpdateSensor(u, s) \/ UpdateSensorRefused(u, s)
    PROVE  MirrorInv'
<1>1. s \in Sensors /\ s.ext = HomeExt[u] /\ s.ext \in ExtIds
  BY HomeSensors DEF Sensors
<1>2. status = "open" /\ Mirrors(conn, buf) /\ UNCHANGED <<status, syncing>>
  BY DEF AddSensor, UpdateSensor, UpdateSensorRefused, MayWrite, Idle, MirrorInv
<1>3. conn \in Databases /\ buf \in GoodBuffers
  BY DEF GoodState
<1>4. CASE AddSensor(u, s)
  <2>1. conn' = InsertSensor(conn, u, s) /\ disk' \in {disk, conn'}
        /\ buf' = SetBuffers(buf, u, s) /\ CanInsert(conn, u, s)
    BY <1>4 DEF AddSensor, Finish
  <2>2. buf.ids[s.ext] = None
    <3>1. \A w \in Uuids : conn[w] # None => conn[w].ext # s.ext
      BY <2>1 DEF CanInsert, Taken
    <3>2. \A w \in Uuids : buf.ids[s.ext] # w
      BY <1>1, <1>2, <3>1 DEF Mirrors, Led
    <3>. QED BY <1>1, <1>3, <3>2 DEF GoodBuffers, Buffers
  <2>3. Mirrors(conn', buf')
    BY <1>1, <1>2, <1>3, <2>1, <2>2, InsertMirrors
  <2>. QED BY <1>2, <2>1, <2>3, MirrorCall
<1>5. CASE UpdateSensor(u, s)
  <2>1. conn' = UpdateRecord(conn, u, s) /\ disk' \in {disk, conn'}
        /\ buf' = SetBuffers(buf, u, s) /\ conn[u] # None
    BY <1>5 DEF UpdateSensor, Finish, Orderly
  <2>2. SameSensors(conn, conn')
    BY <1>1, <1>2, <1>3, <2>1, UpdateRecordSame DEF Mirrors, AtHome
  <2>3. Mirrors(conn, buf')
    BY <1>1, <1>2, <1>3, <2>1, SetBuffersMirrors
  <2>4. Mirrors(conn', buf')
    BY <2>2, <2>3, MirrorsStay
  <2>. QED BY <1>2, <2>1, <2>4, MirrorCall
<1>6. CASE UpdateSensorRefused(u, s)
  <2>1. buf' = [buf EXCEPT !.sensors[u] = s] /\ buf.sensors[u] # None
        /\ UNCHANGED <<disk, conn>>
    BY <1>6 DEF UpdateSensorRefused
  <2>2. /\ \A w \in Uuids : buf'.sensors[w] = IF w = u THEN s ELSE buf.sensors[w]
        /\ buf'.ids = buf.ids
    BY <1>3, <2>1 DEF GoodBuffers, Buffers
  <2>3. s # None /\ s # NullPtr
    BY <1>1, AbsentAssumption
  <2>4. buf.sensors[u].ext = s.ext
    BY <1>1, <1>2, <2>1 DEF Mirrors, AtHome
  <2>5. Mirrors(conn, buf')
    BY <1>2, <2>1, <2>2, <2>3, <2>4 DEF Mirrors, Led
  <2>. QED BY <1>2, <2>1, <2>5, MirrorCall
<1>. QED BY <1>4, <1>5, <1>6

LEMMA RemoveSensorMirror ==
    ASSUME MirrorInv, GoodState, GoodState', Faults = {}, NEW u \in Uuids, RemoveSensor(u)
    PROVE  MirrorInv'
<1>1. status = "open" /\ Mirrors(conn, buf) /\ UNCHANGED <<status, syncing>>
  BY DEF RemoveSensor, MayWrite, Idle, MirrorInv
<1>2. conn[u] # None /\ conn' = DeleteSensor(conn, u) /\ disk' \in {disk, conn'}
  BY DEF RemoveSensor, Finish, HasTable
<1>3. buf.sensors[u] \notin {None, NullPtr}
  BY <1>1, <1>2 DEF Mirrors, Led
<1>4. buf' = ClearSensor(buf, u, buf.sensors[u].ext)
  BY <1>3 DEF RemoveSensor
<1>5. Mirrors(conn', buf')
  BY <1>1, <1>2, <1>4, DeleteMirrors DEF GoodState
<1>. QED BY <1>1, <1>2, <1>5, MirrorCall

\* No external id leads nowhere.
LEMMA LookupMirror ==
    ASSUME MirrorInv, GoodState, NEW e \in ExtIds
    PROVE  ~LookupByExternalId(e)
<1>1. ASSUME LookupByExternalId(e)
      PROVE  FALSE
  <2>1. Mirrors(conn, buf) /\ buf.ids[e] # None /\ buf.sensors[buf.ids[e]] = None
    BY <1>1 DEF LookupByExternalId, Idle, MirrorInv
  <2>2. buf.ids[e] \in Uuids
    BY <2>1 DEF GoodState, GoodBuffers, Buffers
  <2>. QED BY <2>1, <2>2 DEF Mirrors, Led
<1>. QED BY <1>1

LEMMA ReadingsMirror ==
    ASSUME MirrorInv, FileInv, GoodState, GoodState', Faults = {},
           \/ \E u \in Uuids, rs \in Readings, kind \in {"INSERT", "UPDATE"} :
                 AddReadings(u, rs, kind)
           \/ \E ignore \in BOOLEAN : Flush(ignore)
           \/ \E u \in Uuids : ReadReadings(u)
    PROVE  MirrorInv'
<1>1. ASSUME NEW u \in Uuids, NEW rs \in Readings, NEW kind, AddReadings(u, rs, kind)
      PROVE  MirrorInv'
  <2> DEFINE b == BufferReadings(buf, u, rs, kind)
  <2>1. b \in GoodBuffers /\ b.sensors = buf.sensors /\ b.ids = buf.ids
    <3>1. buf.ops[u] # None /\ buf \in GoodBuffers
      BY <1>1 DEF AddReadings, GoodState
    <3>. QED BY <3>1, BufferReadingsGood DEF BufferReadings, GoodBuffers, Buffers
  <2>2. status = "open" /\ UNCHANGED <<status, syncing>>
    BY <1>1 DEF AddReadings, Idle
  <2>3. CASE buf' = b /\ UNCHANGED <<disk, conn, due>>
    <3>1. SameSensors(conn, conn')
      BY <2>3 DEF SameSensors
    <3>2. Mirrors(conn', buf')
      BY <2>1, <2>2, <2>3, <3>1, MirrorsStay DEF MirrorInv
    <3>. QED BY <2>2, <2>3, <3>2, MirrorCall
  <2>4. ASSUME MayWrite, NoNullSensor,
               NEW r \in FlushAllOutcomes(conn, b, TRUE),
               Finish(r.db, r.ok), buf' = r.buf
        PROVE  MirrorInv'
    <3>1. \A w \in Uuids : b.sensors[w] # NullPtr
      BY <2>1, <2>4 DEF NoNullSensor
    <3>. HIDE DEF b
    <3>2. conn \in Databases
      BY DEF GoodState
    <3>3. r.ok \in BOOLEAN
      BY <2>1, <2>4, <3>1, <3>2, FlushAllGood
    <3>4. /\ SameSensors(conn, r.db)
          /\ r.buf.sensors = b.sensors
          /\ r.buf.ids = b.ids
      BY <2>1, <2>4, <3>1, <3>2, FlushAllSame
    <3>. QED BY <2>1, <2>2, <2>4, <3>3, <3>4, MirrorFinish
  <2>. QED BY <1>1, <2>3, <2>4 DEF AddReadings
<1>2. ASSUME NEW ignore, Flush(ignore)
      PROVE  MirrorInv'
  <2>1. PICK r \in FlushAllOutcomes(conn, buf, ignore) :
          Finish(r.db, r.ok) /\ buf' = r.buf
    BY <1>2 DEF Flush
  <2>2. /\ SameSensors(conn, r.db)
        /\ r.buf.sensors = buf.sensors
        /\ r.buf.ids = buf.ids
        /\ r.ok \in BOOLEAN
    BY <1>2, FlushAllSame, FlushAllGood DEF Flush, NoNullSensor, GoodState
  <2>. QED BY <1>2, <2>1, <2>2, MirrorFinish DEF Flush
<1>3. ASSUME NEW u \in Uuids, ReadReadings(u)
      PROVE  MirrorInv'
  <2>1. buf \in Buffers /\ \A w \in {u} : buf.ops[w] # None
    BY <1>3 DEF ReadReadings, GoodState, GoodBuffers
  <2>2. status = "open" /\ Mirrors(conn, buf) /\ UNCHANGED <<status, syncing>>
    BY <1>3 DEF ReadReadings, Idle, MirrorInv
  <2>3. SameSensors(conn, conn') /\ disk' \in {disk, conn'}
    BY <1>3, <2>1, FlushSensorsSame DEF ReadReadings, GoodState
  <2>4. buf'.sensors = buf.sensors /\ buf'.ids = buf.ids
    BY <1>3, <2>1 DEF ReadReadings, ClearOperations, Buffers
  <2>5. Mirrors(conn', buf')
    BY <2>2, <2>3, <2>4, MirrorsStay
  <2>. QED BY <2>2, <2>3, <2>5, MirrorCall
<1>. QED BY <1>1, <1>2, <1>3

\* An iteration of sync finds room for the source's sensor, and what it leaves
\* mirrors the connection.
LEMMA SyncSensorMirrors ==
    ASSUME MirrorInv, GoodState, NEW u \in Uuids, status = "open", syncing # None,
           syncing.todo[u] # None
    PROVE  LET row == syncing.todo[u]
               s == [ext |-> row.ext, props |-> row.props]
               known == buf.ids[row.ext]
               local == LocalUuid(u, row.ext)
               changed == known # None /\ buf.sensors[known].props # row.props
               fits == IF known = None THEN CanInsert(conn, u, s)
                       ELSE changed /\ conn[local] # None => ~Taken(conn, local, s.ext)
               db == IF known = None THEN InsertSensor(conn, u, s)
                     ELSE IF changed THEN UpdateRecord(conn, local, s) ELSE conn
           IN /\ s \in Sensors
              /\ local \in Uuids
              /\ fits
              /\ db \in Databases
              /\ Mirrors(db, SetBuffers(buf, local, s))
              /\ SetBuffers(buf, local, s) \in GoodBuffers
              /\ buf.ids[row.ext] = None => local = u
<1> DEFINE row == syncing.todo[u]
           s == [ext |-> row.ext, props |-> row.props]
           known == buf.ids[row.ext]
           local == LocalUuid(u, row.ext)
           changed == known # None /\ buf.sensors[known].props # row.props
<1>1. row \in Rows
  BY DEF GoodState, Syncs, WholeDatabases, Databases
<1>2. s \in Sensors /\ s.ext = row.ext /\ row.ext \in ExtIds /\ row.ext = HomeExt[u]
  BY <1>1 DEF Rows, Sensors, MirrorInv, AtHome
<1>3. Mirrors(conn, buf) /\ conn \in Databases /\ buf \in GoodBuffers /\ UniqueIds(conn)
  BY MirrorsUnique DEF MirrorInv, GoodState
<1>4. known \in Uuids \cup {None} /\ local \in Uuids
  BY <1>2, <1>3 DEF GoodBuffers, Buffers, LocalUuid
<1>5. SetBuffers(buf, local, s) \in GoodBuffers
  BY <1>2, <1>3, <1>4, SetBuffersGood
<1>. HIDE DEF s, row
<1>6. CASE known = None
  <2>1. local = u
    BY <1>6 DEF LocalUuid
  <2>2. \A w \in Uuids : conn[w] # None => conn[w].ext # row.ext
    BY <1>2, <1>3, <1>6, AbsentAssumption DEF Mirrors, Led
  <2>3. conn[u] = None
    BY <1>2, <1>3, <2>2 DEF Mirrors, AtHome
  <2>4. CanInsert(conn, u, s)
    BY <1>2, <2>2, <2>3 DEF CanInsert, Taken
  <2>5. Mirrors(InsertSensor(conn, u, s), SetBuffers(buf, u, s))
    BY <1>2, <1>3, <1>6, InsertMirrors
  <2>6. InsertSensor(conn, u, s) \in Databases
    BY <1>2, <1>3, InsertSensorType
  <2>. QED BY <1>2, <1>4, <1>5, <1>6, <2>1, <2>4, <2>5, <2>6 DEF s, row
<1>7. CASE known # None
  <2>1. local = known /\ known \in Uuids
    BY <1>4, <1>7 DEF LocalUuid
  <2>2. conn[local] # None /\ conn[local].ext = row.ext
    BY <1>2, <1>3, <2>1 DEF Mirrors, Led
  <2>3. row.ext = HomeExt[local]
    BY <1>3, <2>1, <2>2 DEF Mirrors, AtHome
  <2>4. ~Taken(conn, local, s.ext)
    BY <1>2, <1>3, <2>1, <2>2 DEF UniqueIds, Taken
  <2>5. Mirrors(conn, SetBuffers(buf, local, s))
    BY <1>2, <1>3, <1>4, <2>2, <2>3, SetBuffersMirrors
  <2>6. /\ UpdateRecord(conn, local, s) \in Databases
        /\ Mirrors(UpdateRecord(conn, local, s), SetBuffers(buf, local, s))
    <3>1. SameSensors(conn, UpdateRecord(conn, local, s))
      BY <1>2, <1>3, <1>4, <2>2, UpdateRecordSame
    <3>. QED BY <1>2, <1>3, <1>4, <2>5, <3>1, MirrorsStay, UpdateRecordType
  <2>. QED BY <1>2, <1>3, <1>4, <1>5, <1>7, <2>4, <2>5, <2>6 DEF s, row
<1>. QED BY <1>6, <1>7

LEMMA SyncLeavesMirror ==
    ASSUME MirrorInv, GoodState, GoodState', NEW u \in Uuids, NEW db,
           status = "open", syncing # None, SyncLeaves(u, db, TRUE),
           Mirrors(db, buf'), UNCHANGED <<disk, status>>
    PROVE  MirrorInv'
<1>1. conn' = db /\ syncing' = [syncing EXCEPT !.todo[u] = None]
  BY DEF SyncLeaves
<1>2. AtHome(syncing'.todo)
  <2>1. syncing \in Syncs /\ AtHome(syncing.todo)
    BY DEF GoodState, MirrorInv
  <2>2. \A w \in Uuids : syncing'.todo[w] = IF w = u THEN None ELSE syncing.todo[w]
    BY <1>1, <2>1 DEF Syncs, WholeDatabases, Databases
  <2>. QED BY <2>1, <2>2 DEF AtHome, HasTable
<1>. QED BY <1>1, <1>2 DEF MirrorInv

LEMMA SyncSensorMirror ==
    ASSUME MirrorInv, GoodState, GoodState', NEW u \in Uuids, SyncSensor(u)
    PROVE  MirrorInv'
<1> DEFINE row == syncing.todo[u]
           s == [ext |-> row.ext, props |-> row.props]
           known == buf.ids[row.ext]
           local == LocalUuid(u, row.ext)
           changed == known # None /\ buf.sensors[known].props # row.props
           fits == IF known = None THEN CanInsert(conn, u, s)
                   ELSE changed /\ conn[local] # None => ~Taken(conn, local, s.ext)
           db == IF known = None THEN InsertSensor(conn, u, s)
                 ELSE IF changed THEN UpdateRecord(conn, local, s) ELSE conn
           set == SetBuffers(buf, local, s)
           copying == syncing.readings /\ row.readings # NoReadings
           b == IF copying THEN BufferReadings(set, local, row.readings, "UPDATE") ELSE set
<1>1. status = "open" /\ syncing # None /\ row # None /\ UNCHANGED <<disk, status>>
  BY DEF SyncSensor
<1>2. /\ s \in Sensors /\ local \in Uuids /\ fits /\ db \in Databases
      /\ Mirrors(db, set) /\ set \in GoodBuffers
  BY <1>1, SyncSensorMirrors
<1>3. \/ SyncLeaves(u, db, TRUE) /\ buf' = b
      \/ \E r \in FlushAllOutcomes(db, b, TRUE) : SyncLeaves(u, r.db, r.ok) /\ buf' = r.buf
  BY <1>2 DEF SyncSensor
<1>4. b \in GoodBuffers /\ b.sensors = set.sensors /\ b.ids = set.ids
  <2>1. row.readings \in Readings
    BY VisitedType
  <2>2. set.ops[local] # None
    <3>1. set.sensors[local] = s
      BY <1>2 DEF SetBuffers
    <3>. QED BY <1>2, <3>1, AbsentAssumption DEF GoodBuffers, Agree
  <2>. HIDE DEF set
  <2>3. BufferReadings(set, local, row.readings, "UPDATE") \in GoodBuffers
    BY <1>2, <2>1, <2>2, BufferReadingsGood
  <2>4. set \in Buffers
    BY <1>2 DEF GoodBuffers
  <2>5. LET c == BufferReadings(set, local, row.readings, "UPDATE")
        IN c.sensors = set.sensors /\ c.ids = set.ids
    BY <2>4 DEF BufferReadings, Buffers
  <2>. QED BY <1>2, <2>3, <2>5
<1>. HIDE DEF db, b, set
<1>5. Mirrors(db, b)
  <2>1. SameSensors(db, db)
    BY DEF SameSensors
  <2>. QED BY <1>2, <1>4, <2>1, MirrorsStay
<1>6. CASE SyncLeaves(u, db, TRUE) /\ buf' = b
  BY <1>1, <1>5, <1>6, SyncLeavesMirror
<1>7. ASSUME NEW r \in FlushAllOutcomes(db, b, TRUE),
             SyncLeaves(u, r.db, r.ok), buf' = r.buf
      PROVE  MirrorInv'
  <2>1. r.ok = TRUE
    BY <1>4, <1>5, MirrorsWhole, FlushAllSucceeds
  <2>2. \A w \in Uuids : b.sensors[w] # NullPtr
    BY <1>5 DEF Mirrors, Led
  <2>3. Mirrors(r.db, r.buf)
    <3>1. SameSensors(db, r.db) /\ r.buf.sensors = b.sensors /\ r.buf.ids = b.ids
      BY <1>2, <1>4, <2>2, FlushAllSame
    <3>. QED BY <1>5, <3>1, MirrorsStay
  <2>. QED BY <1>1, <1>7, <2>1, <2>3, SyncLeavesMirror
<1>. QED BY <1>3, <1>6, <1>7

LEMMA SyncMirror ==
    ASSUME MirrorInv, GoodState, GoodState', Orderly, Faults = {},
           \/ \E src \in Sources, readings \in BOOLEAN : SyncBegin(src, readings)
           \/ \E u \in Uuids : SyncSensor(u) \/ SyncSourceFails(u)
           \/ SyncEnd
    PROVE  MirrorInv'
<1>1. ASSUME NEW src \in Sources, NEW readings, SyncBegin(src, readings)
      PROVE  MirrorInv'
  <2>1. AtHome(src)
    BY SourcesAssumption DEF AtHome, WholeDatabases
  <2>2. syncing' = [todo |-> src, readings |-> readings]
        /\ UNCHANGED <<disk, conn, buf, status>>
    BY <1>1 DEF SyncBegin
  <2>. QED BY <2>1, <2>2 DEF MirrorInv
<1>2. ASSUME NEW u \in Uuids, SyncSourceFails(u)
      PROVE  MirrorInv'
  BY <1>2 DEF SyncSourceFails
<1>3. CASE SyncEnd
  <2>1. /\ status = "open" /\ Mirrors(conn, buf)
        /\ conn' = conn /\ disk' \in {disk, conn} /\ syncing' = None
        /\ UNCHANGED <<buf, status>>
    BY <1>3 DEF SyncEnd, Finish, MirrorInv
  <2>2. UniqueIds(conn) /\ AtHome(conn)
    BY <2>1, MirrorsUnique DEF GoodState, Mirrors
  <2>3. AtHome(disk') /\ UniqueIds(disk')
    BY <2>1, <2>2 DEF MirrorInv
  <2>. QED BY <2>1, <2>3 DEF MirrorInv
<1>. QED BY <1>1, <1>2, <1>3, SyncSensorMirror

\* The file of a rotation, or of one that was cut short.
LEMMA RotatedIsLoadable ==
    ASSUME MirrorInv, GoodState, status = "open", NEW S \in SUBSET Buffered(buf), Distinct(S)
    PROVE  AtHome(RotatedDatabase(S)) /\ UniqueIds(RotatedDatabase(S))
<1>1. \A u \in S : u \in Uuids /\ buf.sensors[u].ext = HomeExt[u]
  BY DEF Buffered, MirrorInv, Mirrors, AtHome
<1>2. \A u \in Uuids : RotatedDatabase(S)[u] # None =>
         /\ u \in S /\ RotatedDatabase(S)[u].ext = buf.sensors[u].ext
         /\ HasTable(RotatedDatabase(S), u)
  BY NoOperationsType, AbsentAssumption DEF RotatedDatabase, HasTable
<1>. QED BY <1>1, <1>2 DEF AtHome, UniqueIds, Distinct

LEMMA RotateMirror ==
    ASSUME MirrorInv, GoodState, GoodState', Rotate
    PROVE  MirrorInv'
<1>1. status = "open" /\ Mirrors(conn, buf) /\ UNCHANGED <<buf, status, syncing>>
  BY DEF Rotate, Idle, MirrorInv
<1>2. PICK S \in SUBSET Buffered(buf) :
        /\ Distinct(S)
        /\ S # Buffered(buf) => \E f \in Buffered(buf) \ S : ~Distinct(S \cup {f})
        /\ disk' = RotatedDatabase(S)
        /\ conn' = RotatedDatabase(S)
  BY DEF Rotate
<1>3. \A T \in SUBSET Buffered(buf) : Distinct(T)
  <2>1. \A u \in Buffered(buf) : u \in Uuids /\ buf.sensors[u] \in Sensors
    BY <1>1 DEF Buffered, Mirrors, Led, GoodState, GoodBuffers, Buffers
  <2>2. \A u \in Buffered(buf) : buf.ids[buf.sensors[u].ext] = u
    BY <1>1, <2>1 DEF Buffered, Mirrors, Led, Sensors
  <2>. QED BY <2>2 DEF Distinct
<1>4. S = Buffered(buf)
  <2>1. \A f \in Buffered(buf) : S \cup {f} \in SUBSET Buffered(buf)
    OBVIOUS
  <2>. QED BY <1>2, <1>3, <2>1
<1>5. AtHome(conn') /\ UniqueIds(conn')
  BY <1>1, <1>2, RotatedIsLoadable
<1>6. ASSUME NEW u \in Uuids
      PROVE  /\ buf.sensors[u] # None <=> conn'[u] # None
             /\ conn'[u] # None => buf.sensors[u].ext = conn'[u].ext
  <2>1. CASE buf.sensors[u] = None
    BY <1>2, <1>4, <2>1 DEF RotatedDatabase, Buffered
  <2>2. CASE buf.sensors[u] # None
    <3>1. buf.sensors[u] \in Sensors
      BY <1>1, <2>2 DEF Mirrors, Led, GoodState, GoodBuffers, Buffers
    <3>2. conn'[u] = [ext |-> buf.sensors[u].ext, props |-> buf.sensors[u].props,
                      readings |-> NoReadings]
      BY <1>2, <1>4, <2>2 DEF RotatedDatabase, Buffered
    <3>3. conn'[u] \in Rows
      BY <3>1, <3>2, NoOperationsType DEF Rows, Sensors
    <3>. QED BY <2>2, <3>2, <3>3, AbsentAssumption
  <2>. QED BY <2>1, <2>2
<1>7. Mirrors(conn', buf')
  BY <1>1, <1>5, <1>6 DEF Mirrors
<1>. QED BY <1>1, <1>2, <1>7, MirrorCall

LEMMA StoppedMirror ==
    ASSUME MirrorInv, NEW db, AtHome(db), UniqueIds(db), Stopped(db)
    PROVE  MirrorInv'
BY DEF Stopped, Ended, MirrorInv

LEMMA LifeCycleMirror ==
    ASSUME MirrorInv, FileInv, GoodState, GoodState',
           \/ TimeoutElapses \/ Open \/ Create \/ Close \/ Rotate \/ Crash
           \/ CrashBeforeInitialized
           \/ \E S \in SUBSET Uuids : CrashWhileRotating(S)
           \/ \E u \in Uuids, kind \in {"INSERT", "UPDATE"}, cut \in Times :
                 CrashWhileWriting(u, kind, cut)
    PROVE  MirrorInv'
<1>1. CASE TimeoutElapses
  BY <1>1 DEF TimeoutElapses, MirrorInv
<1>2. CASE Open \/ Create
  <2>1. status # "open" /\ Prepare
    BY <1>2 DEF Open, Create
  <2>2. conn = disk /\ syncing = None
    BY <2>1 DEF FileInv
  <2>3. Mirrors(disk, LoadBuffers(disk))
    BY LoadBuffersMirrors DEF MirrorInv, GoodState
  <2>. QED BY <2>1, <2>2, <2>3 DEF Prepare, MirrorInv
<1>3. CASE Close
  BY <1>3 DEF Close, MirrorInv
<1>4. CASE Rotate
  BY <1>4, RotateMirror
<1>5. CASE Crash
  BY <1>5, StoppedMirror DEF Crash, MirrorInv
<1>6. ASSUME NEW S \in SUBSET Uuids, CrashWhileRotating(S)
      PROVE  MirrorInv'
  BY <1>6, RotatedIsLoadable, StoppedMirror DEF CrashWhileRotating, Rotating, Idle
<1>7. ASSUME NEW u \in Uuids, NEW kind, NEW cut, CrashWhileWriting(u, kind, cut)
      PROVE  MirrorInv'
  <2> DEFINE upTo(r) == [t \in Times |-> IF t <= cut THEN r[t] ELSE None]
             o == buf.ops[u]
             early == IF kind = "INSERT" THEN [ins |-> upTo(o.ins), upd |-> NoReadings]
                      ELSE [ins |-> o.ins, upd |-> upTo(o.upd)]
             row == [conn[u] EXCEPT !.readings = Written(conn[u].readings, early)]
  <2>1. Stopped([conn EXCEPT ![u] = row])
    BY <1>7 DEF CrashWhileWriting
  <2>2. conn = disk /\ conn[u] # None
    BY <1>7 DEF CrashWhileWriting, HasTable, FileInv
  <2>3. conn[u] \in Rows /\ conn[u].readings \in Readings /\ conn \in Databases
    BY <1>7, <2>2, TableType DEF CrashWhileWriting, GoodState, Databases
  <2>4. row.ext = conn[u].ext /\ row.readings # None /\ row # None
    <3>1. \A r \in Readings : upTo(r) \in Readings
      BY DEF Readings
    <3>2. o \in Operations
      BY <1>7 DEF CrashWhileWriting, GoodState, GoodBuffers, Buffers
    <3>3. early \in Operations
      BY <3>1, <3>2, NoOperationsType DEF Operations
    <3>. HIDE DEF early
    <3>4. Written(conn[u].readings, early) \in Readings
      BY <2>3, <3>3, WrittenType
    <3>5. row \in Rows
      BY <2>3, <3>4 DEF Rows
    <3>. QED BY <2>3, <3>4, <3>5, AbsentAssumption DEF Rows
  <2>5. \A w \in Uuids : [conn EXCEPT ![u] = row][w] = IF w = u THEN row ELSE conn[w]
    BY <2>3 DEF Databases
  <2>. HIDE DEF row
  <2>6. AtHome([conn EXCEPT ![u] = row]) /\ UniqueIds([conn EXCEPT ![u] = row])
    BY <2>2, <2>4, <2>5 DEF MirrorInv, AtHome, HasTable, UniqueIds
  <2>. QED BY <2>1, <2>6, StoppedMirror DEF row
<1>8. CASE CrashBeforeInitialized
  BY <1>8 DEF CrashBeforeInitialized, Ended, MirrorInv, AtHome, UniqueIds, EmptyDatabase
<1>. QED BY <1>1, <1>2, <1>3, <1>4, <1>5, <1>6, <1>7, <1>8

\* No table is missing.
LEMMA TablesMirror ==
    ASSUME MirrorInv, NEW u \in Uuids
    PROVE  ~RemoveSensorWithoutTable(u)
BY DEF MirrorInv, Mirrors, AtHome, RemoveSensorWithoutTable, MayWrite, Idle

LEMMA NextMirror ==
    ASSUME MirrorInv, FileInv, GoodState, GoodState', Orderly, Faults = {}, [Next]_vars
    PROVE  MirrorInv'
<1>1. CASE UNCHANGED vars
  BY <1>1 DEF vars, MirrorInv
<1>2. CASE Next
  <2>1. CASE StartTransaction \/ CommitTransaction \/ RollbackTransaction
    BY <2>1, TransactionsMirror
  <2>2. ASSUME NEW u \in Uuids, NEW s \in ClientSensors(u),
               AddSensor(u, s) \/ UpdateSensor(u, s) \/ UpdateSensorRefused(u, s)
        PROVE  MirrorInv'
    BY <2>2, SensorsMirror
  <2>3. ASSUME NEW u \in Uuids, RemoveSensor(u) \/ RemoveSensorWithoutTable(u)
        PROVE  MirrorInv'
    BY <2>3, RemoveSensorMirror, TablesMirror
  <2>4. ASSUME NEW e \in ExtIds, LookupByExternalId(e)
        PROVE  MirrorInv'
    BY <2>4, LookupMirror
  <2>5. CASE \/ \E u \in Uuids, rs \in Readings, kind \in {"INSERT", "UPDATE"} :
                   AddReadings(u, rs, kind)
             \/ \E ignore \in BOOLEAN : Flush(ignore)
             \/ \E u \in Uuids : ReadReadings(u)
    BY <2>5, ReadingsMirror
  <2>6. CASE \/ \E src \in Sources, readings \in BOOLEAN : SyncBegin(src, readings)
             \/ \E u \in Uuids : SyncSensor(u) \/ SyncSourceFails(u)
             \/ SyncEnd
    BY <2>6, SyncMirror
  <2>7. CASE \/ TimeoutElapses \/ Open \/ Create \/ Close \/ Rotate \/ Crash
             \/ CrashBeforeInitialized
             \/ \E S \in SUBSET Uuids : CrashWhileRotating(S)
             \/ \E u \in Uuids, kind \in {"INSERT", "UPDATE"}, cut \in Times :
                   CrashWhileWriting(u, kind, cut)
    BY <2>7, LifeCycleMirror
  <2>8. \A S, u : ~CrashBeforeTable(S, u)
    BY DEF CrashBeforeTable
  <2>. QED BY <1>2, <2>1, <2>2, <2>3, <2>4, <2>5, <2>6, <2>7, <2>8 DEF Next
<1>. QED BY <1>1, <1>2

-----------------------------------------------------------------------------
(* Theorems *)

\* The conditions of the properties are constant.
StoreInv == GoodState /\ FileInv /\ (Orderly /\ Faults = {} => MirrorInv)

LEMMA InitStore == Init => StoreInv
BY InitGood, InitFile, InitMirror DEF StoreInv

LEMMA NextStore == StoreInv /\ [Next]_vars => StoreInv'
<1>. SUFFICES ASSUME StoreInv, [Next]_vars
              PROVE  StoreInv'
  OBVIOUS
<1>1. GoodState' /\ FileInv'
  BY NextGood, NextFile DEF StoreInv
<1>2. ASSUME Orderly, Faults = {}
      PROVE  MirrorInv'
  BY <1>1, <1>2, NextMirror DEF StoreInv
<1>. QED BY <1>1, <1>2 DEF StoreInv

\* Between orderly clients and without faults an open store answers for the
\* sensors of its database, each with its table: in transactions and syncs,
\* after rollbacks, rotations and crashes.
THEOREM MirrorTheorem == Spec => []BuffersMirrorDatabase
<1>1. StoreInv => BuffersMirrorDatabase
  BY DEF StoreInv, MirrorInv, Mirrors, AtHome, BuffersMirrorDatabase
<1>. QED BY <1>1, InitStore, NextStore, PTL DEF Spec

\* Under the same conditions an external id leads to its sensor or nowhere: no
\* lookup files a null pointer and no sync meets a sensor that is gone.
THEOREM ExternalIdsTheorem == Spec => []ExternalIdsLeadToSensors
<1>1. StoreInv => ExternalIdsLeadToSensors
  <2>. SUFFICES ASSUME StoreInv, Orderly, Faults = {}, NEW e \in ExtIds, NEW u \in Uuids
                PROVE  buf.ids[e] = u <=>
                         buf.sensors[u] \notin {None, NullPtr} /\ buf.sensors[u].ext = e
    BY DEF ExternalIdsLeadToSensors
  <2>1. CASE status = "open"
    BY <2>1 DEF StoreInv, MirrorInv, Mirrors, Led
  <2>2. CASE status # "open"
    BY <2>2, AbsentAssumption DEF StoreInv, MirrorInv, EmptyBuffers
  <2>. QED BY <2>1, <2>2
<1>. QED BY <1>1, InitStore, NextStore, PTL DEF Spec

-----------------------------------------------------------------------------
(***************************************************************************)
(* What a store answers for a sensor's readings, through buffering,        *)
(* flushing, addition and synchronisation, for every set of sensors, ids   *)
(* and readings.                                                           *)
(***************************************************************************)

\* Series, of any database and any buffers.
SeriesOf(db, b, u) ==
    [t \in Times |->
        CASE ~HasTable(db, u) -> None
          [] HasTable(db, u) /\ b.ops[u] = None -> db[u].readings[t]
          [] HasTable(db, u) /\ b.ops[u] # None ->
                KeepFirst(b.ops[u].upd, KeepFirst(db[u].readings, b.ops[u].ins))[t]]

LEMMA SeriesNow ==
    ASSUME NEW u
    PROVE  /\ Series(u) = SeriesOf(conn, buf, u)
           /\ Series(u)' = SeriesOf(conn', buf', u)
BY DEF Series, SeriesOf

\* Series depend on a sensor's table and its operations.
LEMMA SeriesSame ==
    ASSUME NEW db, NEW after, NEW b, NEW c, NEW u, after[u] = db[u], c.ops[u] = b.ops[u]
    PROVE  SeriesOf(after, c, u) = SeriesOf(db, b, u)
BY DEF SeriesOf, HasTable

\* What a flush of a sensor wrote and left in memory adds up to what it found.
LEMMA SeriesFlushed ==
    ASSUME NEW db, NEW b, NEW c, NEW u, NEW after,
           HasTable(db, u), b.ops[u] \in Operations,
           HasTable(after, u), c.ops[u] \in Operations,
           \/ after[u].readings = Written(db[u].readings, b.ops[u]) /\ c.ops[u] = NoOperations
           \/ /\ c.ops[u] = b.ops[u]
              /\ \E ins \in Readings :
                    /\ \A t \in Times : ins[t] \in {None, b.ops[u].ins[t]}
                    /\ after[u].readings = KeepFirst(db[u].readings, ins)
    PROVE  SeriesOf(after, c, u) = SeriesOf(db, b, u)
<1> DEFINE o == b.ops[u]
           row == db[u]
<1>1. o # None /\ c.ops[u] # None
  BY AbsentAssumption
<1>2. /\ SeriesOf(db, b, u) = [t \in Times |-> KeepFirst(o.upd, KeepFirst(row.readings, o.ins))[t]]
      /\ SeriesOf(after, c, u)
           = [t \in Times |-> KeepFirst(c.ops[u].upd, KeepFirst(after[u].readings, c.ops[u].ins))[t]]
  BY <1>1 DEF SeriesOf
<1>3. CASE after[u].readings = Written(row.readings, o) /\ c.ops[u] = NoOperations
  BY <1>2, <1>3 DEF Written, KeepFirst, NoOperations, NoReadings
<1>4. CASE /\ c.ops[u] = o
           /\ \E ins \in Readings :
                 /\ \A t \in Times : ins[t] \in {None, o.ins[t]}
                 /\ after[u].readings = KeepFirst(row.readings, ins)
  BY <1>2, <1>4 DEF KeepFirst
<1>. QED BY <1>3, <1>4

LEMMA FlushSensorsSeries ==
    ASSUME NEW db \in Databases, NEW b \in Buffers, NEW S \in SUBSET Uuids,
           \A u \in S : b.ops[u] # None, NEW u \in Uuids
    PROVE  SeriesOf(FlushSensors(db, b, S), ClearOperations(b, S), u) = SeriesOf(db, b, u)
<1> DEFINE after == FlushSensors(db, b, S)
           c == ClearOperations(b, S)
<1>1. c.ops[u] = IF u \in S THEN NoOperations ELSE b.ops[u]
  BY DEF ClearOperations, Buffers
<1>2. CASE u \notin S
  <2>1. after[u] = db[u] /\ c.ops[u] = b.ops[u]
    BY <1>1, <1>2 DEF FlushSensors
  <2>. QED BY <2>1, SeriesSame
<1>3. CASE ~HasTable(db, u)
  <2>1. ~HasTable(after, u)
    BY <1>3 DEF FlushSensors, HasTable
  <2>. QED BY <1>3, <2>1 DEF SeriesOf
<1>4. CASE u \in S /\ HasTable(db, u)
  <2>1. db[u] \in Rows /\ db[u].readings \in Readings /\ b.ops[u] \in Operations
    BY <1>4, TableType DEF Buffers
  <2>2. Written(db[u].readings, b.ops[u]) \in Readings
    BY <2>1, WrittenType
  <2>3. after[u] = [db[u] EXCEPT !.readings = Written(db[u].readings, b.ops[u])]
    BY <1>4 DEF FlushSensors
  <2>4. HasTable(after, u) /\ after[u].readings = Written(db[u].readings, b.ops[u])
    <3>1. after[u] \in Rows /\ after[u].readings = Written(db[u].readings, b.ops[u])
      BY <2>1, <2>2, <2>3 DEF Rows
    <3>. QED BY <2>2, <3>1, AbsentAssumption DEF HasTable
  <2>5. c.ops[u] = NoOperations /\ NoOperations \in Operations
    BY <1>1, <1>4, NoOperationsType
  <2>. HIDE DEF after, c
  <2>6. c.ops[u] \in Operations
    BY <2>5
  <2>7. SeriesOf(after, c, u) = SeriesOf(db, b, u)
    BY <1>4, <2>1, <2>4, <2>5, <2>6, SeriesFlushed
  <2>. QED BY <2>7 DEF after, c
<1>. QED BY <1>2, <1>3, <1>4

LEMMA FlushUntilFailureSeries ==
    ASSUME NEW db \in Databases, NEW b \in Buffers, NEW c, NEW f \in Uuids, NEW u \in Uuids,
           c.ops[f] = b.ops[f]
    PROVE  SeriesOf(FlushUntilFailure(db, b, f), c, u) = SeriesOf(db, c, u)
<1>1. CASE ~HasTable(db, f) \/ b.ops[f] = None
  BY <1>1 DEF FlushUntilFailure
<1>2. CASE HasTable(db, f) /\ b.ops[f] # None
  <2> DEFINE repeated == Recorded(db[f].readings) \cap Recorded(b.ops[f].ins)
             before == [t \in Times |-> IF \E s \in repeated : s <= t
                                        THEN None ELSE b.ops[f].ins[t]]
             row == [db[f] EXCEPT !.readings = KeepFirst(db[f].readings, before)]
             after == FlushUntilFailure(db, b, f)
  <2>1. after = [db EXCEPT ![f] = row]
    BY <1>2 DEF FlushUntilFailure
  <2>2. db[f] \in Rows /\ db[f].readings \in Readings /\ b.ops[f] \in Operations
    BY <1>2, TableType DEF Buffers
  <2>3. before \in Readings /\ \A t \in Times : before[t] \in {None, b.ops[f].ins[t]}
    BY <2>2 DEF Operations, Readings
  <2>4. /\ row # None
        /\ row.readings = KeepFirst(db[f].readings, before)
        /\ row.readings # None
    <3>. HIDE DEF before
    <3>1. KeepFirst(db[f].readings, before) \in Readings
      BY <2>2, <2>3, KeepFirstType
    <3>2. row \in Rows /\ row.readings = KeepFirst(db[f].readings, before)
      BY <2>2, <3>1 DEF Rows
    <3>. QED BY <3>1, <3>2, AbsentAssumption
  <2>. HIDE DEF before, row, after
  <2>5. \A w \in Uuids : after[w] = IF w = f THEN row ELSE db[w]
    BY <2>1 DEF Databases
  <2>6. CASE u = f
    <3>1. after[u] = row /\ c.ops[u] = b.ops[f]
      BY <2>5, <2>6
    <3>2. HasTable(after, u)
      BY <2>4, <3>1 DEF HasTable
    <3>3. SeriesOf(after, c, u) = SeriesOf(db, c, u)
      BY <1>2, <2>2, <2>3, <2>4, <2>6, <3>1, <3>2, SeriesFlushed
    <3>. QED BY <3>3 DEF after
  <2>7. CASE u # f
    <3>1. SeriesOf(after, c, u) = SeriesOf(db, c, u)
      BY <2>5, <2>7, SeriesSame
    <3>. QED BY <3>1 DEF after
  <2>. QED BY <2>6, <2>7
<1>. QED BY <1>1, <1>2

\* flush_all, also when it throws half-way: the sensor it throws at keeps its
\* operations.
LEMMA FlushAllParts ==
    ASSUME NEW db, NEW b, NEW ignore, NEW r \in FlushAllOutcomes(db, b, ignore)
    PROVE  \/ /\ r.db = FlushSensors(db, b, Buffered(b))
              /\ r.buf = ClearOperations(b, Buffered(b))
           \/ \E f \in Buffered(b), done \in SUBSET Buffered(b) :
                 /\ f \notin done
                 /\ r.db = FlushUntilFailure(FlushSensors(db, b, done), b, f)
                 /\ r.buf = ClearOperations(b, done)
<1> DEFINE fails == {u \in Buffered(b) : FlushFails(db, b, u, ignore)}
           ignorable == {u \in fails : ignore /\ b.ops[u] # None /\ db[u] = None}
<1>1. \/ /\ r.db = FlushSensors(db, b, Buffered(b))
         /\ r.buf = ClearOperations(b, Buffered(b))
      \/ \E f \in fails : \E done \in SUBSET (Buffered(b) \ ({f} \cup (fails \ ignorable))) :
            /\ r.db = FlushUntilFailure(FlushSensors(db, b, done), b, f)
            /\ r.buf = ClearOperations(b, done)
  BY DEF FlushAllOutcomes
<1>. QED BY <1>1

LEMMA FlushAllSeries ==
    ASSUME NEW db \in Databases, NEW b \in GoodBuffers,
           \A w \in Uuids : b.sensors[w] # NullPtr,
           NEW ignore, NEW r \in FlushAllOutcomes(db, b, ignore), NEW u \in Uuids
    PROVE  SeriesOf(r.db, r.buf, u) = SeriesOf(db, b, u)
<1>1. Buffered(b) \subseteq Uuids /\ \A w \in Buffered(b) : b.ops[w] # None
  BY DEF Buffered, GoodBuffers, Agree
<1>2. b \in Buffers
  BY DEF GoodBuffers
<1>3. CASE /\ r.db = FlushSensors(db, b, Buffered(b))
           /\ r.buf = ClearOperations(b, Buffered(b))
  BY <1>1, <1>2, <1>3, FlushSensorsSeries
<1>4. ASSUME NEW f \in Buffered(b), NEW done \in SUBSET Buffered(b), f \notin done,
             r.db = FlushUntilFailure(FlushSensors(db, b, done), b, f),
             r.buf = ClearOperations(b, done)
      PROVE  SeriesOf(r.db, r.buf, u) = SeriesOf(db, b, u)
  <2> DEFINE flushed == FlushSensors(db, b, done)
  <2>1. f \in Uuids /\ done \in SUBSET Uuids /\ \A w \in done : b.ops[w] # None
    BY <1>1
  <2>2. flushed \in Databases
    BY <1>2, <2>1, FlushSensorsType
  <2>3. r.buf.ops[f] = b.ops[f]
    BY <1>2, <1>4, <2>1 DEF ClearOperations, Buffers
  <2>4. SeriesOf(r.db, r.buf, u) = SeriesOf(flushed, r.buf, u)
    <3>. HIDE DEF flushed
    <3>1. r.db = FlushUntilFailure(flushed, b, f)
      BY <1>4 DEF flushed
    <3>. QED BY <1>2, <2>1, <2>2, <2>3, <3>1, FlushUntilFailureSeries
  <2>5. SeriesOf(flushed, r.buf, u) = SeriesOf(db, b, u)
    BY <1>2, <1>4, <2>1, FlushSensorsSeries
  <2>. QED BY <2>4, <2>5
<1>. QED BY <1>3, <1>4, FlushAllParts

\* Insertions come after everything the store answers.
LEMMA BufferReadingsSeries ==
    ASSUME NEW db \in Databases, NEW b \in Buffers, NEW u \in Uuids, NEW rs \in Readings,
           HasTable(db, u), b.ops[u] # None, NEW w \in Uuids
    PROVE  SeriesOf(db, BufferReadings(b, u, rs, "INSERT"), w)
             = IF w = u THEN KeepFirst(SeriesOf(db, b, u), rs) ELSE SeriesOf(db, b, w)
<1> DEFINE c == BufferReadings(b, u, rs, "INSERT")
           o == [ins |-> KeepFirst(b.ops[u].ins, rs), upd |-> b.ops[u].upd]
<1>1. \A x \in Uuids : c.ops[x] = IF x = u THEN o ELSE b.ops[x]
  BY DEF BufferReadings, Buffers
<1>2. b.ops[u] \in Operations /\ o \in Operations
  BY KeepFirstType DEF Buffers, Operations
<1>3. o # None /\ o.ins = KeepFirst(b.ops[u].ins, rs) /\ o.upd = b.ops[u].upd
  BY <1>2, AbsentAssumption
<1>. HIDE DEF c, o
<1>4. CASE w = u
  <2>1. c.ops[u] = o
    BY <1>1
  <2>2. SeriesOf(db, c, u) = [t \in Times |-> KeepFirst(o.upd, KeepFirst(db[u].readings, o.ins))[t]]
    BY <1>3, <2>1 DEF SeriesOf
  <2>3. SeriesOf(db, b, u) = [t \in Times |->
           KeepFirst(b.ops[u].upd, KeepFirst(db[u].readings, b.ops[u].ins))[t]]
    BY DEF SeriesOf
  <2>4. SeriesOf(db, c, u) = KeepFirst(SeriesOf(db, b, u), rs)
    BY <1>3, <2>2, <2>3 DEF KeepFirst
  <2>. QED BY <1>4, <2>4 DEF c
<1>5. CASE w # u
  BY <1>1, <1>5, SeriesSame DEF c
<1>. QED BY <1>4, <1>5

-----------------------------------------------------------------------------
(* Theorems *)

Lawful == Orderly /\ Faults = {}

\* The flush of a call ends well, or nothing rolls back what it did.
LEMMA FlushStays ==
    ASSUME StoreInv, "commit" \notin Faults, NEW b \in GoodBuffers,
           \A w \in Uuids : b.sensors[w] # NullPtr,
           \A w \in Buffered(b) : HasTable(conn, w),
           NEW ignore \in BOOLEAN, ignore = TRUE \/ ~AutoCommit,
           NEW r \in FlushAllOutcomes(conn, b, ignore),
           Finish(r.db, r.ok), buf' = r.buf, NEW u \in Uuids
    PROVE  SeriesOf(conn', buf', u) = SeriesOf(conn, b, u)
<1>1. conn' = r.db
  <2>1. CASE ~AutoCommit
    BY <2>1 DEF Finish
  <2>2. CASE AutoCommit
    <3>1. ignore = TRUE
      BY <2>2
    <3>2. r.ok = TRUE
      BY <3>1, FlushAllSucceeds
    <3>. QED BY <2>2, <3>2 DEF Finish
  <2>. QED BY <2>1, <2>2
<1>2. conn \in Databases
  BY DEF StoreInv, GoodState
<1>. QED BY <1>1, <1>2, FlushAllSeries

LEMMA OpenMirrors ==
    ASSUME StoreInv, Lawful, status = "open"
    PROVE  Mirrors(conn, buf) /\ conn \in Databases /\ buf \in GoodBuffers /\ buf \in Buffers
BY DEF StoreInv, Lawful, MirrorInv, GoodState, GoodBuffers

LEMMA FlushStepInvisible ==
    ASSUME StoreInv, "commit" \notin Faults, Whole,
           \/ CommitTransaction
           \/ Flush(TRUE)
           \/ ~AutoCommit /\ Flush(FALSE)
           \/ \E x \in Uuids : ReadReadings(x),
           NEW u \in Uuids
    PROVE  Series(u)' = Series(u)
<1>2. conn \in Databases /\ buf \in GoodBuffers /\ buf \in Buffers
  BY DEF StoreInv, GoodState, GoodBuffers
<1>3. CASE CommitTransaction
  <2>1. PICK r \in FlushAllOutcomes(conn, buf, AutoFlush) : conn' = r.db /\ buf' = r.buf
    BY <1>3 DEF CommitTransaction
  <2>2. \A w \in Uuids : buf.sensors[w] # NullPtr
    BY <1>3 DEF CommitTransaction, NoNullSensor
  <2>3. SeriesOf(conn', buf', u) = SeriesOf(conn, buf, u)
    BY <1>2, <2>1, <2>2, FlushAllSeries
  <2>. QED BY <2>3, SeriesNow
<1>4. ASSUME NEW ignore \in BOOLEAN, Flush(ignore), ignore = TRUE \/ ~AutoCommit
      PROVE  Series(u)' = Series(u)
  <2>1. PICK r \in FlushAllOutcomes(conn, buf, ignore) : Finish(r.db, r.ok) /\ buf' = r.buf
    BY <1>4 DEF Flush
  <2>2. SeriesOf(conn', buf', u) = SeriesOf(conn, buf, u)
    BY <1>2, <1>4, <2>1, FlushStays DEF Flush, NoNullSensor, Whole
  <2>. QED BY <2>2, SeriesNow
<1>5. ASSUME NEW x \in Uuids, ReadReadings(x)
      PROVE  Series(u)' = Series(u)
  <2>1. /\ conn' = FlushSensors(conn, buf, {x})
        /\ buf' = ClearOperations(buf, {x})
        /\ \A w \in {x} : buf.ops[w] # None
    BY <1>5 DEF ReadReadings
  <2>2. SeriesOf(conn', buf', u) = SeriesOf(conn, buf, u)
    BY <1>2, <2>1, FlushSensorsSeries
  <2>. QED BY <2>2, SeriesNow
<1>. QED BY <1>3, <1>4, <1>5

LEMMA AdditionAppends ==
    ASSUME StoreInv, "commit" \notin Faults, Whole, NEW u \in Uuids, NEW rs \in Readings,
           AddReadings(u, rs, "INSERT"), NEW w \in Uuids
    PROVE  Series(w)' = IF w = u THEN KeepFirst(Series(u), rs) ELSE Series(w)
<1> DEFINE b == BufferReadings(buf, u, rs, "INSERT")
<1>1. buf.sensors[u] \notin {None, NullPtr} /\ buf.ops[u] # None
  BY DEF AddReadings
<1>2. conn \in Databases /\ buf \in GoodBuffers /\ buf \in Buffers
  BY DEF StoreInv, GoodState, GoodBuffers
<1>3. HasTable(conn, u)
  BY <1>1 DEF Whole, Buffered
<1>4. SeriesOf(conn, b, w) = IF w = u THEN KeepFirst(SeriesOf(conn, buf, u), rs)
                             ELSE SeriesOf(conn, buf, w)
  BY <1>1, <1>2, <1>3, BufferReadingsSeries
<1>5. b \in GoodBuffers /\ b.sensors = buf.sensors /\ b.ids = buf.ids
  BY <1>1, <1>2, BufferReadingsGood DEF BufferReadings, GoodBuffers, Buffers
<1>6. \A x \in Buffered(b) : HasTable(conn, x)
  <2>. HIDE DEF b
  <2>. QED BY <1>5 DEF Whole, Buffered
<1>7. SeriesOf(conn', buf', w) = SeriesOf(conn, b, w)
  <2>1. CASE buf' = b /\ conn' = conn
    BY <2>1
  <2>2. ASSUME NoNullSensor, NEW r \in FlushAllOutcomes(conn, b, TRUE),
               Finish(r.db, r.ok), buf' = r.buf
        PROVE  SeriesOf(conn', buf', w) = SeriesOf(conn, b, w)
    <3>. HIDE DEF b
    <3>. QED BY <1>5, <1>6, <2>2, FlushStays DEF NoNullSensor
  <2>. QED BY <2>1, <2>2 DEF AddReadings
<1>. QED BY <1>4, <1>7, SeriesNow

LEMMA NewSensorStartsEmpty ==
    ASSUME StoreInv, Lawful, NEW u \in Uuids, NEW s \in Sensors, AddSensor(u, s),
           NEW w \in Uuids
    PROVE  Series(w)' = IF w = u THEN NoReadings ELSE Series(w)
<1>1. status = "open" /\ CanInsert(conn, u, s)
  BY DEF AddSensor, MayWrite, Idle
<1>2. Mirrors(conn, buf) /\ conn \in Databases /\ buf \in GoodBuffers /\ buf \in Buffers
  BY <1>1, OpenMirrors
<1>3. conn' = InsertSensor(conn, u, s) /\ buf' = SetBuffers(buf, u, s)
  BY DEF AddSensor, Finish, Lawful
<1>4. s.ext \in ExtIds /\ None \notin Uuids
  BY AbsentAssumption DEF Sensors
<1>5. buf.ids[s.ext] = None
  <2>1. \A x \in Uuids : conn[x] # None => conn[x].ext # s.ext
    BY <1>1 DEF CanInsert, Taken
  <2>2. ASSUME NEW x \in Uuids, buf.ids[s.ext] = x
        PROVE  FALSE
    <3>1. Mirrors(conn, buf)
      BY <1>2
    <3>2. buf.sensors[x] # None /\ buf.sensors[x].ext = s.ext
      BY <1>4, <2>2, <3>1 DEF Mirrors, Led
    <3>3. conn[x] # None /\ conn[x].ext = s.ext
      BY <3>1, <3>2 DEF Mirrors
    <3>. QED BY <2>1, <3>3
  <2>. QED BY <1>2, <1>4, <2>2 DEF Buffers
<1>6. buf.ops[u] = None
  BY <1>1, <1>2 DEF CanInsert, Mirrors, GoodBuffers, Agree
<1>7. buf'.ops[w] = IF w = u THEN NoOperations ELSE buf.ops[w]
  BY <1>3, <1>4, <1>5, <1>6 DEF SetBuffers
<1>8. CASE w = u
  <2> DEFINE row == [ext |-> s.ext, props |-> s.props, readings |-> NoReadings]
  <2>1. conn'[u] = row
    BY <1>2, <1>3 DEF InsertSensor, Databases
  <2>2. row \in Rows /\ NoOperations \in Operations
    BY NoOperationsType DEF Rows, Sensors
  <2>3. HasTable(conn', u) /\ NoOperations # None
    BY <2>1, <2>2, NoOperationsType, AbsentAssumption DEF HasTable
  <2>4. SeriesOf(conn', buf', u) = NoReadings
    BY <1>7, <1>8, <2>1, <2>3 DEF SeriesOf, KeepFirst, NoOperations, NoReadings
  <2>. QED BY <1>8, <2>4, SeriesNow
<1>9. CASE w # u
  <2>1. conn'[w] = conn[w]
    BY <1>3, <1>9 DEF InsertSensor
  <2>2. SeriesOf(conn', buf', w) = SeriesOf(conn, buf, w)
    BY <1>7, <1>9, <2>1, SeriesSame
  <2>. QED BY <1>9, <2>2, SeriesNow
<1>. QED BY <1>8, <1>9

-----------------------------------------------------------------------------
(* Definitions *)

\* The buffered sensors carry what the table says of them.
Alike(db, b) == \A u \in Uuids : db[u] # None => b.sensors[u].props = db[u].props

\* With automatic commits no client gets to change a sensor object without the
\* table: update_sensor is refused to no orderly client.
DefinedInv == Lawful /\ AutoCommit /\ status = "open" => Alike(conn, buf)

LEMMA AlikeStay ==
    ASSUME NEW db, NEW after, NEW b, NEW c, Alike(db, b), SameSensors(db, after),
           SameProps(db, after), c.sensors = b.sensors
    PROVE  Alike(after, c)
BY DEF Alike, SameSensors, SameProps

LEMMA LoadBuffersAlike ==
    ASSUME NEW db
    PROVE  Alike(db, LoadBuffers(db))
BY DEF Alike, LoadBuffers

\* A sensor is redefined in the table and in the buffers.
LEMMA SetBuffersAlike ==
    ASSUME NEW db, NEW after, NEW b, NEW u \in Uuids, NEW s, Alike(db, b),
           \A w \in Uuids \ {u} : after[w] = db[w],
           after[u] # None => after[u].props = s.props,
           Mirrors(after, SetBuffers(b, u, s))
    PROVE  Alike(after, SetBuffers(b, u, s))
<1> DEFINE c == SetBuffers(b, u, s)
<1>1. \A w \in Uuids : c.sensors[w] = IF w = u THEN s
                                      ELSE IF w = b.ids[s.ext] THEN None ELSE b.sensors[w]
  BY DEF SetBuffers
<1>2. \A w \in Uuids : after[w] # None => c.sensors[w] # None
  BY DEF Mirrors
<1>. HIDE DEF c
<1>3. Alike(after, c)
  BY <1>1, <1>2 DEF Alike
<1>. QED BY <1>3 DEF c

LEMMA UpdateRecordAt ==
    ASSUME NEW db \in Databases, NEW u \in Uuids, NEW s
    PROVE  /\ \A w \in Uuids \ {u} : UpdateRecord(db, u, s)[w] = db[w]
           /\ UpdateRecord(db, u, s)[u] # None => UpdateRecord(db, u, s)[u].props = s.props
BY DEF UpdateRecord, Databases

LEMMA InsertSensorAt ==
    ASSUME NEW db \in Databases, NEW u \in Uuids, NEW s
    PROVE  /\ \A w \in Uuids \ {u} : InsertSensor(db, u, s)[w] = db[w]
           /\ InsertSensor(db, u, s)[u].props = s.props
           /\ InsertSensor(db, u, s)[u].ext = s.ext
BY DEF InsertSensor, Databases

\* A step that keeps the definitions where they are.
LEMMA DefinedCall ==
    ASSUME DefinedInv, Lawful, AutoCommit, status = "open",
           SameSensors(conn, conn'), SameProps(conn, conn'), buf'.sensors = buf.sensors
    PROVE  DefinedInv'
BY AlikeStay DEF DefinedInv

LEMMA SensorsDefined ==
    ASSUME StoreInv, StoreInv', DefinedInv, Lawful, AutoCommit, NEW u \in Uuids,
           \/ \E s \in ClientSensors(u) :
                 AddSensor(u, s) \/ UpdateSensor(u, s) \/ UpdateSensorRefused(u, s)
           \/ RemoveSensor(u)
    PROVE  DefinedInv'
<1>1. status = "open" /\ status' = "open"
  BY DEF AddSensor, UpdateSensor, UpdateSensorRefused, RemoveSensor, MayWrite, Idle
<1>2. Mirrors(conn, buf) /\ conn \in Databases /\ buf \in Buffers /\ Alike(conn, buf)
  BY <1>1, OpenMirrors DEF DefinedInv
<1>3. Mirrors(conn', buf')
  BY <1>1 DEF StoreInv, Lawful, MirrorInv
<1>4. ASSUME NEW s \in ClientSensors(u), AddSensor(u, s)
      PROVE  DefinedInv'
  <2>1. conn' = InsertSensor(conn, u, s) /\ buf' = SetBuffers(buf, u, s)
    BY <1>4 DEF AddSensor, Finish, Lawful
  <2>2. Alike(conn', buf')
    BY <1>2, <1>3, <2>1, InsertSensorAt, SetBuffersAlike
  <2>. QED BY <2>2 DEF DefinedInv
<1>5. ASSUME NEW s \in ClientSensors(u), UpdateSensor(u, s)
      PROVE  DefinedInv'
  <2>1. conn' = UpdateRecord(conn, u, s) /\ buf' = SetBuffers(buf, u, s)
    BY <1>5 DEF UpdateSensor, Finish, Lawful
  <2>2. /\ \A w \in Uuids \ {u} : conn'[w] = conn[w]
        /\ conn'[u] # None => conn'[u].props = s.props
    BY <1>2, <2>1, UpdateRecordAt
  <2>3. Alike(conn', buf')
    BY <1>2, <1>3, <2>1, <2>2, SetBuffersAlike
  <2>. QED BY <2>3 DEF DefinedInv
<1>6. ASSUME NEW s \in ClientSensors(u)
      PROVE  ~UpdateSensorRefused(u, s)
  <2>1. ASSUME UpdateSensorRefused(u, s)
        PROVE  FALSE
    <3>1. conn[u] # None /\ Taken(conn, u, s.ext)
      BY <2>1 DEF UpdateSensorRefused, MayWrite
    <3>2. s.ext = HomeExt[u]
      BY <1>6, HomeSensors DEF Lawful
    <3>3. conn[u].ext = s.ext /\ UniqueIds(conn)
      BY <1>2, <3>1, <3>2, MirrorsUnique DEF Mirrors, AtHome
    <3>. QED BY <3>1, <3>3 DEF Taken, UniqueIds
  <2>. QED BY <2>1
<1>7. CASE RemoveSensor(u)
  <2>1. PICK e : conn' = DeleteSensor(conn, u) /\ buf' = ClearSensor(buf, u, e)
    BY <1>7 DEF RemoveSensor, Finish, Lawful
  <2>2. \A w \in Uuids : conn'[w] # None =>
           w # u /\ conn'[w] = conn[w] /\ buf'.sensors[w] = buf.sensors[w]
    BY <1>2, <2>1 DEF DeleteSensor, ClearSensor, Databases, Buffers
  <2>3. Alike(conn', buf')
    BY <1>2, <2>2 DEF Alike
  <2>. QED BY <2>3 DEF DefinedInv
<1>. QED BY <1>4, <1>5, <1>6, <1>7

LEMMA ReadingsDefined ==
    ASSUME StoreInv, DefinedInv, Lawful, AutoCommit,
           \/ \E u \in Uuids, rs \in Readings, kind \in {"INSERT", "UPDATE"} :
                 AddReadings(u, rs, kind)
           \/ \E ignore \in BOOLEAN : Flush(ignore)
           \/ \E u \in Uuids : ReadReadings(u)
    PROVE  DefinedInv'
<1>1. status = "open"
  BY DEF AddReadings, Flush, ReadReadings, MayWrite, Idle
<1>2. conn \in Databases /\ buf \in GoodBuffers /\ buf \in Buffers
      /\ \A w \in Uuids : buf.sensors[w] # NullPtr
  BY <1>1, OpenMirrors DEF Mirrors, Led
<1>3. SameSensors(conn, conn) /\ SameProps(conn, conn)
  BY DEF SameSensors, SameProps
<1>4. ASSUME NEW b \in GoodBuffers, b.sensors = buf.sensors, NEW ignore,
             NEW r \in FlushAllOutcomes(conn, b, ignore), MayWrite, Finish(r.db, r.ok),
             buf' = r.buf
      PROVE  DefinedInv'
  <2>1. SameSensors(conn, r.db) /\ SameProps(conn, r.db) /\ buf'.sensors = buf.sensors
    BY <1>2, <1>4, FlushAllSame
  <2>2. conn = disk
    BY <1>4 DEF MayWrite, Idle, StoreInv, FileInv
  <2>3. conn' \in {r.db, conn}
    BY <1>4, <2>2 DEF Finish
  <2>. QED BY <1>1, <1>3, <2>1, <2>3, DefinedCall
<1>5. ASSUME NEW u \in Uuids, NEW rs \in Readings, NEW kind, AddReadings(u, rs, kind)
      PROVE  DefinedInv'
  <2> DEFINE b == BufferReadings(buf, u, rs, kind)
  <2>1. b \in GoodBuffers
    BY <1>2, <1>5, BufferReadingsGood DEF AddReadings
  <2>2. b.sensors = buf.sensors
    BY <1>2 DEF BufferReadings, Buffers
  <2>3. CASE buf' = b /\ conn' = conn
    BY <1>1, <1>3, <2>2, <2>3, DefinedCall
  <2>4. ASSUME MayWrite, NEW r \in FlushAllOutcomes(conn, b, TRUE),
               Finish(r.db, r.ok), buf' = r.buf
        PROVE  DefinedInv'
    <3>. HIDE DEF b
    <3>. QED BY <1>4, <2>1, <2>2, <2>4
  <2>. QED BY <1>5, <2>3, <2>4 DEF AddReadings
<1>6. ASSUME NEW ignore, Flush(ignore)
      PROVE  DefinedInv'
  BY <1>2, <1>4, <1>6 DEF Flush
<1>7. ASSUME NEW u \in Uuids, ReadReadings(u)
      PROVE  DefinedInv'
  <2>1. conn' = FlushSensors(conn, buf, {u}) /\ buf' = ClearOperations(buf, {u})
        /\ buf.ops[u] # None
    BY <1>7 DEF ReadReadings
  <2>2. SameSensors(conn, conn') /\ SameProps(conn, conn')
    BY <1>2, <2>1, FlushSensorsSame
  <2>3. buf'.sensors = buf.sensors
    BY <1>2, <2>1 DEF ClearOperations, Buffers
  <2>. QED BY <1>1, <2>2, <2>3, DefinedCall
<1>. QED BY <1>5, <1>6, <1>7

-----------------------------------------------------------------------------
(* Synchronisation *)

\* An iteration of sync before the flush it may cause: the source's definition
\* is in the table and in the buffers, and nothing is pending of the sensor.
LEMMA SyncSensorDefines ==
    ASSUME StoreInv, Lawful, AutoCommit, DefinedInv, NEW u \in Uuids,
           status = "open", syncing # None, syncing.todo[u] # None
    PROVE  LET row == syncing.todo[u]
               s == [ext |-> row.ext, props |-> row.props]
               known == buf.ids[row.ext]
               local == LocalUuid(u, row.ext)
               changed == known # None /\ buf.sensors[known].props # row.props
               db == IF known = None THEN InsertSensor(conn, u, s)
                     ELSE IF changed THEN UpdateRecord(conn, local, s) ELSE conn
               set == SetBuffers(buf, local, s)
           IN /\ db[local] # None /\ db[local].ext = row.ext /\ db[local].props = row.props
              /\ \A w \in Uuids \ {local} : db[w] = conn[w] /\ set.ops[w] = buf.ops[w]
              /\ set.ids[row.ext] = local
              /\ set.ops[local] = NoOperations
              /\ Alike(db, set)
<1> DEFINE row == syncing.todo[u]
           s == [ext |-> row.ext, props |-> row.props]
           known == buf.ids[row.ext]
           local == LocalUuid(u, row.ext)
           changed == known # None /\ buf.sensors[known].props # row.props
           db == IF known = None THEN InsertSensor(conn, u, s)
                 ELSE IF changed THEN UpdateRecord(conn, local, s) ELSE conn
           set == SetBuffers(buf, local, s)
<1>1. MirrorInv /\ GoodState
  BY DEF StoreInv, Lawful
<1>2. Mirrors(conn, buf) /\ conn \in Databases /\ buf \in GoodBuffers /\ buf \in Buffers
      /\ Alike(conn, buf)
  BY OpenMirrors DEF DefinedInv
<1>3. s \in Sensors /\ local \in Uuids /\ Mirrors(db, set)
      /\ (known = None => local = u)
  BY <1>1, SyncSensorMirrors
<1>4. s.ext = row.ext /\ s.props = row.props /\ row.ext \in ExtIds
  BY <1>3 DEF Sensors
<1>5. known # None => local = known
  BY DEF LocalUuid
<1>. HIDE DEF s, row
<1>6. /\ \A w \in Uuids \ {local} : db[w] = conn[w]
      /\ db[local] # None => db[local].props = row.props
  <2>1. CASE known = None
    BY <1>2, <1>3, <1>4, <2>1, InsertSensorAt
  <2>2. CASE known # None /\ changed
    <3>1. db = UpdateRecord(conn, local, s)
      BY <2>2
    <3>. QED BY <1>2, <1>3, <1>4, <3>1, UpdateRecordAt
  <2>3. CASE known # None /\ ~changed
    <3>1. db = conn /\ buf.sensors[local].props = row.props
      BY <1>5, <2>3
    <3>. QED BY <1>2, <1>3, <3>1 DEF Alike
  <2>. QED BY <2>1, <2>2, <2>3
<1>7. set.ids[row.ext] = local /\ set.sensors[local] = s
  <2>. HIDE DEF local
  <2>1. set.ids = [buf.ids EXCEPT ![s.ext] = local]
    BY DEF SetBuffers
  <2>2. row.ext \in DOMAIN buf.ids
    BY <1>2, <1>4 DEF Buffers
  <2>3. set.sensors[local] = s
    BY <1>3 DEF SetBuffers
  <2>. QED BY <1>4, <2>1, <2>2, <2>3
<1>8. db[local] # None /\ db[local].ext = row.ext
  <2>1. s # None
    BY <1>3, AbsentAssumption
  <2>. HIDE DEF set, db, local
  <2>. QED BY <1>3, <1>4, <1>7, <2>1 DEF Mirrors
<1>9. \A w \in Uuids \ {local} : set.ops[w] = buf.ops[w]
  BY <1>4, <1>5, AbsentAssumption DEF SetBuffers
<1>10. set.ops[local] = NoOperations
  <2>1. CASE known # None
    BY <1>3, <1>4, <1>5, <2>1 DEF SetBuffers
  <2>2. CASE known = None
    <3>1. \A w \in Uuids : buf.sensors[w] # None => buf.sensors[w].ext # row.ext
      BY <1>2, <1>4, <2>2, AbsentAssumption DEF Mirrors, Led
    <3>2. buf.sensors[u] = None
      <4>1. row.ext = HomeExt[u]
        BY <1>1 DEF MirrorInv, AtHome, row
      <4>. QED BY <1>2, <3>1, <4>1 DEF Mirrors, AtHome
    <3>3. buf.ops[local] = None
      BY <1>2, <1>3, <2>2, <3>2 DEF GoodBuffers, Agree
    <3>. QED BY <1>3, <1>4, <2>2, <3>3 DEF SetBuffers
  <2>. QED BY <2>1, <2>2
<1>11. Alike(db, set)
  <2>. HIDE DEF db, local
  <2>. QED BY <1>2, <1>3, <1>4, <1>6, SetBuffersAlike
<1>. QED BY <1>6, <1>7, <1>8, <1>9, <1>10, <1>11 DEF row, s

\* Updates come before everything the store answers.
LEMMA UpdatesSeries ==
    ASSUME NEW db, NEW b \in Buffers, NEW u \in Uuids, NEW rs \in Readings,
           HasTable(db, u), b.ops[u] = NoOperations
    PROVE  LET c == BufferReadings(b, u, rs, "UPDATE")
           IN /\ \A t \in Recorded(rs) : SeriesOf(db, c, u)[t] = rs[t]
              /\ \A w \in Uuids \ {u} : SeriesOf(db, c, w) = SeriesOf(db, b, w)
<1> DEFINE c == BufferReadings(b, u, rs, "UPDATE")
           o == [ins |-> b.ops[u].ins, upd |-> KeepFirst(b.ops[u].upd, rs)]
<1>1. \A x \in Uuids : c.ops[x] = IF x = u THEN o ELSE b.ops[x]
  BY DEF BufferReadings, Buffers
<1>2. NoOperations \in Operations /\ o \in Operations
  BY NoOperationsType, KeepFirstType DEF Operations
<1>3. o # None
  BY <1>2, AbsentAssumption
<1>4. \A t \in Times : o.upd[t] = rs[t]
  BY DEF KeepFirst, NoOperations, NoReadings
<1>. HIDE DEF c, o
<1>5. SeriesOf(db, c, u) = [t \in Times |-> KeepFirst(o.upd, KeepFirst(db[u].readings, o.ins))[t]]
  BY <1>1, <1>3 DEF SeriesOf
<1>6. \A t \in Recorded(rs) : SeriesOf(db, c, u)[t] = rs[t]
  BY <1>4, <1>5 DEF Recorded, KeepFirst
<1>7. \A w \in Uuids \ {u} : SeriesOf(db, c, w) = SeriesOf(db, b, w)
  BY <1>1, SeriesSame
<1>. QED BY <1>6, <1>7 DEF c

\* What one iteration of sync leaves, in the tables and in the buffers.
LEMMA SyncSensorCopies ==
    ASSUME StoreInv, Lawful, AutoCommit, DefinedInv, NEW u \in Uuids, SyncSensor(u)
    PROVE  LET row == syncing.todo[u]
               w == LocalUuid(u, row.ext)
           IN /\ w \in Uuids
              /\ buf'.ids[row.ext] = w
              /\ conn'[w] # None /\ conn'[w].ext = row.ext /\ conn'[w].props = row.props
              /\ syncing.readings =>
                    \A t \in Recorded(row.readings) :
                       SeriesOf(conn', buf', w)[t] = row.readings[t]
              /\ \A x \in Uuids \ {w} : SeriesOf(conn', buf', x) = SeriesOf(conn, buf, x)
              /\ Alike(conn', buf')
<1> DEFINE row == syncing.todo[u]
           s == [ext |-> row.ext, props |-> row.props]
           known == buf.ids[row.ext]
           local == LocalUuid(u, row.ext)
           changed == known # None /\ buf.sensors[known].props # row.props
           fits == IF known = None THEN CanInsert(conn, u, s)
                   ELSE changed /\ conn[local] # None => ~Taken(conn, local, s.ext)
           db == IF known = None THEN InsertSensor(conn, u, s)
                 ELSE IF changed THEN UpdateRecord(conn, local, s) ELSE conn
           set == SetBuffers(buf, local, s)
           copying == syncing.readings /\ row.readings # NoReadings
           b == IF copying THEN BufferReadings(set, local, row.readings, "UPDATE") ELSE set
<1>1. status = "open" /\ syncing # None /\ row # None /\ MirrorInv /\ GoodState
  BY DEF SyncSensor, StoreInv, Lawful
<1>2. /\ s \in Sensors /\ local \in Uuids /\ fits /\ db \in Databases
      /\ Mirrors(db, set) /\ set \in GoodBuffers
  BY <1>1, SyncSensorMirrors
<1>3. /\ db[local] # None /\ db[local].ext = row.ext /\ db[local].props = row.props
      /\ \A w \in Uuids \ {local} : db[w] = conn[w] /\ set.ops[w] = buf.ops[w]
      /\ set.ids[row.ext] = local
      /\ set.ops[local] = NoOperations
      /\ Alike(db, set)
  BY <1>1, SyncSensorDefines
<1>4. \/ conn' = db /\ buf' = b
      \/ \E r \in FlushAllOutcomes(db, b, TRUE) : SyncLeaves(u, r.db, r.ok) /\ buf' = r.buf
  BY <1>2 DEF SyncSensor, SyncLeaves
<1>5. row.readings \in Readings
  BY <1>1, VisitedType
<1>. HIDE DEF row, s, db, set, local
<1>6. set \in Buffers
  BY <1>2 DEF GoodBuffers
<1>7. b \in GoodBuffers /\ b.sensors = set.sensors /\ b.ids = set.ids
  <2>1. set.ops[local] # None
    BY <1>3, NoOperationsType, AbsentAssumption
  <2>2. BufferReadings(set, local, row.readings, "UPDATE") \in GoodBuffers
    BY <1>2, <1>5, <2>1, BufferReadingsGood
  <2>3. LET c == BufferReadings(set, local, row.readings, "UPDATE")
        IN c.sensors = set.sensors /\ c.ids = set.ids
    BY <1>6 DEF BufferReadings, Buffers
  <2>. QED BY <1>2, <2>2, <2>3
<1>8. \A x \in Uuids \ {local} : SeriesOf(db, set, x) = SeriesOf(conn, buf, x)
  BY <1>3, SeriesSame
<1>9. /\ syncing.readings =>
            \A t \in Recorded(row.readings) : SeriesOf(db, b, local)[t] = row.readings[t]
      /\ \A x \in Uuids \ {local} : SeriesOf(db, b, x) = SeriesOf(conn, buf, x)
  <2>1. CASE copying
    <3>1. HasTable(db, local)
      BY <1>2, <1>3 DEF Mirrors, AtHome
    <3>. QED BY <1>2, <1>3, <1>5, <1>6, <1>8, <2>1, <3>1, UpdatesSeries
  <2>2. CASE ~copying
    BY <1>8, <2>2 DEF Recorded, NoReadings
  <2>. QED BY <2>1, <2>2
<1>. HIDE DEF b
<1>10. Mirrors(db, b) /\ Alike(db, b)
  <2>1. SameSensors(db, db) /\ SameProps(db, db)
    BY DEF SameSensors, SameProps
  <2>. QED BY <1>2, <1>3, <1>7, <2>1, MirrorsStay, AlikeStay
<1>11. \A w \in Uuids : b.sensors[w] # NullPtr
  BY <1>10 DEF Mirrors, Led
<1>12. /\ buf'.ids = b.ids /\ buf'.sensors = b.sensors
       /\ SameSensors(db, conn') /\ SameProps(db, conn')
       /\ \A x \in Uuids : SeriesOf(conn', buf', x) = SeriesOf(db, b, x)
  <2>1. CASE conn' = db /\ buf' = b
    BY <2>1 DEF SameSensors, SameProps
  <2>2. ASSUME NEW r \in FlushAllOutcomes(db, b, TRUE),
               SyncLeaves(u, r.db, r.ok), buf' = r.buf
        PROVE  /\ buf'.ids = b.ids /\ buf'.sensors = b.sensors
               /\ SameSensors(db, conn') /\ SameProps(db, conn')
               /\ \A x \in Uuids : SeriesOf(conn', buf', x) = SeriesOf(db, b, x)
    <3>1. r.ok = TRUE
      BY <1>7, <1>10, MirrorsWhole, FlushAllSucceeds
    <3>2. conn' = r.db
      BY <2>2, <3>1 DEF SyncLeaves
    <3>3. /\ SameSensors(db, r.db) /\ SameProps(db, r.db)
          /\ r.buf.sensors = b.sensors /\ r.buf.ids = b.ids
      BY <1>2, <1>7, <1>11, FlushAllSame
    <3>4. \A x \in Uuids : SeriesOf(r.db, r.buf, x) = SeriesOf(db, b, x)
      BY <1>2, <1>7, <1>11, FlushAllSeries
    <3>. QED BY <2>2, <3>2, <3>3, <3>4
  <2>. QED BY <1>4, <2>1, <2>2
<1>13. /\ conn'[local] # None
       /\ conn'[local].ext = row.ext
       /\ conn'[local].props = row.props
  BY <1>2, <1>3, <1>12 DEF SameSensors, SameProps
<1>14. Alike(conn', buf')
  BY <1>10, <1>12, AlikeStay
<1>15. buf'.ids[row.ext] = local
  BY <1>3, <1>7, <1>12
<1>. QED BY <1>2, <1>9, <1>12, <1>13, <1>14, <1>15 DEF row, local

LEMMA NextDefined == StoreInv /\ StoreInv' /\ DefinedInv /\ [Next]_vars => DefinedInv'
<1>. SUFFICES ASSUME StoreInv, StoreInv', DefinedInv, [Next]_vars, Lawful, AutoCommit
              PROVE  DefinedInv'
  BY DEF DefinedInv
<1>1. SameSensors(conn, conn) /\ SameProps(conn, conn)
  BY DEF SameSensors, SameProps
<1>2. ASSUME conn' = conn, buf' = buf, status' = status
      PROVE  DefinedInv'
  BY <1>2 DEF DefinedInv
<1>3. CASE UNCHANGED vars
  BY <1>2, <1>3 DEF vars
<1>4. CASE Next
  <2>1. CASE StartTransaction \/ CommitTransaction \/ RollbackTransaction
    BY <2>1 DEF StartTransaction, CommitTransaction, RollbackTransaction
  <2>2. ASSUME NEW u \in Uuids,
               \/ \E s \in ClientSensors(u) :
                     AddSensor(u, s) \/ UpdateSensor(u, s) \/ UpdateSensorRefused(u, s)
               \/ RemoveSensor(u)
        PROVE  DefinedInv'
    BY <2>2, SensorsDefined
  <2>3. CASE \/ \E u \in Uuids, rs \in Readings, kind \in {"INSERT", "UPDATE"} :
                   AddReadings(u, rs, kind)
             \/ \E ignore \in BOOLEAN : Flush(ignore)
             \/ \E u \in Uuids : ReadReadings(u)
    BY <2>3, ReadingsDefined
  <2>4. ASSUME NEW e \in ExtIds, LookupByExternalId(e)
        PROVE  DefinedInv'
    BY <2>4, LookupMirror DEF StoreInv, Lawful
  <2>5. ASSUME NEW u \in Uuids, SyncSensor(u)
        PROVE  DefinedInv'
    BY <2>5, SyncSensorCopies DEF DefinedInv
  <2>6. CASE \/ \E src \in Sources, readings \in BOOLEAN : SyncBegin(src, readings)
             \/ \E u \in Uuids : SyncSourceFails(u)
             \/ SyncEnd
             \/ TimeoutElapses
    BY <1>2, <2>6 DEF SyncBegin, SyncSourceFails, SyncEnd, TimeoutElapses, Finish, Lawful
  <2>7. CASE Open \/ Create
    BY <2>7, LoadBuffersAlike DEF Open, Create, Prepare, DefinedInv, StoreInv, FileInv
  <2>8. CASE Rotate
    <3>1. PICK S : conn' = RotatedDatabase(S) /\ buf' = buf
      BY <2>8 DEF Rotate
    <3>2. Alike(conn', buf')
      BY <3>1 DEF Alike, RotatedDatabase
    <3>. QED BY <3>2 DEF DefinedInv
  <2>9. CASE \/ Close \/ Crash
             \/ CrashBeforeInitialized
             \/ \E S \in SUBSET Uuids :
                   CrashWhileRotating(S) \/ \E u \in S : CrashBeforeTable(S, u)
             \/ \E u \in Uuids, kind \in {"INSERT", "UPDATE"}, cut \in Times :
                   CrashWhileWriting(u, kind, cut)
    BY <2>9 DEF Close, Crash, CrashWhileRotating, CrashBeforeTable, CrashBeforeInitialized,
                CrashWhileWriting, Stopped, Ended, DefinedInv
  <2>10. \A u \in Uuids : ~RemoveSensorWithoutTable(u)
    BY TablesMirror DEF StoreInv, Lawful
  <2>. QED BY <1>4, <2>1, <2>2, <2>3, <2>4, <2>5, <2>6, <2>7, <2>8, <2>9, <2>10 DEF Next
<1>. QED BY <1>3, <1>4

\* While no commit is refused and no table is missing, no flush can be
\* observed: what the store answers is the same before and after, however many
\* sensors, times and pending readings there are, whatever clients do, and
\* after any crash, also one in the middle of a rotation.
THEOREM FlushTheorem ==
    ASSUME "commit" \notin Faults
    PROVE  Spec => FlushIsInvisible
<1>1. StoreInv /\ [Next]_vars =>
        [/\ Whole
         /\ \/ CommitTransaction
            \/ Flush(TRUE)
            \/ ~AutoCommit /\ Flush(FALSE)
            \/ \E u \in Uuids : ReadReadings(u)
         => \A u \in Uuids : Series(u)' = Series(u)]_vars
  BY FlushStepInvisible
<1>. QED BY <1>1, InitStore, NextStore, PTL DEF Spec, FlushIsInvisible

\* Under the same conditions an addition adds the timestamps the sensor does
\* not have and changes nothing else.
THEOREM AddTheorem ==
    ASSUME "commit" \notin Faults
    PROVE  Spec => AddAppends
<1>1. StoreInv /\ [Next]_vars =>
        [\A u \in Uuids, rs \in Readings :
           Whole /\ AddReadings(u, rs, "INSERT") =>
             \A w \in Uuids :
               Series(w)' = IF w = u THEN KeepFirst(Series(u), rs) ELSE Series(w)]_vars
  BY AdditionAppends
<1>. QED BY <1>1, InitStore, NextStore, PTL DEF Spec, AddAppends

\* Between orderly clients and without faults a sensor that is added inherits
\* nothing.
THEOREM NewSensorTheorem ==
    ASSUME Lawful
    PROVE  Spec => NewSensorHasNoReadings
<1>1. StoreInv /\ [Next]_vars =>
        [\A u \in Uuids, s \in Sensors :
           AddSensor(u, s) =>
             \A w \in Uuids : Series(w)' = IF w = u THEN NoReadings ELSE Series(w)]_vars
  BY NewSensorStartsEmpty
<1>. QED BY <1>1, InitStore, NextStore, PTL DEF Spec, NewSensorHasNoReadings

\* Under the same conditions, with automatic commits: whatever the two stores know, each iteration of
\* a sync leaves the source's sensor under its external id, with the source's
\* definition and the source's readings, and other sensors as they were.
THEOREM SyncTheorem ==
    ASSUME Lawful, AutoCommit
    PROVE  Spec => SyncCopies
<1>1. Init => StoreInv /\ DefinedInv
  <2>1. Init => DefinedInv
    BY DEF Init, DefinedInv, Alike, EmptyDatabase
  <2>. QED BY <2>1, InitStore
<1>2. StoreInv /\ DefinedInv /\ [Next]_vars => StoreInv' /\ DefinedInv'
  BY NextStore, NextDefined
<1>3. StoreInv /\ DefinedInv /\ [Next]_vars =>
        [\A u \in Uuids :
          SyncSensor(u) /\ syncing' # None =>
              LET row == syncing.todo[u] IN
              \E w \in Uuids :
                  /\ buf'.ids[row.ext] = w
                  /\ conn'[w] # None /\ conn'[w].ext = row.ext /\ conn'[w].props = row.props
                  /\ syncing.readings =>
                        \A t \in Recorded(row.readings) : Series(w)'[t] = row.readings[t]
                  /\ \A x \in Uuids \ {w} : Series(x)' = Series(x)]_vars
  <2>. SUFFICES ASSUME StoreInv, DefinedInv, NEW u \in Uuids, SyncSensor(u)
                PROVE  LET row == syncing.todo[u] IN
                       \E w \in Uuids :
                          /\ buf'.ids[row.ext] = w
                          /\ conn'[w] # None /\ conn'[w].ext = row.ext
                          /\ conn'[w].props = row.props
                          /\ syncing.readings =>
                                \A t \in Recorded(row.readings) :
                                   Series(w)'[t] = row.readings[t]
                          /\ \A x \in Uuids \ {w} : Series(x)' = Series(x)
    OBVIOUS
  <2> DEFINE row == syncing.todo[u]
             w == LocalUuid(u, row.ext)
  <2>1. /\ w \in Uuids
        /\ buf'.ids[row.ext] = w
        /\ conn'[w] # None /\ conn'[w].ext = row.ext /\ conn'[w].props = row.props
        /\ syncing.readings =>
              \A t \in Recorded(row.readings) :
                 SeriesOf(conn', buf', w)[t] = row.readings[t]
        /\ \A x \in Uuids \ {w} : SeriesOf(conn', buf', x) = SeriesOf(conn, buf, x)
    BY SyncSensorCopies
  <2>2. \A x : Series(x) = SeriesOf(conn, buf, x) /\ Series(x)' = SeriesOf(conn', buf', x)
    BY SeriesNow
  <2>. HIDE DEF w
  <2>. QED BY <2>1, <2>2
<1>. QED BY <1>1, <1>2, <1>3, PTL DEF Spec, SyncCopies
=============================================================================
