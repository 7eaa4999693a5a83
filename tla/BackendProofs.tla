--------------------------- MODULE BackendProofs ---------------------------
(***************************************************************************)
(* Theorems about a store over any of the other backends, for every set of *)
(* sensors, ids, times and values, every client, source and threshold.     *)
(***************************************************************************)
EXTENDS BackendProperties, NumberLemmas

-----------------------------------------------------------------------------
(* The loop of flush_all *)

FlushStart(m, b) == {[srv |-> m, buf |-> b, ok |-> TRUE]}

FlushOn(before, u, ignore) ==
    UNION {IF o.ok THEN FlushSensor(o.srv, o.buf, u, ignore) ELSE {o} : o \in before}

\* The loop is well defined.
LEMMA FlushLoopExists ==
    ASSUME NEW m, NEW b, NEW ignore, NEW order, NEW n \in Nat
    PROVE  \E f : f = [i \in 0 .. n |-> IF i = 0 THEN FlushStart(m, b)
                                        ELSE FlushOn(f[i - 1], order[i], ignore)]
<1> DEFINE Loop(f, k) == f = [i \in 0 .. k |-> IF i = 0 THEN FlushStart(m, b)
                                               ELSE FlushOn(f[i - 1], order[i], ignore)]
           S == {k \in Nat : \E f : Loop(f, k)}
<1>1. 0 \in S
  <2> DEFINE f == [i \in 0 .. 0 |-> FlushStart(m, b)]
  <2>1. Loop(f, 0)
    OBVIOUS
  <2>. QED BY <2>1
<1>2. ASSUME NEW k \in 1 .. n, k - 1 \in S
      PROVE  k \in S
  <2>1. PICK g : Loop(g, k - 1)
    BY <1>2
  <2> DEFINE f == [i \in 0 .. k |-> IF i = 0 THEN FlushStart(m, b)
                                    ELSE FlushOn(g[i - 1], order[i], ignore)]
  <2>2. ASSUME NEW i \in 0 .. k - 1
        PROVE  f[i] = g[i]
    <3>1. g[i] = IF i = 0 THEN FlushStart(m, b) ELSE FlushOn(g[i - 1], order[i], ignore)
      BY <2>1
    <3>2. i \in 0 .. k
      OBVIOUS
    <3>. QED BY <3>1, <3>2
  <2>3. ASSUME NEW i \in 0 .. k
        PROVE  f[i] = IF i = 0 THEN FlushStart(m, b) ELSE FlushOn(f[i - 1], order[i], ignore)
    <3>1. i # 0 => i - 1 \in 0 .. k - 1
      OBVIOUS
    <3>2. i # 0 => f[i - 1] = g[i - 1]
      BY <3>1, <2>2
    <3>3. f[i] = IF i = 0 THEN FlushStart(m, b) ELSE FlushOn(g[i - 1], order[i], ignore)
      OBVIOUS
    <3>. HIDE DEF f
    <3>. QED BY <3>2, <3>3
  <2>4. DOMAIN f = 0 .. k /\ f = [i \in 0 .. k |-> f[i]]
    OBVIOUS
  <2>. HIDE DEF f
  <2>5. Loop(f, k)
    BY <2>3, <2>4
  <2>. QED BY <2>5
<1>. HIDE DEF S
<1>3. n \in S
  BY <1>1, <1>2, InductionUpTo
<1>. QED BY <1>3 DEF S

\* A set of outcomes that the loop begins in and that no flush of a sensor
\* leaves holds every outcome of flush_all.
LEMMA FlushAllStaysIn ==
    ASSUME NEW m, NEW b, NEW ignore, NEW R, FlushStart(m, b) \subseteq R,
           \A o \in R : \A u \in Buffered(b) :
              o.ok => FlushSensor(o.srv, o.buf, u, ignore) \subseteq R
    PROVE  FlushAll(m, b, ignore) \subseteq R
<1> DEFINE n == Cardinality(Buffered(b))
<1>1. n \in Nat
  <2>1. Buffered(b) \in SUBSET Uuids
    BY DEF Buffered
  <2>2. IsFiniteSet(Buffered(b))
    BY <2>1, UuidsAssumption, FS_Subset
  <2>. QED BY <2>2, FS_CardinalityType
<1>. SUFFICES ASSUME NEW order \in [1 .. n -> Buffered(b)]
              PROVE  FlushInOrder(m, b, ignore, order, n) \subseteq R
  BY DEF FlushAll, SetToSeqs
<1>. HIDE DEF n
<1> DEFINE after == CHOOSE f : f = [i \in 0 .. n |-> IF i = 0 THEN FlushStart(m, b)
                                                    ELSE FlushOn(f[i - 1], order[i], ignore)]
<1>2. after = [i \in 0 .. n |-> IF i = 0 THEN FlushStart(m, b)
                               ELSE FlushOn(after[i - 1], order[i], ignore)]
  BY <1>1, FlushLoopExists
<1>3. FlushInOrder(m, b, ignore, order, n) = after[n]
  BY DEF FlushInOrder, FlushStart, FlushOn
<1>. HIDE DEF after
<1> DEFINE S == {i \in 0 .. n : after[i] \subseteq R}
<1>4. 0 \in S
  BY <1>1, <1>2
<1>5. ASSUME NEW i \in 1 .. n, i - 1 \in S
      PROVE  i \in S
  <2>1. after[i] = FlushOn(after[i - 1], order[i], ignore)
    BY <1>1, <1>2, <1>5
  <2>2. FlushOn(after[i - 1], order[i], ignore) \subseteq R
    BY <1>5 DEF FlushOn
  <2>. QED BY <2>1, <2>2
<1>6. n \in S
  <2>. HIDE DEF S
  <2>1. \A i \in 0 .. n : i \in S
    BY <1>1, <1>4, <1>5, InductionUpTo
  <2>. QED BY <1>1, <2>1
<1>. QED BY <1>3, <1>6

-----------------------------------------------------------------------------
(***************************************************************************)
(* The record methods.  Each of them leaves a medium, and what Effect says *)
(* of it.                                                                  *)
(***************************************************************************)

\* Outside a transaction what is read is what is kept, but for memtables.
Kept(m) == store.kind # "rocksdb" /\ m.txn = "none" => m.view = m.disk

\* A method neither opens nor ends a transaction, and keeps nothing in one.
Effect(m, n) ==
    /\ n \in Media
    /\ n.txn = "none" <=> m.txn = "none"
    /\ Kept(m) => Kept(n)
    /\ HasHandler /\ m.txn # "none" => n.disk = m.disk

Outcomes == [srv : Media, ok : BOOLEAN]

\* The outcomes of a method over m.
Effective(m, outcomes) == \A o \in outcomes : o \in Outcomes /\ Effect(m, o.srv)

LEMMA EffectReflexive == ASSUME NEW m \in Media PROVE Effect(m, m)
BY DEF Effect

LEMMA EffectTransitive ==
    ASSUME NEW m, NEW n, NEW k, Effect(m, n), Effect(n, k)
    PROVE  Effect(m, k)
BY DEF Effect

\* The operators that the modules of the records share.
LEMMA SameOperators ==
    ASSUME NEW m, NEW c, NEW u, NEW s, NEW rs, NEW ignore
    PROVE  /\ PG!Write(m, c) = Write(m, c) /\ RD!Write(m, c) = Write(m, c)
           /\ TX!Write(m, c) = Write(m, c) /\ MS!Write(m, c) = Write(m, c)
           /\ PG!PutSensor(c, u, s) = PutSensor(c, u, s)
           /\ RD!PutSensor(c, u, s) = PutSensor(c, u, s)
           /\ RO!PutSensor(c, u, s) = PutSensor(c, u, s)
           /\ TX!PutSensor(c, u, s) = PutSensor(c, u, s)
           /\ MS!PutSensor(c, u, s) = PutSensor(c, u, s)
           /\ PG!PutReadings(c, u, rs) = PutReadings(c, u, rs)
           /\ RD!PutReadings(c, u, rs) = PutReadings(c, u, rs)
           /\ TX!PutReadings(c, u, rs) = PutReadings(c, u, rs)
           /\ MS!PutReadings(c, u, rs) = PutReadings(c, u, rs)
           /\ RD!Without(c, u) = Without(c, u) /\ RO!Without(c, u) = Without(c, u)
           /\ TX!Without(c, u) = Without(c, u) /\ MS!Without(c, u) = Without(c, u)
           /\ PG!Disconnected(c) = Disconnected(c) /\ RD!Disconnected(c) = Disconnected(c)
           /\ RO!Disconnected(c) = Disconnected(c) /\ TX!Disconnected(c) = Disconnected(c)
           /\ PG!Done(m) = Done(m) /\ RD!Done(m) = Done(m) /\ RO!Done(m) = Done(m)
           /\ TX!Done(m) = Done(m) /\ MS!Done(m) = Done(m)
           /\ PG!Thrown(m) = Thrown(m) /\ RD!Thrown(m) = Thrown(m)
           /\ RO!Thrown(m) = Thrown(m) /\ TX!Thrown(m) = Thrown(m)
           /\ MS!Thrown(m) = Thrown(m)
           /\ PG!Handled(m, ignore) = Handled(m, ignore)
BY DEF Write, PG!Write, RD!Write, TX!Write, MS!Write,
       PutSensor, PG!PutSensor, RD!PutSensor, RO!PutSensor, TX!PutSensor, MS!PutSensor,
       PutReadings, PG!PutReadings, RD!PutReadings, TX!PutReadings, MS!PutReadings,
       Without, RD!Without, RO!Without, TX!Without, MS!Without,
       NoReadings, RD!NoReadings, RO!NoReadings, TX!NoReadings, MS!NoReadings,
       Disconnected, PG!Disconnected, RD!Disconnected, RO!Disconnected, TX!Disconnected,
       Done, PG!Done, RD!Done, RO!Done, TX!Done, MS!Done,
       Thrown, PG!Thrown, RD!Thrown, RO!Thrown, TX!Thrown, MS!Thrown,
       Handled, PG!Handled

\* ... and on readings.
LEMMA SameReadings ==
    ASSUME NEW r, NEW q
    PROVE  /\ PG!KeepFirst(r, q) = KeepFirst(r, q) /\ RD!KeepFirst(r, q) = KeepFirst(r, q)
           /\ RO!KeepFirst(r, q) = KeepFirst(r, q) /\ TX!KeepFirst(r, q) = KeepFirst(r, q)
           /\ MS!KeepFirst(r, q) = KeepFirst(r, q)
           /\ PG!Recorded(r) = Recorded(r)
           /\ PG!NoReadings = NoReadings /\ TX!NoReadings = NoReadings
           /\ MS!NoReadings = NoReadings /\ RD!NoReadings = NoReadings
           /\ PG!Nothing = Nothing /\ RD!Nothing = Nothing /\ RO!Nothing = Nothing
           /\ TX!Nothing = Nothing /\ MS!Nothing = Nothing
BY DEF KeepFirst, PG!KeepFirst, RD!KeepFirst, RO!KeepFirst, TX!KeepFirst, MS!KeepFirst,
       Recorded, PG!Recorded,
       NoReadings, PG!NoReadings, RD!NoReadings, RO!NoReadings, TX!NoReadings, MS!NoReadings,
       Nothing, PG!Nothing, RD!Nothing, RO!Nothing, TX!Nothing, MS!Nothing

\* A converted sensor is a sensor.
LEMMA ConvertedType ==
    ASSUME NEW s \in Sensors
    PROVE  /\ RD!Hash(s) \in Sensors /\ RO!Keys(s) \in Sensors
           /\ TX!Line(s) \in Sensors /\ MS!Config(s) \in Sensors
BY ConversionsAssumption
DEF Sensors, RD!Hash, RO!Keys, TX!Line, MS!Config,
    RD!Converted, RO!Converted, TX!Converted, MS!Converted

LEMMA KeepFirstType ==
    ASSUME NEW r \in Readings, NEW q \in Readings
    PROVE  KeepFirst(r, q) \in Readings
BY DEF KeepFirst, Readings

LEMMA NoOperationsType == NoReadings \in Readings /\ NoOperations \in Operations
BY DEF NoReadings, Readings, NoOperations, Operations

LEMMA ContentsType ==
    ASSUME NEW c \in Contents, NEW u \in Uuids, NEW s \in Sensors \cup {None},
           NEW rs \in Readings
    PROVE  /\ PutSensor(c, u, s) \in Contents
           /\ PutReadings(c, u, rs) \in Contents
           /\ Without(c, u) \in Contents
BY NoOperationsType DEF Contents, PutSensor, PutReadings, Without

LEMMA NothingType == Nothing \in Contents
BY NoOperationsType DEF Nothing, Contents

LEMMA MediaContents ==
    ASSUME NEW m \in Media
    PROVE  /\ m.view \in Contents /\ m.disk \in Contents
           /\ m.view.sensors \in [Uuids -> Sensors \cup {None}]
BY DEF Media, Contents

LEMMA MediaParts ==
    ASSUME NEW m \in Media, NEW u \in Uuids
    PROVE  /\ m.view \in Contents /\ m.disk \in Contents
           /\ m.view.readings[u] \in Readings /\ m.disk.readings[u] \in Readings
           /\ m.view.sensors[u] \in Sensors \cup {None}
BY DEF Media, Contents

LEMMA DisconnectedType ==
    ASSUME NEW c \in Contents
    PROVE  Disconnected(c) \in Media
BY DEF Disconnected, Media

LEMMA WriteEffect ==
    ASSUME NEW m \in Media, NEW c \in Contents
    PROVE  Write(m, c) \in Media /\ Effect(m, Write(m, c))
<1>1. CASE m.txn = "none"
  BY <1>1 DEF Write, Media, Effect, Kept
<1>2. CASE m.txn # "none"
  BY <1>2 DEF Write, Media, Effect, Kept
<1>. QED BY <1>1, <1>2

LEMMA DoneIs ==
    ASSUME NEW n \in Media, NEW o \in Done(n)
    PROVE  o \in Outcomes /\ o.srv = n /\ o.ok = TRUE
<1>1. o = [srv |-> n, ok |-> TRUE]
  BY DEF Done
<1>. QED BY <1>1 DEF Outcomes

LEMMA EffectiveSets ==
    ASSUME NEW m, NEW n \in Media, Effect(m, n), NEW ignore \in BOOLEAN
    PROVE  Effective(m, Done(n)) /\ Effective(m, Thrown(n)) /\ Effective(m, Handled(n, ignore))
BY DEF Effective, Done, Thrown, Handled, Outcomes

(* PostgreSQL *)

LEMMA AbortEffect ==
    ASSUME NEW m \in Media, store.kind = "postgresql"
    PROVE  PG!Abort(m) \in Media /\ Effect(m, PG!Abort(m))
<1>1. CASE m.txn = "none"
  BY <1>1, EffectReflexive DEF PG!Abort
<1>2. CASE m.txn # "none"
  BY <1>2 DEF PG!Abort, Media, Effect, Kept
<1>. QED BY <1>1, <1>2

LEMMA PGSensorsEffect ==
    ASSUME store.kind = "postgresql", NEW m \in Media, NEW u \in Uuids,
           NEW s \in Sensors \cup {None}
    PROVE  /\ Effective(m, PG!AddSensorRecord(m, u, s))
           /\ Effective(m, PG!RemoveSensorRecord(m, u))
           /\ Effective(m, PG!UpdateSensorRecord(m, u, s))
<1>1. m.view \in Contents
  BY MediaParts
<1>2. PutSensor(m.view, u, s) \in Contents /\ PutSensor(m.view, u, None) \in Contents
  BY <1>1, ContentsType, NoOperationsType
<1>3. \A c \in {PutSensor(m.view, u, s), PutSensor(m.view, u, None)} :
         Write(m, c) \in Media /\ Effect(m, Write(m, c))
  BY <1>2, WriteEffect
<1>4. \A n \in Media : Effect(m, n) => Effective(m, Done(n)) /\ Effective(m, Thrown(n))
  BY EffectiveSets
<1>5. Effective(m, PG!AddSensorRecord(m, u, s))
  BY <1>3, <1>4, AbortEffect, SameOperators DEF PG!AddSensorRecord
<1>6. Effective(m, PG!RemoveSensorRecord(m, u))
  BY <1>3, <1>4, EffectReflexive, SameOperators DEF PG!RemoveSensorRecord
<1>7. Effective(m, PG!UpdateSensorRecord(m, u, s))
  BY <1>3, <1>4, EffectReflexive, SameOperators DEF PG!UpdateSensorRecord
<1>. QED BY <1>5, <1>6, <1>7

LEMMA PGReadingsEffect ==
    ASSUME store.kind = "postgresql", NEW m \in Media, NEW u \in Uuids,
           NEW rs \in Readings, NEW ignore \in BOOLEAN
    PROVE  /\ Effective(m, PG!InsertReadings(m, u, rs, ignore))
           /\ Effective(m, PG!UpdateReadings(m, u, rs, ignore))
<1>1. m.view \in Contents /\ m.view.readings[u] \in Readings
  BY MediaParts
<1>2. ASSUME NEW q \in Readings
      PROVE  /\ Write(m, PutReadings(m.view, u, q)) \in Media
             /\ Effect(m, Write(m, PutReadings(m.view, u, q)))
  BY <1>1, ContentsType, NoOperationsType, WriteEffect
<1>3. ASSUME NEW q \in Readings
      PROVE  /\ Write(m, PutReadings(m.view, u, KeepFirst(m.view.readings[u], q))) \in Media
             /\ Effect(m, Write(m, PutReadings(m.view, u, KeepFirst(m.view.readings[u], q))))
  BY <1>1, <1>2, KeepFirstType
<1>4. \A n \in Media : Effect(m, n) =>
         /\ Effective(m, Done(n)) /\ Effective(m, Thrown(n))
         /\ Effective(m, Handled(n, ignore))
  BY EffectiveSets
<1>5. Effective(m, PG!AddSingleReadings(m, u, rs, ignore))
  <2> DEFINE again == PG!Repeated(m, u, rs)
             before == [t \in Times |-> IF \E r \in again : r <= t THEN None ELSE rs[t]]
  <2>1. before \in Readings /\ (IF ignore THEN rs ELSE before) \in Readings
    BY DEF Readings
  <2>. HIDE DEF before, again
  <2>2. \/ PG!AddSingleReadings(m, u, rs, ignore) = PG!Handled(m, ignore)
        \/ PG!AddSingleReadings(m, u, rs, ignore) = PG!Done(m)
        \/ PG!AddSingleReadings(m, u, rs, ignore) =
             PG!Done(PG!Write(m, PG!PutReadings(m.view, u,
                                     PG!KeepFirst(m.view.readings[u], rs))))
        \/ PG!AddSingleReadings(m, u, rs, ignore) = PG!Handled(PG!Abort(m), ignore)
        \/ PG!AddSingleReadings(m, u, rs, ignore) =
             PG!Handled(PG!Write(m, PG!PutReadings(m.view, u,
                            PG!KeepFirst(m.view.readings[u],
                                         IF ignore THEN rs ELSE before))), ignore)
    BY DEF PG!AddSingleReadings, before, again, PG!NoReadings
  <2>. QED
    BY <1>3, <1>4, <2>1, <2>2, AbortEffect, EffectReflexive, SameOperators, SameReadings
<1>6. Effective(m, PG!AddBulkReadings(m, u, rs, ignore))
  <2>1. \/ PG!AddBulkReadings(m, u, rs, ignore) = PG!Handled(m, ignore)
        \/ PG!AddBulkReadings(m, u, rs, ignore) = PG!Done(PG!Abort(m))
        \/ PG!AddBulkReadings(m, u, rs, ignore) =
             PG!Done(PG!Write(m, PG!PutReadings(m.view, u,
                                     PG!KeepFirst(m.view.readings[u], rs))))
    BY DEF PG!AddBulkReadings
  <2>. QED
    BY <1>3, <1>4, <2>1, AbortEffect, EffectReflexive, SameOperators, SameReadings
<1>7. Effective(m, PG!UpdateReadings(m, u, rs, ignore))
  <2> DEFINE moved == [t \in Times |-> IF \E p \in PG!Latest(rs) : p[1] = t THEN rs[t]
                                       ELSE None]
  <2>1. moved \in Readings
    BY DEF Readings
  <2>. HIDE DEF moved
  <2>2. \/ PG!UpdateReadings(m, u, rs, ignore) = PG!Handled(PG!Abort(m), ignore)
        \/ PG!UpdateReadings(m, u, rs, ignore) = PG!Done(m)
        \/ PG!UpdateReadings(m, u, rs, ignore) =
             PG!Done(PG!Write(m, PG!PutReadings(m.view, u, moved)))
    BY DEF PG!UpdateReadings, moved
  <2>. QED
    BY <1>2, <1>4, <2>1, <2>2, AbortEffect, EffectReflexive, SameOperators
<1>. QED BY <1>5, <1>6, <1>7 DEF PG!InsertReadings

(* Redis *)

LEMMA NoiseEffect ==
    ASSUME NEW m \in Media
    PROVE  RD!Noise(m) \in Media /\ Effect(m, RD!Noise(m))
BY DEF RD!Noise, Media, Effect, Kept

LEMMA NoisyWriteEffect ==
    ASSUME NEW m \in Media, NEW c \in Contents
    PROVE  RD!Noise(Write(m, c)) \in Media /\ Effect(m, RD!Noise(Write(m, c)))
BY WriteEffect, NoiseEffect, EffectTransitive

LEMMA RDSensorsEffect ==
    ASSUME NEW m \in Media, NEW u \in Uuids, NEW b,
           NEW s \in Sensors \cup {None}
    PROVE  /\ s # None => Effective(m, RD!AddSensorRecord(m, b, u, s))
           /\ Effective(m, RD!RemoveSensorRecord(m, b, u))
           /\ s # None => Effective(m, RD!UpdateSensorRecord(m, b, u, s))
<1>. DEFINE h == IF s = None THEN None ELSE RD!Hash(s)
<1>0. h \in Sensors \cup {None} /\ (s # None => RD!Hash(s) = h)
  BY ConvertedType
<1>. HIDE DEF h
<1>1. m.view \in Contents
  BY MediaParts
<1>2. PutSensor(m.view, u, h) \in Contents /\ Without(m.view, u) \in Contents
  BY <1>0, <1>1, ContentsType, NoOperationsType
<1>3. \A c \in {PutSensor(m.view, u, h), Without(m.view, u)} :
         /\ Write(m, c) \in Media /\ Effect(m, Write(m, c))
         /\ RD!Noise(Write(m, c)) \in Media /\ Effect(m, RD!Noise(Write(m, c)))
  BY <1>2, WriteEffect, NoisyWriteEffect
<1>4. \A n \in Media : Effect(m, n) => Effective(m, Done(n)) /\ Effective(m, Thrown(n))
  BY EffectiveSets
<1>5. s # None => Effective(m, RD!AddSensorRecord(m, b, u, s))
  BY <1>0, <1>3, <1>4, EffectReflexive, SameOperators DEF RD!AddSensorRecord
<1>6. Effective(m, RD!RemoveSensorRecord(m, b, u))
  BY <1>3, <1>4, EffectReflexive, SameOperators DEF RD!RemoveSensorRecord
<1>7. s # None => Effective(m, RD!UpdateSensorRecord(m, b, u, s))
  BY <1>0, <1>3, <1>4, EffectReflexive, SameOperators DEF RD!UpdateSensorRecord
<1>. QED BY <1>5, <1>6, <1>7

LEMMA RDReadingsEffect ==
    ASSUME NEW m \in Media, NEW u \in Uuids, NEW rs \in Readings
    PROVE  /\ Effective(m, RD!InsertReadings(m, u, rs))
           /\ Effective(m, RD!UpdateReadings(m, u, rs))
<1> DEFINE c == PutReadings(m.view, u, KeepFirst(rs, m.view.readings[u]))
<1>1. c \in Contents
  BY MediaParts, ContentsType, KeepFirstType, NoOperationsType
<1>2. RD!PutAllReadings(m, u, rs) = Done(Write(m, c))
  BY SameOperators, SameReadings DEF RD!PutAllReadings
<1>. HIDE DEF c
<1>3. Effective(m, Done(Write(m, c)))
  BY <1>1, WriteEffect, EffectiveSets
<1>. QED
  BY <1>2, <1>3
  DEF RD!InsertReadings, RD!UpdateReadings, RD!AddSingleReadings, RD!AddBulkReadings

(* RocksDB *)

LEMMA DirectoryEffect ==
    ASSUME store.kind = "rocksdb", NEW m \in Media, NEW c \in Contents
    PROVE  RO!Directory(m, c) \in Media /\ Effect(m, RO!Directory(m, c))
BY DEF RO!Directory, Media, Contents, Effect, Kept, HasHandler, WithTransactions

LEMMA ROSensorsEffect ==
    ASSUME store.kind = "rocksdb", NEW m \in Media, NEW u \in Uuids,
           NEW s \in Sensors \cup {None}
    PROVE  /\ s # None => Effective(m, RO!AddSensorRecord(m, u, s))
           /\ Effective(m, RO!RemoveSensorRecord(m, u))
           /\ s # None => Effective(m, RO!UpdateSensorRecord(m, u, s))
<1>. DEFINE h == IF s = None THEN None ELSE RO!Keys(s)
<1>0. h \in Sensors \cup {None} /\ (s # None => RO!Keys(s) = h)
  BY ConvertedType
<1>. HIDE DEF h
<1>1. m.view \in Contents /\ m.disk \in Contents
  BY MediaParts
<1>2. PutSensor(m.view, u, h) \in Contents
  BY <1>0, <1>1, ContentsType, NoOperationsType
<1>3. RO!Directory(m, PutSensor(m.view, u, h)) \in Media
      /\ Effect(m, RO!Directory(m, PutSensor(m.view, u, h)))
  BY <1>2, DirectoryEffect
<1>4. \A n \in Media : Effect(m, n) => Effective(m, Done(n)) /\ Effective(m, Thrown(n))
  BY EffectiveSets
<1>5. s # None => Effective(m, RO!AddSensorRecord(m, u, s))
  BY <1>0, <1>3, <1>4, EffectReflexive, SameOperators DEF RO!AddSensorRecord
<1>6. s # None => Effective(m, RO!UpdateSensorRecord(m, u, s))
  BY <1>0, <1>3, <1>4, EffectReflexive, SameOperators DEF RO!UpdateSensorRecord
<1>7. Effective(m, RO!RemoveSensorRecord(m, u))
  <2> DEFINE n == [view |-> Without(m.view, u), disk |-> Without(m.disk, u), txn |-> m.txn,
                   prepared |-> m.prepared, noisy |-> m.noisy]
  <2>1. Without(m.view, u) \in Contents /\ Without(m.disk, u) \in Contents
    BY <1>0, <1>1, ContentsType, NoOperationsType
  <2>2. n \in Media /\ Effect(m, n)
    BY <2>1 DEF Media, Effect, Kept, HasHandler, WithTransactions
  <2>3. RO!RemoveSensorRecord(m, u) = Done(n)
    BY SameOperators DEF RO!RemoveSensorRecord
  <2>. HIDE DEF n
  <2>. QED BY <1>4, <2>2, <2>3
<1>. QED BY <1>5, <1>6, <1>7

LEMMA ROReadingsEffect ==
    ASSUME store.kind = "rocksdb", NEW m \in Media, NEW u \in Uuids, NEW rs \in Readings
    PROVE  /\ Effective(m, RO!InsertReadings(m, u, rs))
           /\ Effective(m, RO!UpdateReadings(m, u, rs))
<1> DEFINE n == [m EXCEPT !.view.readings[u] = KeepFirst(rs, m.view.readings[u])]
<1>1. KeepFirst(rs, m.view.readings[u]) \in Readings
  BY MediaParts, KeepFirstType
<1>2. n \in Media /\ Effect(m, n)
  BY <1>1 DEF Media, Contents, Effect, Kept, HasHandler, WithTransactions
<1>3. RO!PutValues(m, u, rs) = Done(n)
  BY SameOperators, SameReadings DEF RO!PutValues
<1>. HIDE DEF n
<1>4. Effective(m, Done(n))
  BY <1>2, EffectiveSets
<1>. QED
  BY <1>3, <1>4
  DEF RO!InsertReadings, RO!UpdateReadings, RO!AddSingleReadings, RO!AddBulkReadings

(* Text files *)

LEMMA TXSensorsEffect ==
    ASSUME NEW m \in Media, NEW u \in Uuids,
           NEW s \in Sensors \cup {None}
    PROVE  /\ s # None => Effective(m, TX!AddSensorRecord(m, u, s))
           /\ Effective(m, TX!RemoveSensorRecord(m, u))
           /\ s # None => Effective(m, TX!UpdateSensorRecord(m, u, s))
<1>. DEFINE h == IF s = None THEN None ELSE TX!Line(s)
<1>0. h \in Sensors \cup {None} /\ (s # None => TX!Line(s) = h)
  BY ConvertedType
<1>. HIDE DEF h
<1>1. m.view \in Contents
  BY MediaParts
<1>2. PutSensor(m.view, u, h) \in Contents /\ Without(m.view, u) \in Contents
  BY <1>0, <1>1, ContentsType, NoOperationsType
<1>3. \A c \in {PutSensor(m.view, u, h), Without(m.view, u)} :
         Write(m, c) \in Media /\ Effect(m, Write(m, c))
  BY <1>2, WriteEffect
<1>4. \A n \in Media : Effect(m, n) => Effective(m, Done(n)) /\ Effective(m, Thrown(n))
  BY EffectiveSets
<1>5. s # None => Effective(m, TX!AddSensorRecord(m, u, s))
  BY <1>0, <1>3, <1>4, EffectReflexive, SameOperators DEF TX!AddSensorRecord
<1>6. Effective(m, TX!RemoveSensorRecord(m, u))
  BY <1>3, <1>4, EffectReflexive, SameOperators DEF TX!RemoveSensorRecord
<1>7. s # None => Effective(m, TX!UpdateSensorRecord(m, u, s))
  BY <1>0, <1>3, <1>4, EffectReflexive, SameOperators DEF TX!UpdateSensorRecord
<1>. QED BY <1>5, <1>6, <1>7

LEMMA TXReadingsEffect ==
    ASSUME NEW m \in Media, NEW u \in Uuids, NEW rs \in Readings
    PROVE  /\ Effective(m, TX!InsertReadings(m, u, rs))
           /\ Effective(m, TX!UpdateReadings(m, u, rs))
<1> DEFINE c == PutReadings(m.view, u, KeepFirst(m.view.readings[u], rs))
<1>1. c \in Contents
  BY MediaParts, ContentsType, KeepFirstType, NoOperationsType
<1>2. \/ TX!AppendReadings(m, u, rs) = Thrown(m)
      \/ TX!AppendReadings(m, u, rs) = Done(Write(m, c))
  BY SameOperators, SameReadings DEF TX!AppendReadings
<1>. HIDE DEF c
<1>3. Effective(m, Done(Write(m, c))) /\ Effective(m, Done(m)) /\ Effective(m, Thrown(m))
  BY <1>1, WriteEffect, EffectReflexive, EffectiveSets
<1>4. Effective(m, TX!AppendReadings(m, u, rs))
  BY <1>2, <1>3
<1>. QED
  BY <1>3, <1>4, SameOperators
  DEF TX!InsertReadings, TX!UpdateReadings, TX!AddSingleReadings, TX!AddBulkReadings

(* The mSG server *)

LEMMA RequestEffect ==
    ASSUME NEW m \in Media, NEW results, \A n \in results : n \in Media /\ Effect(m, n)
    PROVE  Effective(m, MS!Request(m, results))
<1>1. \A n \in {m} \cup results : Effective(m, MS!Done(n)) /\ Effective(m, MS!Thrown(n))
  BY EffectReflexive, EffectiveSets, SameOperators
<1>2. ASSUME NEW o \in MS!Request(m, results)
      PROVE  \E n \in {m} \cup results : o \in MS!Done(n) \/ o \in MS!Thrown(n)
  BY DEF MS!Request
<1>. QED BY <1>1, <1>2 DEF Effective

LEMMA MSSensorsEffect ==
    ASSUME NEW m \in Media, NEW u \in Uuids,
           NEW s \in Sensors \cup {None}
    PROVE  /\ s # None => Effective(m, MS!AddSensorRecord(m, u, s))
           /\ Effective(m, MS!RemoveSensorRecord(m, u))
           /\ s # None => Effective(m, MS!UpdateSensorRecord(m, u, s))
<1>. DEFINE h == IF s = None THEN None ELSE MS!Config(s)
<1>0. h \in Sensors \cup {None} /\ (s # None => MS!Config(s) = h)
  BY ConvertedType
<1>. HIDE DEF h
<1>1. m.view \in Contents
  BY MediaParts
<1>2. PutSensor(m.view, u, h) \in Contents /\ Without(m.view, u) \in Contents
  BY <1>0, <1>1, ContentsType, NoOperationsType
<1>3. \A c \in {PutSensor(m.view, u, h), Without(m.view, u)} :
         Write(m, c) \in Media /\ Effect(m, Write(m, c))
  BY <1>2, WriteEffect
<1>4. s # None => Effective(m, MS!UpdateSensorRecord(m, u, s))
  BY <1>0, <1>3, RequestEffect, SameOperators DEF MS!UpdateSensorRecord, MS!Posted
<1>5. Effective(m, MS!RemoveSensorRecord(m, u))
  BY <1>3, RequestEffect, SameOperators DEF MS!RemoveSensorRecord
<1>. QED BY <1>4, <1>5 DEF MS!AddSensorRecord

LEMMA MergedEffect ==
    ASSUME NEW m \in Media, NEW u \in Uuids, NEW rs \in Readings,
           NEW n \in MS!Merged(m, u, rs)
    PROVE  n \in Media /\ Effect(m, n)
<1>1. m.view.readings[u] \in Readings /\ m.view \in Contents
  BY MediaParts
<1>2. PICK new \in {KeepFirst(m.view.readings[u], rs), KeepFirst(rs, m.view.readings[u])} :
         n = Write(m, PutReadings(m.view, u, new))
  BY SameOperators, SameReadings DEF MS!Merged
<1>3. PutReadings(m.view, u, new) \in Contents
  BY <1>1, KeepFirstType, ContentsType, NoOperationsType
<1>. QED BY <1>2, <1>3, WriteEffect

LEMMA MSReadingsEffect ==
    ASSUME NEW m \in Media, NEW u \in Uuids, NEW rs \in Readings, NEW ignore \in BOOLEAN
    PROVE  /\ Effective(m, MS!InsertReadings(m, u, rs, ignore))
           /\ Effective(m, MS!UpdateReadings(m, u, rs, ignore))
<1>1. Effective(m, MS!Request(m, MS!Merged(m, u, rs)))
  BY MergedEffect, RequestEffect
<1>2. ASSUME NEW o \in MS!PostReadings(m, u, rs, ignore)
      PROVE  o \in Outcomes /\ Effect(m, o.srv)
  <2>1. PICK r \in MS!Request(m, MS!Merged(m, u, rs)) : o = [r EXCEPT !.ok = r.ok \/ ignore]
    BY DEF MS!PostReadings
  <2>2. r \in Outcomes /\ Effect(m, r.srv)
    BY <1>1 DEF Effective
  <2>3. (r.ok \/ ignore) \in BOOLEAN
    OBVIOUS
  <2>. QED BY <2>1, <2>2, <2>3 DEF Outcomes
<1>3. Effective(m, MS!PostReadings(m, u, rs, ignore))
  BY <1>2 DEF Effective
<1>4. Effective(m, MS!Done(m))
  BY EffectReflexive, EffectiveSets, SameOperators
<1>. QED
  BY <1>3, <1>4
  DEF MS!InsertReadings, MS!UpdateReadings, MS!AddSingleReading, MS!AddBulkReadings

-----------------------------------------------------------------------------
(* The virtual methods, of whichever store it is *)

LEMMA KindType == store \in Stores => store.kind \in Kinds /\ store.auto \in BOOLEAN
BY StoresAssumption

LEMMA SensorsEffect ==
    ASSUME store \in Stores, NEW m \in Media, NEW u \in Uuids,
           NEW s \in Sensors \cup {None}
    PROVE  /\ s # None => Effective(m, AddSensorRecord(m, u, s))
           /\ Effective(m, RemoveSensorRecord(m, u))
           /\ s # None => Effective(m, UpdateSensorRecord(m, u, s))
<1>1. CASE store.kind = "postgresql"
  BY <1>1, PGSensorsEffect DEF AddSensorRecord, RemoveSensorRecord, UpdateSensorRecord
<1>2. CASE store.kind = "redis"
  BY <1>2, RDSensorsEffect DEF AddSensorRecord, RemoveSensorRecord, UpdateSensorRecord
<1>3. CASE store.kind = "rocksdb"
  BY <1>3, ROSensorsEffect DEF AddSensorRecord, RemoveSensorRecord, UpdateSensorRecord
<1>4. CASE store.kind = "txt"
  BY <1>4, TXSensorsEffect DEF AddSensorRecord, RemoveSensorRecord, UpdateSensorRecord
<1>5. CASE store.kind = "msg"
  BY <1>5, MSSensorsEffect DEF AddSensorRecord, RemoveSensorRecord, UpdateSensorRecord
<1>. QED BY <1>1, <1>2, <1>3, <1>4, <1>5, KindType DEF Kinds

LEMMA ReadingsEffect ==
    ASSUME store \in Stores, NEW m \in Media, NEW u \in Uuids, NEW rs \in Readings,
           NEW ignore \in BOOLEAN
    PROVE  /\ Effective(m, InsertReadings(m, u, rs, ignore))
           /\ Effective(m, UpdateReadingRecords(m, u, rs, ignore))
<1>1. CASE store.kind = "postgresql"
  BY <1>1, PGReadingsEffect DEF InsertReadings, UpdateReadingRecords
<1>2. CASE store.kind = "redis"
  BY <1>2, RDReadingsEffect DEF InsertReadings, UpdateReadingRecords
<1>3. CASE store.kind = "rocksdb"
  BY <1>3, ROReadingsEffect DEF InsertReadings, UpdateReadingRecords
<1>4. CASE store.kind = "txt"
  BY <1>4, TXReadingsEffect DEF InsertReadings, UpdateReadingRecords
<1>5. CASE store.kind = "msg"
  BY <1>5, MSReadingsEffect DEF InsertReadings, UpdateReadingRecords
<1>. QED BY <1>1, <1>2, <1>3, <1>4, <1>5, KindType DEF Kinds

(* Life cycle *)

\* What a Prepare leaves: the medium, and the sensors it read.
Preparations == [srv : Media, ok : BOOLEAN, sensors : [Uuids -> Sensors \cup {None}]]

LEMMA PreparesEffect ==
    ASSUME store \in Stores, NEW m \in Media, NEW p \in Prepares(m)
    PROVE  p \in Preparations /\ Effect(m, p.srv)
<1>1. m.view.sensors \in [Uuids -> Sensors \cup {None}]
      /\ Nothing.sensors \in [Uuids -> Sensors \cup {None}]
  BY MediaContents, NothingType DEF Contents
<1>2. Effect(m, m)
  BY EffectReflexive
<1>3. CASE store.kind = "postgresql"
  <2> DEFINE n == PG!PrepareStatements(m)
  <2>1. [m EXCEPT !.prepared = TRUE] \in Media /\ Effect(m, [m EXCEPT !.prepared = TRUE])
    BY DEF Media, Effect, Kept
  <2>2. n.srv \in Media /\ Effect(m, n.srv) /\ n.ok \in BOOLEAN
    BY <1>3, <2>1, AbortEffect DEF PG!PrepareStatements
  <2>3. p = [srv |-> n.srv, ok |-> n.ok, sensors |-> PG!GetSensorRecords(n.srv)]
    BY <1>3 DEF Prepares, PG!Prepare
  <2>. HIDE DEF n
  <2>4. n.srv.view.sensors \in [Uuids -> Sensors \cup {None}]
    BY <2>2, MediaContents DEF Contents
  <2>5. PG!GetSensorRecords(n.srv) \in [Uuids -> Sensors \cup {None}]
    BY <1>1, <2>4, SameReadings DEF PG!GetSensorRecords
  <2>. QED BY <2>2, <2>3, <2>5 DEF Preparations
<1>4. CASE store.kind = "redis"
  <2>1. p = [srv |-> RD!Noise(m), ok |-> TRUE, sensors |-> RD!GetSensorRecords(m)]
    BY <1>4 DEF Prepares, RD!Prepare
  <2>2. RD!GetSensorRecords(m) \in [Uuids -> Sensors \cup {None}]
    BY <1>1, SameReadings DEF RD!GetSensorRecords, RD!Visible
  <2>. QED BY <2>1, <2>2, NoiseEffect DEF Preparations
<1>5. CASE store.kind = "rocksdb"
  <2>1. p = [srv |-> m, ok |-> \A u \in Uuids : m.view.sensors[u] = None,
             sensors |-> Nothing.sensors]
    BY <1>5, SameReadings DEF Prepares, RO!Prepare
  <2>. QED BY <1>1, <1>2, <2>1 DEF Preparations
<1>6. CASE store.kind = "txt"
  <2>1. p = [srv |-> m, ok |-> TRUE, sensors |-> Nothing.sensors]
    BY <1>6, SameReadings DEF Prepares, TX!Prepare, TX!GetSensorRecords
  <2>. QED BY <1>1, <1>2, <2>1 DEF Preparations
<1>7. CASE store.kind = "msg"
  <2>1. PICK r \in MS!Request(m, {m}) : p = [srv |-> m, ok |-> r.ok, sensors |-> m.view.sensors]
    BY <1>7 DEF Prepares, MS!Prepare
  <2>2. r \in Outcomes
    BY <1>2, RequestEffect DEF Effective
  <2>. QED BY <1>1, <1>2, <2>1, <2>2 DEF Preparations, Outcomes
<1>. QED BY <1>3, <1>4, <1>5, <1>6, <1>7, KindType DEF Kinds

\* Nobody is in a transaction once the store is closed, created or dropped.
LEMMA LifeCycleEffect ==
    ASSUME store \in Stores, NEW m \in Media, ~HasHandler => m.txn = "none",
           Kept(m), NEW n
    PROVE  /\ n = Closed(m) \/ n \in Disposals(m) => n \in Media /\ n.txn = "none" /\ Kept(n)
           /\ \A i \in Initializations(m) :
                 i \in Outcomes /\ (i.srv.txn = "none" <=> m.txn = "none") /\ Kept(i.srv)
<1>1. m.disk \in Contents /\ m.view \in Contents /\ Nothing \in Contents
  BY MediaContents, NothingType
<1>2. \A c \in Contents : /\ Disconnected(c) \in Media
                          /\ Disconnected(c).txn = "none" /\ Kept(Disconnected(c))
  BY DisconnectedType DEF Disconnected, Kept
<1>3. Write(m, Nothing) \in Media /\ Effect(m, Write(m, Nothing))
  BY <1>1, WriteEffect
<1>4. Write(m, Nothing).disk \in Contents
  BY <1>3, MediaContents
<1>5. \A i \in Done(m) : i \in Outcomes /\ i.srv = m
  BY DoneIs
<1>6. CASE store.kind = "postgresql"
  <2>1. /\ n = Closed(m) => n = Disconnected(m.disk)
        /\ n \in Disposals(m) => n = Disconnected(Write(m, Nothing).disk)
    BY <1>6, SameOperators, SameReadings DEF Closed, Disposals, PG!Close, PG!Dispose
  <2>2. Initializations(m) = Done(m)
    BY <1>6 DEF Initializations, WithTransactions
  <2>. QED BY <1>1, <1>2, <1>4, <1>5, <2>1, <2>2
<1>7. CASE store.kind = "redis"
  <2>1. /\ n = Closed(m) => n = Disconnected(m.disk)
        /\ n \in Disposals(m) => n = Disconnected(Write(m, Nothing).disk)
    BY <1>7, SameOperators, SameReadings DEF Closed, Disposals, RD!Close, RD!Dispose
  <2>2. Initializations(m) = Done(m)
    BY <1>7 DEF Initializations, WithTransactions
  <2>. QED BY <1>1, <1>2, <1>4, <1>5, <2>1, <2>2
<1>8. CASE store.kind = "rocksdb"
  <2>1. m.txn = "none"
    BY <1>8 DEF HasHandler, WithTransactions
  <2>2. \A i \in Done(Disconnected(Nothing)) : i \in Outcomes /\ i.srv = Disconnected(Nothing)
    BY <1>1, <1>2, DoneIs
  <2>. QED
    BY <1>1, <1>2, <1>8, <2>1, <2>2, SameOperators, SameReadings
    DEF Closed, Disposals, Initializations, RO!Close, RO!Dispose, RO!Initialize, WithTransactions
<1>9. CASE store.kind = "txt"
  <2>1. m.txn = "none"
    BY <1>9 DEF HasHandler, WithTransactions
  <2>2. \A i \in Done(Disconnected(Nothing)) : i \in Outcomes /\ i.srv = Disconnected(Nothing)
    BY <1>1, <1>2, DoneIs
  <2>. QED
    BY <1>1, <1>2, <1>9, <2>1, <2>2, SameOperators, SameReadings
    DEF Closed, Disposals, Initializations, TX!Close, TX!Dispose, TX!Initialize, WithTransactions
<1>10. CASE store.kind = "msg"
  <2>1. m.txn = "none"
    BY <1>10 DEF HasHandler, WithTransactions
  <2>2. Effect(m, m)
    BY EffectReflexive
  <2>3. Effective(m, MS!Request(m, {m})) /\ Effective(m, MS!Request(m, {Write(m, Nothing)}))
    BY <1>3, <2>2, RequestEffect
  <2>4. \A i \in Initializations(m) : i \in Outcomes /\ Effect(m, i.srv)
    BY <1>10, <2>3 DEF Initializations, MS!Initialize, WithTransactions, Effective
  <2>5. n \in Disposals(m) => n \in Media /\ Effect(m, n)
    <3>1. Disposals(m) = {r.srv : r \in MS!Request(m, {Write(m, Nothing)})}
      BY <1>10, SameOperators, SameReadings DEF Disposals, MS!Dispose, MS!Posted
    <3>. QED BY <2>3, <3>1 DEF Effective, Outcomes
  <2>6. n = Closed(m) => n = m
    BY <1>10 DEF Closed, MS!Close
  <2>. QED BY <2>1, <2>4, <2>5, <2>6 DEF Effect
<1>. QED BY <1>6, <1>7, <1>8, <1>9, <1>10, KindType DEF Kinds

-----------------------------------------------------------------------------
(* Transactions *)

LEMMA BeginIs ==
    ASSUME HasHandler, NEW m \in Media
    PROVE  /\ Begin(m).srv \in Media /\ Begin(m).ok \in BOOLEAN
           /\ Begin(m).srv.view = m.view /\ Begin(m).srv.disk = m.disk
           /\ Begin(m).srv.txn # "none"
           /\ m.txn = "none" => Begin(m).ok
           /\ m.txn # "none" => Begin(m).srv.txn # "none"
           /\ ~Begin(m).ok => Begin(m).srv = m
<1>1. [m EXCEPT !.txn = "open"] \in Media
  BY DEF Media
<1>2. CASE store.kind = "redis"
  BY <1>1, <1>2 DEF Begin, RD!Begin, Media
<1>3. CASE store.kind # "redis"
  BY <1>1, <1>3 DEF Begin, PG!Begin, PG!Aborted, Media
<1>. QED BY <1>2, <1>3

LEMMA CommitIs ==
    ASSUME NEW m \in Media
    PROVE  /\ Commit(m).srv \in Media /\ Commit(m).ok \in BOOLEAN
           /\ Commit(m).srv.txn = "none"
           /\ Commit(m).srv.view = Commit(m).srv.disk
           /\ Commit(m).srv.disk \in {m.disk, m.view}
           /\ store.kind # "redis" => Commit(m).ok
<1>1. CASE store.kind = "redis"
  BY <1>1 DEF Commit, RD!Commit, RD!Queueing, Media
<1>2. CASE store.kind # "redis"
  <2>1. \E c \in {m.disk, m.view} :
           Commit(m) = [srv |-> [m EXCEPT !.disk = c, !.view = c, !.txn = "none"], ok |-> TRUE]
    BY <1>2 DEF Commit, PG!Commit
  <2>2. PICK c \in {m.disk, m.view} :
           Commit(m) = [srv |-> [m EXCEPT !.disk = c, !.view = c, !.txn = "none"], ok |-> TRUE]
    BY <2>1
  <2>3. c \in Contents
    BY MediaContents
  <2> DEFINE n == [m EXCEPT !.disk = c, !.view = c, !.txn = "none"]
  <2>4. n \in Media /\ n.txn = "none" /\ n.view = c /\ n.disk = c
    BY <2>3 DEF Media
  <2>5. Commit(m) = [srv |-> n, ok |-> TRUE]
    BY <2>2
  <2>. HIDE DEF n
  <2>. QED BY <2>4, <2>5
<1>. QED BY <1>1, <1>2

LEMMA RollbackIs ==
    ASSUME NEW m \in Media
    PROVE  /\ Rollback(m).srv \in Media /\ Rollback(m).ok = TRUE
           /\ Rollback(m).srv.txn = "none"
           /\ Rollback(m).srv.view = m.disk /\ Rollback(m).srv.disk = m.disk
BY DEF Rollback, RD!Rollback, PG!Rollback, Media

LEMMA EndedIs ==
    ASSUME NEW m \in Media, NEW isPending \in BOOLEAN, NEW returned \in BOOLEAN
    PROVE  /\ Ended(m, isPending, returned) \in Media
           /\ ~isPending => Ended(m, isPending, returned) = m
           /\ isPending =>
                 /\ Ended(m, isPending, returned).txn = "none"
                 /\ Ended(m, isPending, returned).view = Ended(m, isPending, returned).disk
                 /\ Ended(m, isPending, returned).disk \in {m.disk, m.view}
                 /\ ~returned => Ended(m, isPending, returned).disk = m.disk
<1>1. CASE ~isPending
  BY <1>1 DEF Ended
<1>2. CASE isPending /\ returned
  <2>1. \/ Ended(m, isPending, returned) = Commit(m).srv
        \/ Ended(m, isPending, returned) = Rollback(Commit(m).srv).srv
    BY <1>2 DEF Ended
  <2>2. Rollback(Commit(m).srv).srv \in Media
        /\ Rollback(Commit(m).srv).srv.txn = "none"
        /\ Rollback(Commit(m).srv).srv.view = Commit(m).srv.disk
        /\ Rollback(Commit(m).srv).srv.disk = Commit(m).srv.disk
    BY CommitIs, RollbackIs
  <2>. QED BY <1>2, <2>1, <2>2, CommitIs
<1>3. CASE isPending /\ ~returned
  <2>1. Ended(m, isPending, returned) = Rollback(m).srv
    BY <1>3 DEF Ended
  <2>2. /\ Rollback(m).srv \in Media /\ Rollback(m).srv.txn = "none"
        /\ Rollback(m).srv.view = m.disk /\ Rollback(m).srv.disk = m.disk
    BY RollbackIs
  <2>. QED BY <1>3, <2>1, <2>2
<1>. QED BY <1>1, <1>2, <1>3

LEMMA StartedIs ==
    ASSUME NEW m \in Media
    PROVE  /\ Started(m).srv \in Media /\ Started(m).ok \in BOOLEAN
           /\ Started(m).srv.view = m.view /\ Started(m).srv.disk = m.disk
           /\ Started(m).ok => HasHandler /\ store.auto
           /\ ~Started(m).ok => Started(m).srv = m
           /\ HasHandler /\ store.auto /\ m.txn = "none" => Started(m).ok
           /\ Kept(m) => Kept(Started(m).srv)
<1>1. CASE HasHandler /\ store.auto
  BY <1>1, BeginIs DEF Started, Kept
<1>2. CASE ~(HasHandler /\ store.auto)
  BY <1>2 DEF Started
<1>. QED BY <1>1, <1>2

\* A whole call: a transaction of its own is over when the call is, and one
\* that goes on has kept nothing yet.
Settles(m, n) ==
    /\ n \in Media
    /\ Kept(m) => Kept(n)
    /\ n.txn # "none" => m.txn # "none" /\ (HasHandler => n.disk = m.disk)
    /\ ~store.auto /\ n.txn = "none" => m.txn = "none"

LEMMA EffectSettles ==
    ASSUME NEW m, NEW n, Effect(m, n)
    PROVE  Settles(m, n)
BY DEF Effect, Settles

LEMMA SettlesTransitive ==
    ASSUME NEW m, NEW n, NEW k, Settles(m, n), Settles(n, k)
    PROVE  Settles(m, k)
BY DEF Settles

LEMMA EndSettles ==
    ASSUME NEW m \in Media, NEW isPending \in BOOLEAN, NEW returned \in BOOLEAN,
           isPending => store.auto
    PROVE  Settles(m, Ended(m, isPending, returned))
<1>1. CASE isPending
  BY <1>1, EndedIs DEF Settles, Kept
<1>2. CASE ~isPending
  BY <1>2, EndedIs, EffectReflexive, EffectSettles
<1>. QED BY <1>1, <1>2

LEMMA CallSettles ==
    ASSUME NEW m \in Media, NEW n, Effect(Started(m).srv, n), NEW returned \in BOOLEAN
    PROVE  Settles(m, Ended(n, Started(m).ok, returned))
<1>1. n \in Media
  BY DEF Effect
<1> DEFINE k == Ended(n, Started(m).ok, returned)
<1>2. CASE Started(m).ok
  <2>1. k \in Media /\ k.txn = "none" /\ k.view = k.disk /\ store.auto
    BY <1>1, <1>2, EndedIs, StartedIs
  <2>. HIDE DEF k
  <2>2. Settles(m, k)
    BY <2>1 DEF Settles, Kept
  <2>. QED BY <2>2 DEF k
<1>3. CASE ~Started(m).ok
  <2>1. k = n /\ Effect(m, n)
    BY <1>1, <1>3, EndedIs, StartedIs
  <2>. QED BY <2>1, EffectSettles
<1>. QED BY <1>2, <1>3, StartedIs

-----------------------------------------------------------------------------
(* Flushing *)

\* A flush leaves the sensors alone, and which of them have operations.
SameSensors(b, c) ==
    /\ c \in Buffers
    /\ c.sensors = b.sensors
    /\ c.ids = b.ids
    /\ \A u \in Uuids : c.ops[u] = None <=> b.ops[u] = None

FlushOutcomes == [srv : Media, buf : Buffers, ok : BOOLEAN]

LEMMA OperationsType ==
    ASSUME NEW b \in Buffers, NEW u \in Uuids, b.ops[u] # None
    PROVE  b.ops[u] \in Operations /\ b.ops[u].ins \in Readings /\ b.ops[u].upd \in Readings
BY DEF Buffers, Operations

LEMMA ClearedSame ==
    ASSUME NEW b \in Buffers, NEW u \in Uuids, b.ops[u] # None
    PROVE  /\ SameSensors(b, ClearOperations(b, {u}))
           /\ SameSensors(b, [b EXCEPT !.ops[u].ins = NoReadings])
<1>1. NoOperations # None /\ NoOperations \in Operations
  BY NoOperationsType, AbsentAssumption
<1>2. SameSensors(b, ClearOperations(b, {u}))
  BY <1>1 DEF ClearOperations, SameSensors, Buffers
<1>3. [b.ops[u] EXCEPT !.ins = NoReadings] \in Operations
  BY OperationsType, NoOperationsType DEF Operations
<1>4. [b.ops[u] EXCEPT !.ins = NoReadings] # None
  BY <1>3, AbsentAssumption
<1>5. [b EXCEPT !.ops[u].ins = NoReadings]
         = [b EXCEPT !.ops = [b.ops EXCEPT ![u] = [b.ops[u] EXCEPT !.ins = NoReadings]]]
  BY DEF Buffers
<1> DEFINE o == [b.ops[u] EXCEPT !.ins = NoReadings]
<1>. HIDE DEF o
<1>6. SameSensors(b, [b EXCEPT !.ops = [b.ops EXCEPT ![u] = o]])
  BY <1>3, <1>4 DEF SameSensors, Buffers, o
<1>. QED BY <1>2, <1>5, <1>6 DEF o

LEMMA SameReflexive == ASSUME NEW b \in Buffers PROVE SameSensors(b, b)
BY DEF SameSensors

LEMMA SameTransitive ==
    ASSUME NEW b, NEW c, NEW d, SameSensors(b, c), SameSensors(c, d)
    PROVE  SameSensors(b, d)
BY DEF SameSensors

LEMMA FlushSensorEffect ==
    ASSUME store \in Stores, NEW m \in Media, NEW b \in Buffers, NEW u \in Uuids,
           NEW ignore \in BOOLEAN, NEW o \in FlushSensor(m, b, u, ignore)
    PROVE  o \in FlushOutcomes /\ Effect(m, o.srv) /\ SameSensors(b, o.buf)
<1> DEFINE half == [b EXCEPT !.ops[u].ins = NoReadings]
           updated(n) == IF b.ops[u].upd = NoReadings THEN Done(n)
                         ELSE UpdateReadingRecords(n, u, b.ops[u].upd, ignore)
           outcome(n, c, ok) == [srv |-> n, buf |-> c, ok |-> ok]
<1>1. \A n, c : \A ok \in BOOLEAN :
         n \in Media /\ SameSensors(b, c) =>
             /\ outcome(n, c, ok) \in FlushOutcomes
             /\ outcome(n, c, ok).srv = n /\ outcome(n, c, ok).buf = c
  BY DEF FlushOutcomes, SameSensors
<1>2. SameSensors(b, b) /\ Effect(m, m)
  BY SameReflexive, EffectReflexive
<1>3. CASE b.ops[u] = None
  <2>1. o = outcome(m, b, FALSE)
    BY <1>3 DEF FlushSensor
  <2>. QED BY <1>1, <1>2, <2>1
<1>4. CASE b.ops[u] # None
  <2>1. /\ SameSensors(b, half) /\ SameSensors(b, ClearOperations(b, {u}))
        /\ b.ops[u].ins \in Readings /\ b.ops[u].upd \in Readings
    BY <1>4, ClearedSame, OperationsType
  <2>2. \A i \in InsertReadings(m, u, b.ops[u].ins, ignore) :
           i \in Outcomes /\ Effect(m, i.srv)
    BY <2>1, ReadingsEffect DEF Effective
  <2>3. \A n \in Media : \A r \in updated(n) : r \in Outcomes /\ Effect(n, r.srv)
    <3>1. ASSUME NEW n \in Media, NEW r \in updated(n)
          PROVE  r \in Outcomes /\ Effect(n, r.srv)
      <4>1. Effective(n, Done(n)) /\ Effective(n, UpdateReadingRecords(n, u, b.ops[u].upd, ignore))
        BY <2>1, EffectReflexive, EffectiveSets, ReadingsEffect
      <4>. QED BY <3>1, <4>1 DEF Effective
    <3>. QED BY <3>1
  <2>4. \/ \E i \in InsertReadings(m, u, b.ops[u].ins, ignore) : o = outcome(i.srv, b, FALSE)
        \/ \E i \in InsertReadings(m, u, b.ops[u].ins, ignore) : \E r \in updated(i.srv) :
              o = outcome(r.srv, IF r.ok THEN ClearOperations(b, {u}) ELSE half, r.ok)
    BY <1>4 DEF FlushSensor
  <2>. HIDE DEF half, updated, outcome
  <2>5. ASSUME NEW i \in InsertReadings(m, u, b.ops[u].ins, ignore), o = outcome(i.srv, b, FALSE)
        PROVE  o \in FlushOutcomes /\ Effect(m, o.srv) /\ SameSensors(b, o.buf)
    <3>1. i.srv \in Media /\ Effect(m, i.srv) /\ FALSE \in BOOLEAN
      BY <2>2 DEF Outcomes
    <3>. QED BY <1>1, <1>2, <2>5, <3>1
  <2>6. ASSUME NEW i \in InsertReadings(m, u, b.ops[u].ins, ignore), NEW r \in updated(i.srv),
               o = outcome(r.srv, IF r.ok THEN ClearOperations(b, {u}) ELSE half, r.ok)
        PROVE  o \in FlushOutcomes /\ Effect(m, o.srv) /\ SameSensors(b, o.buf)
    <3>1. i.srv \in Media /\ r.srv \in Media /\ r.ok \in BOOLEAN
      BY <2>2, <2>3 DEF Outcomes
    <3>2. Effect(m, r.srv)
      BY <2>2, <2>3, <3>1, EffectTransitive
    <3>3. SameSensors(b, IF r.ok THEN ClearOperations(b, {u}) ELSE half)
      BY <2>1
    <3>. QED BY <1>1, <2>6, <3>1, <3>2, <3>3
  <2>. QED BY <2>4, <2>5, <2>6
<1>. QED BY <1>3, <1>4

LEMMA FlushAllEffect ==
    ASSUME store \in Stores, NEW m \in Media, NEW b \in Buffers, NEW ignore \in BOOLEAN,
           NEW o \in FlushAll(m, b, ignore)
    PROVE  o \in FlushOutcomes /\ Effect(m, o.srv) /\ SameSensors(b, o.buf)
<1> DEFINE R == {p \in FlushOutcomes : Effect(m, p.srv) /\ SameSensors(b, p.buf)}
<1>1. FlushStart(m, b) \subseteq R
  BY EffectReflexive, SameReflexive DEF FlushStart, FlushOutcomes
<1>2. ASSUME NEW p \in R, NEW u \in Uuids
      PROVE  FlushSensor(p.srv, p.buf, u, ignore) \subseteq R
  <2>1. p.srv \in Media /\ p.buf \in Buffers
    BY DEF FlushOutcomes
  <2>2. SUFFICES ASSUME NEW q \in FlushSensor(p.srv, p.buf, u, ignore)
                 PROVE  q \in R
    OBVIOUS
  <2>3. q \in FlushOutcomes /\ Effect(p.srv, q.srv) /\ SameSensors(p.buf, q.buf)
    BY <2>1, FlushSensorEffect
  <2>4. Effect(m, q.srv) /\ SameSensors(b, q.buf)
    BY <2>3, EffectTransitive, SameTransitive
  <2>. QED BY <2>3, <2>4
<1>. HIDE DEF R
<1>3. FlushAll(m, b, ignore) \subseteq R
  BY <1>1, <1>2, FlushAllStaysIn DEF Buffered
<1>. QED BY <1>3 DEF R

\* The flush that may be due at the end of a call.
LEMMA FlushIfDueEffect ==
    ASSUME store \in Stores, due \in BOOLEAN, NEW m \in Media, NEW b \in Buffers,
           NEW mayWrite \in BOOLEAN, NEW o \in FlushIfDue(m, b, mayWrite)
    PROVE  /\ o.srv \in Media /\ o.buf \in Buffers /\ o.ok \in BOOLEAN /\ o.due \in BOOLEAN
           /\ Settles(m, o.srv) /\ SameSensors(b, o.buf)
<1>1. CASE ~due \/ ~mayWrite
  <2>1. \/ o = [srv |-> m, buf |-> b, ok |-> TRUE, due |-> FALSE]
        \/ o = [srv |-> m, buf |-> b, ok |-> FALSE, due |-> TRUE]
    BY <1>1 DEF FlushIfDue, Call
  <2>2. PICK ok \in BOOLEAN : o = [srv |-> m, buf |-> b, ok |-> ok, due |-> ~ok]
    BY <2>1
  <2>3. o.srv = m /\ o.buf = b /\ o.ok \in BOOLEAN /\ o.due \in BOOLEAN
    BY <2>2
  <2>. QED BY <2>3, EffectReflexive, EffectSettles, SameReflexive
<1>2. CASE due /\ mayWrite
  <2>1. PICK f \in FlushAll(Started(m).srv, b, TRUE) :
           /\ o.srv = Ended(f.srv, Started(m).ok, f.ok)
           /\ o.buf = f.buf /\ o.ok = f.ok
           /\ o.due = (store.kind = "txt" \/ ~f.ok)
    <3>1. PICK c \in Call(m, LAMBDA n : FlushAll(n, b, TRUE)) :
             o = [srv |-> c.srv, buf |-> c.buf, ok |-> c.ok,
                  due |-> store.kind = "txt" \/ ~c.ok]
      BY <1>2 DEF FlushIfDue
    <3>2. PICK f \in FlushAll(Started(m).srv, b, TRUE) :
             c = [f EXCEPT !.srv = Ended(f.srv, Started(m).ok, f.ok)]
      BY <3>1 DEF Call
    <3>3. f \in FlushOutcomes
      BY StartedIs, FlushAllEffect
    <3>. QED BY <3>1, <3>2, <3>3 DEF FlushOutcomes
  <2>2. Started(m).srv \in Media
    BY StartedIs
  <2>3. f \in FlushOutcomes /\ Effect(Started(m).srv, f.srv) /\ SameSensors(b, f.buf)
    BY <2>2, FlushAllEffect
  <2>4. f.srv \in Media /\ f.buf \in Buffers /\ f.ok \in BOOLEAN
    BY <2>3 DEF FlushOutcomes
  <2>5. Settles(m, o.srv)
    BY <2>1, <2>3, <2>4, CallSettles
  <2>. QED BY <2>1, <2>3, <2>4, <2>5 DEF Settles
<1>. QED BY <1>1, <1>2

-----------------------------------------------------------------------------
(* Types of the buffers *)

LEMMA SetBuffersType ==
    ASSUME NEW b \in Buffers, NEW u \in Uuids, NEW s \in Sensors
    PROVE  /\ SetBuffers(b, u, s) \in Buffers
           /\ SetBuffers(b, u, s).ops[u] # None
<1>1. NoOperations \in Operations /\ NoOperations # None
  BY NoOperationsType, AbsentAssumption
<1> DEFINE other == b.ids[s.ext]
           inherited == IF other = None \/ other = u THEN None ELSE b.ops[other]
           own == IF other = u THEN None ELSE b.ops[u]
           ops == [w \in Uuids |-> IF w = u
                                   THEN IF inherited # None THEN inherited
                                        ELSE IF own # None THEN own ELSE NoOperations
                                   ELSE IF w = other THEN None ELSE b.ops[w]]
           sensors == [w \in Uuids |-> IF w = u THEN s
                                       ELSE IF w = other THEN None ELSE b.sensors[w]]
           ids == [b.ids EXCEPT ![s.ext] = u]
<1>2. other \in Uuids \cup {None}
  BY DEF Buffers, Sensors
<1>3. inherited \in Operations \cup {None} /\ own \in Operations \cup {None}
  BY <1>2 DEF Buffers
<1>. HIDE DEF inherited, own
<1>4. ops \in [Uuids -> Operations \cup {None}] /\ ops[u] # None
  BY <1>1, <1>3 DEF Buffers
<1>5. sensors \in [Uuids -> Sensors \cup {None, NullPtr}]
  BY DEF Buffers
<1>6. ids \in [ExtIds -> Uuids \cup {None}]
  BY DEF Buffers
<1>7. SetBuffers(b, u, s) = [sensors |-> sensors, ops |-> ops, ids |-> ids]
  BY DEF SetBuffers, inherited, own
<1>. HIDE DEF ops, sensors, ids
<1>. QED BY <1>4, <1>5, <1>6, <1>7 DEF Buffers

LEMMA BufferReadingsType ==
    ASSUME NEW b \in Buffers, NEW u \in Uuids, b.ops[u] # None, NEW rs \in Readings, NEW kind
    PROVE  BufferReadings(b, u, rs, kind) \in Buffers
<1> DEFINE o == [ins |-> IF kind = "INSERT" THEN KeepFirst(b.ops[u].ins, rs) ELSE b.ops[u].ins,
                 upd |-> IF kind = "UPDATE" THEN KeepFirst(b.ops[u].upd, rs) ELSE b.ops[u].upd]
<1>1. o \in Operations
  BY OperationsType, KeepFirstType DEF Operations
<1>2. BufferReadings(b, u, rs, kind) = [b EXCEPT !.ops = [b.ops EXCEPT ![u] = o]]
  BY DEF BufferReadings, Buffers
<1>. HIDE DEF o
<1>. QED BY <1>1, <1>2 DEF Buffers

LEMMA LoadBuffersType ==
    ASSUME NEW db \in [Uuids -> Sensors \cup {None}]
    PROVE  LoadBuffers(db) \in Buffers
<1>1. \A u \in Uuids : db[u] # None => [ext |-> db[u].ext, props |-> db[u].props] \in Sensors
  BY DEF Sensors
<1>2. \A e \in ExtIds : (\E u \in Uuids : db[u] # None /\ db[u].ext = e) =>
                           (CHOOSE u \in Uuids : db[u] # None /\ db[u].ext = e) \in Uuids
  OBVIOUS
<1>. QED BY <1>1, <1>2, NoOperationsType DEF LoadBuffers, Buffers

LEMMA OtherBuffersType ==
    /\ EmptyBuffers \in Buffers
    /\ \A b \in Buffers, u \in Uuids : \A e : ClearSensor(b, u, e) \in Buffers
<1>1. EmptyBuffers \in Buffers
  BY DEF EmptyBuffers, Buffers
<1>2. ASSUME NEW b \in Buffers, NEW u \in Uuids, NEW e
      PROVE  ClearSensor(b, u, e) \in Buffers
  BY DEF ClearSensor, Buffers
<1>. QED BY <1>1, <1>2

-----------------------------------------------------------------------------
(***************************************************************************)
(* Handlers and the server.  A transaction is open only while a handler is *)
(* pending, a pending handler belongs to an open store, and with automatic *)
(* commits to the sync that started it.                                    *)
(***************************************************************************)

HandlersInv ==
    /\ BackendTypeOK
    /\ Kept(srv)
    /\ srv.txn # "none" => pending
    /\ pending => HasHandler /\ status = "open"
    /\ store.auto /\ pending => syncing # None
    /\ ~store.auto /\ store.kind = "postgresql" /\ pending => srv.txn # "none"
    /\ syncing # None => status = "open"

\* A step keeps nothing of a transaction that goes on, and begins one with
\* nothing but that.
ServerStep ==
    /\ HasHandler /\ srv.txn # "none" /\ srv'.txn # "none" => srv'.disk = srv.disk
    /\ srv.txn = "none" /\ srv'.txn # "none" => srv'.view = srv.view /\ srv'.disk = srv.disk

LEMMA HandlersInit == Init => HandlersInv
<1>. SUFFICES ASSUME Init PROVE HandlersInv
  OBVIOUS
<1>1. Disconnected(Nothing) \in Media
  BY NothingType, DisconnectedType
<1>2. srv \in Media /\ srv.txn = "none" /\ srv.view = srv.disk
  BY <1>1 DEF Init, Media, Disconnected
<1>. QED BY <1>2, OtherBuffersType DEF Init, HandlersInv, BackendTypeOK, Kept

\* A step that is over when its transaction is.
LEMMA SettledStep ==
    ASSUME HandlersInv, UNCHANGED <<store, pending, status, syncing>>,
           buf' \in Buffers, due' \in BOOLEAN, beat' \in BOOLEAN, Settles(srv, srv')
    PROVE  HandlersInv' /\ ServerStep
<1>1. ServerStep
  BY DEF ServerStep, Settles
<1>2. srv' \in Media /\ Kept(srv)'
  BY DEF Settles, HandlersInv, Kept
<1>. QED BY <1>1, <1>2 DEF HandlersInv, BackendTypeOK, Settles, HasHandler

\* ... and one after which nobody is in a transaction.
LEMMA ClosedStep ==
    ASSUME HandlersInv, UNCHANGED <<store>>, srv' \in Media, srv'.txn = "none", Kept(srv)',
           pending' = FALSE, buf' \in Buffers, due' \in BOOLEAN, beat' \in BOOLEAN,
           status' \in {"open", "closed", "disposed"}, syncing' = None
    PROVE  HandlersInv' /\ ServerStep
BY DEF HandlersInv, BackendTypeOK, ServerStep

LEMMA StartTransactionStep ==
    ASSUME HandlersInv, StartTransaction
    PROVE  HandlersInv' /\ ServerStep
<1>1. /\ srv.txn = "none" /\ srv \in Media /\ store \in Stores /\ status = "open"
      /\ syncing = None
  BY DEF StartTransaction, Idle, HandlersInv, BackendTypeOK
<1>2. HasHandler
  BY <1>1, StoresAssumption DEF StartTransaction, HasHandler
<1>3. /\ srv' \in Media /\ pending' = TRUE /\ srv'.txn # "none"
      /\ srv'.view = srv.view /\ srv'.disk = srv.disk
  BY <1>1, <1>2, BeginIs DEF StartTransaction
<1>4. HasHandler'
  BY <1>2 DEF StartTransaction, HasHandler
<1>. QED
  BY <1>1, <1>3, <1>4
  DEF StartTransaction, HandlersInv, BackendTypeOK, ServerStep, Kept

LEMMA CommitTransactionStep ==
    ASSUME HandlersInv, CommitTransaction
    PROVE  HandlersInv' /\ ServerStep
<1>1. PICK o \in FlushAll(srv, buf, TRUE) :
         LET c == IF o.ok /\ pending THEN Commit(o.srv) ELSE [srv |-> o.srv, ok |-> ~pending]
         IN srv' = c.srv /\ pending' = ~c.ok /\ buf' = o.buf
  BY DEF CommitTransaction
<1>2. srv \in Media /\ buf \in Buffers /\ pending \in BOOLEAN /\ store \in Stores
  BY DEF HandlersInv, BackendTypeOK
<1>3. o \in FlushOutcomes /\ Effect(srv, o.srv) /\ SameSensors(buf, o.buf)
  BY <1>2, FlushAllEffect
<1>4. o.srv \in Media /\ buf' \in Buffers
  BY <1>1, <1>3 DEF FlushOutcomes
<1>5. CASE o.ok /\ pending
  <2>1. srv' = Commit(o.srv).srv /\ pending' = ~Commit(o.srv).ok
    BY <1>1, <1>5
  <2>2. /\ srv' \in Media /\ srv'.txn = "none" /\ srv'.view = srv'.disk
        /\ pending' \in BOOLEAN /\ (store.kind = "postgresql" => ~pending')
    BY <1>4, <2>1, CommitIs
  <2>. QED
    BY <1>4, <1>5, <2>2
    DEF HandlersInv, BackendTypeOK, CommitTransaction, Idle, ServerStep, Kept, HasHandler
<1>6. CASE ~(o.ok /\ pending)
  <2>1. srv' = o.srv /\ pending' = pending
    BY <1>1, <1>2, <1>6
  <2>. QED
    BY <1>3, <1>4, <2>1, EffectSettles, SettledStep
    DEF CommitTransaction, HandlersInv, BackendTypeOK
<1>. QED BY <1>5, <1>6

LEMMA RollbackTransactionStep ==
    ASSUME HandlersInv, RollbackTransaction
    PROVE  HandlersInv' /\ ServerStep
<1> DEFINE r == IF pending THEN Rollback(srv) ELSE [srv |-> srv, ok |-> TRUE]
<1>1. PICK p \in Prepares(r.srv) :
         /\ srv' = p.srv
         /\ buf' = IF p.ok THEN LoadBuffers(p.sensors) ELSE EmptyBuffers
  BY DEF RollbackTransaction
<1>2. pending' = ~r.ok
  BY DEF RollbackTransaction
<1>3. srv \in Media /\ pending \in BOOLEAN /\ store \in Stores
      /\ (srv.txn # "none" => pending) /\ Kept(srv)
  BY DEF HandlersInv, BackendTypeOK
<1>4. r.srv \in Media /\ r.ok = TRUE /\ r.srv.txn = "none" /\ Kept(r.srv)
  BY <1>3, RollbackIs DEF Kept
<1>. HIDE DEF r
<1>5. p \in Preparations /\ Effect(r.srv, p.srv)
  BY <1>3, <1>4, PreparesEffect
<1>6. buf' \in Buffers
  BY <1>1, <1>5, LoadBuffersType, OtherBuffersType DEF Preparations
<1>7. srv' \in Media /\ srv'.txn = "none" /\ Kept(srv)'
  BY <1>1, <1>4, <1>5 DEF Effect, Kept, RollbackTransaction
<1>. QED
  BY <1>2, <1>4, <1>6, <1>7, ClosedStep
  DEF RollbackTransaction, Idle, HandlersInv, BackendTypeOK

(* A sensor method is one call. *)

LEMMA AddSensorIs ==
    ASSUME store \in Stores, srv \in Media, NEW u \in Uuids, NEW s \in Definitions[u],
           AddSensor(u, s)
    PROVE  \E o \in AddSensorRecord(Started(srv).srv, u, s) :
              /\ o \in Outcomes /\ Effect(Started(srv).srv, o.srv)
              /\ srv' = Ended(o.srv, Started(srv).ok, o.ok)
              /\ buf' = IF o.ok THEN SetBuffers(buf, u, s) ELSE buf
              /\ UNCHANGED <<store, pending, due, beat, status, syncing>>
<1>1. PICK o \in AddSensorRecord(Started(srv).srv, u, s) :
         /\ srv' = [o EXCEPT !.srv = Ended(o.srv, Started(srv).ok, o.ok)].srv
         /\ buf' = IF [o EXCEPT !.srv = Ended(o.srv, Started(srv).ok, o.ok)].ok
                   THEN SetBuffers(buf, u, s) ELSE buf
         /\ UNCHANGED <<store, pending, due, beat, status, syncing>>
  BY DEF AddSensor, SensorCall, Call
<1>2. o \in Outcomes /\ Effect(Started(srv).srv, o.srv)
  BY SensorsEffect, StartedIs, ClientsAssumption, AbsentAssumption DEF Effective
<1>. QED BY <1>1, <1>2 DEF Outcomes

LEMMA UpdateSensorIs ==
    ASSUME store \in Stores, srv \in Media, NEW u \in Uuids, NEW s \in Definitions[u],
           UpdateSensor(u, s)
    PROVE  \E o \in UpdateSensorRecord(Started(srv).srv, u, s) :
              /\ o \in Outcomes /\ Effect(Started(srv).srv, o.srv)
              /\ srv' = Ended(o.srv, Started(srv).ok, o.ok)
              /\ buf' = IF o.ok THEN SetBuffers(buf, u, s) ELSE buf
              /\ UNCHANGED <<store, pending, due, beat, status, syncing>>
<1>1. PICK o \in UpdateSensorRecord(Started(srv).srv, u, s) :
         /\ srv' = [o EXCEPT !.srv = Ended(o.srv, Started(srv).ok, o.ok)].srv
         /\ buf' = IF [o EXCEPT !.srv = Ended(o.srv, Started(srv).ok, o.ok)].ok
                   THEN SetBuffers(buf, u, s) ELSE buf
         /\ UNCHANGED <<store, pending, due, beat, status, syncing>>
  BY DEF UpdateSensor, SensorCall, Call
<1>2. o \in Outcomes /\ Effect(Started(srv).srv, o.srv)
  BY SensorsEffect, StartedIs, ClientsAssumption, AbsentAssumption DEF Effective
<1>. QED BY <1>1, <1>2 DEF Outcomes

LEMMA RemoveSensorIs ==
    ASSUME store \in Stores, srv \in Media, NEW u \in Uuids,
           RemoveSensor(u)
    PROVE  \E o \in RemoveSensorRecord(Started(srv).srv, u) :
              /\ o \in Outcomes /\ Effect(Started(srv).srv, o.srv)
              /\ srv' = Ended(o.srv, Started(srv).ok, o.ok)
              /\ buf' = IF o.ok THEN ClearSensor(buf, u, buf.sensors[u].ext) ELSE buf
              /\ UNCHANGED <<store, pending, due, beat, status, syncing>>
<1>1. PICK o \in RemoveSensorRecord(Started(srv).srv, u) :
         /\ srv' = [o EXCEPT !.srv = Ended(o.srv, Started(srv).ok, o.ok)].srv
         /\ buf' = IF [o EXCEPT !.srv = Ended(o.srv, Started(srv).ok, o.ok)].ok
                   THEN ClearSensor(buf, u, buf.sensors[u].ext) ELSE buf
         /\ UNCHANGED <<store, pending, due, beat, status, syncing>>
  BY DEF RemoveSensor, SensorCall, Call
<1>2. o \in Outcomes /\ Effect(Started(srv).srv, o.srv)
  BY SensorsEffect, StartedIs DEF Effective
<1>. QED BY <1>1, <1>2 DEF Outcomes

LEMMA SensorCallStep ==
    ASSUME HandlersInv, UNCHANGED <<store, pending, due, beat, status, syncing>>,
           NEW o \in Outcomes, Effect(Started(srv).srv, o.srv),
           srv' = Ended(o.srv, Started(srv).ok, o.ok), buf' \in Buffers
    PROVE  HandlersInv' /\ ServerStep
<1>1. srv \in Media /\ o.srv \in Media /\ o.ok \in BOOLEAN
  BY DEF HandlersInv, BackendTypeOK, Outcomes
<1>2. Settles(srv, srv')
  BY <1>1, CallSettles
<1>. QED BY <1>2, SettledStep DEF HandlersInv, BackendTypeOK

LEMMA SensorActionStep ==
    ASSUME HandlersInv, NEW u \in Uuids,
           (\E s \in Definitions[u] : AddSensor(u, s) \/ UpdateSensor(u, s)) \/ RemoveSensor(u)
    PROVE  HandlersInv' /\ ServerStep
<1>1. store \in Stores /\ srv \in Media /\ buf \in Buffers
  BY DEF HandlersInv, BackendTypeOK
<1>2. /\ \A s \in Definitions[u] : SetBuffers(buf, u, s) \in Buffers
      /\ ClearSensor(buf, u, buf.sensors[u].ext) \in Buffers
  BY <1>1, SetBuffersType, OtherBuffersType, ClientsAssumption
<1>3. ASSUME NEW s \in Definitions[u], AddSensor(u, s)
      PROVE  HandlersInv' /\ ServerStep
  BY <1>1, <1>2, <1>3, AddSensorIs, SensorCallStep
<1>4. ASSUME NEW s \in Definitions[u], UpdateSensor(u, s)
      PROVE  HandlersInv' /\ ServerStep
  BY <1>1, <1>2, <1>4, UpdateSensorIs, SensorCallStep
<1>5. CASE RemoveSensor(u)
  BY <1>1, <1>2, <1>5, RemoveSensorIs, SensorCallStep
<1>. QED BY <1>3, <1>4, <1>5

(* Readings and flushes *)

LEMMA FlushIs ==
    ASSUME store \in Stores, srv \in Media, buf \in Buffers, NEW ignore \in BOOLEAN,
           Flush(ignore)
    PROVE  \E o \in FlushAll(Started(srv).srv, buf, ignore) :
              /\ o \in FlushOutcomes /\ Effect(Started(srv).srv, o.srv)
              /\ SameSensors(buf, o.buf)
              /\ srv' = Ended(o.srv, Started(srv).ok, o.ok)
              /\ buf' = o.buf
              /\ UNCHANGED <<store, pending, due, beat, status, syncing>>
<1>1. PICK o \in FlushAll(Started(srv).srv, buf, ignore) :
         /\ srv' = [o EXCEPT !.srv = Ended(o.srv, Started(srv).ok, o.ok)].srv
         /\ buf' = [o EXCEPT !.srv = Ended(o.srv, Started(srv).ok, o.ok)].buf
         /\ UNCHANGED <<store, pending, due, beat, status, syncing>>
  BY DEF Flush, Call
<1>2. o \in FlushOutcomes /\ Effect(Started(srv).srv, o.srv) /\ SameSensors(buf, o.buf)
  BY FlushAllEffect, StartedIs
<1>. QED BY <1>1, <1>2 DEF FlushOutcomes

LEMMA ReadingsActionStep ==
    ASSUME HandlersInv,
           \/ \E u \in Uuids : \E rs \in Batches[u], kind \in {"INSERT", "UPDATE"} :
                 AddReadings(u, rs, kind)
           \/ \E ignore \in BOOLEAN : Flush(ignore)
           \/ BeatAndFlush
           \/ \E u \in Uuids : Query(u)
    PROVE  HandlersInv' /\ ServerStep
<1>1. /\ store \in Stores /\ srv \in Media /\ buf \in Buffers
      /\ due \in BOOLEAN /\ beat \in BOOLEAN
  BY DEF HandlersInv, BackendTypeOK
<1>2. ASSUME NEW u \in Uuids, NEW rs \in Batches[u], NEW kind \in {"INSERT", "UPDATE"},
             AddReadings(u, rs, kind)
      PROVE  HandlersInv' /\ ServerStep
  <2> DEFINE b == BufferReadings(buf, u, rs, kind)
  <2>1. rs \in Readings
    BY ClientsAssumption
  <2>2. b \in Buffers
    BY <1>1, <1>2, <2>1, BufferReadingsType DEF AddReadings
  <2>3. PICK o \in FlushIfDue(srv, b, MayWrite) : srv' = o.srv /\ buf' = o.buf /\ due' = o.due
    BY <1>2 DEF AddReadings
  <2>. HIDE DEF b
  <2>4. MayWrite \in BOOLEAN
    BY DEF MayWrite
  <2>5. Settles(srv, srv') /\ buf' \in Buffers /\ due' \in BOOLEAN
    BY <1>1, <2>2, <2>3, <2>4, FlushIfDueEffect
  <2>. QED BY <1>1, <1>2, <2>5, SettledStep DEF AddReadings
<1>3. ASSUME NEW ignore \in BOOLEAN, Flush(ignore)
      PROVE  HandlersInv' /\ ServerStep
  <2>1. PICK o \in FlushAll(Started(srv).srv, buf, ignore) :
              /\ o \in FlushOutcomes /\ Effect(Started(srv).srv, o.srv)
              /\ srv' = Ended(o.srv, Started(srv).ok, o.ok)
              /\ buf' = o.buf
              /\ UNCHANGED <<store, pending, due, beat, status, syncing>>
    BY <1>1, <1>3, FlushIs
  <2>2. o.ok \in BOOLEAN /\ o.buf \in Buffers
    BY <2>1 DEF FlushOutcomes
  <2>3. Settles(srv, srv')
    BY <1>1, <2>1, <2>2, CallSettles
  <2>. QED BY <1>1, <2>1, <2>2, <2>3, SettledStep
<1>4. CASE BeatAndFlush
  <2>1. PICK through \in MS!Heartbeats(beat), o \in FlushAll(srv, buf, TRUE) :
           /\ beat' = (beat /\ ~through)
           /\ srv' = IF through THEN o.srv ELSE srv
           /\ buf' = IF through THEN o.buf ELSE buf
    BY <1>4 DEF BeatAndFlush
  <2>2. o \in FlushOutcomes /\ Effect(srv, o.srv)
    BY <1>1, FlushAllEffect
  <2>3. Settles(srv, srv') /\ buf' \in Buffers /\ beat' \in BOOLEAN
    BY <1>1, <2>1, <2>2, EffectReflexive, EffectSettles DEF FlushOutcomes
  <2>. QED BY <1>1, <1>4, <2>3, SettledStep DEF BeatAndFlush
<1>5. ASSUME NEW u \in Uuids, Query(u)
      PROVE  HandlersInv' /\ ServerStep
  <2>1. PICK o \in FlushSensor(srv, buf, u, TRUE) :
           /\ srv' = IF store.kind = "redis" THEN RD!Queried(o.srv) ELSE o.srv
           /\ buf' = o.buf
    BY <1>5 DEF Query
  <2>2. o \in FlushOutcomes /\ Effect(srv, o.srv)
    BY <1>1, FlushSensorEffect
  <2>3. o.srv \in Media /\ o.buf \in Buffers
    BY <2>2 DEF FlushOutcomes
  <2>4. Effect(srv, srv')
    BY <2>1, <2>2, <2>3, NoiseEffect, EffectTransitive DEF RD!Queried
  <2>. QED BY <1>1, <1>5, <2>1, <2>3, <2>4, EffectSettles, SettledStep DEF Query
<1>. QED BY <1>2, <1>3, <1>4, <1>5

(* Synchronisation *)

SyncedSensor(u) == [ext |-> syncing.todo[u].ext, props |-> syncing.todo[u].props]

\* The sensor of the store that sensor u of the source is.
LocalSensor(u) == IF buf.ids[syncing.todo[u].ext] = None THEN u ELSE buf.ids[syncing.todo[u].ext]

SyncRecords(u) ==
    IF buf.ids[syncing.todo[u].ext] = None THEN AddSensorRecord(srv, u, SyncedSensor(u))
    ELSE IF buf.sensors[LocalSensor(u)].props # syncing.todo[u].props
    THEN UpdateSensorRecord(srv, LocalSensor(u), SyncedSensor(u)) ELSE Done(srv)

SyncBuffers(u) == SetBuffers(buf, LocalSensor(u), SyncedSensor(u))

Copying(u) == syncing.readings /\ syncing.todo[u].readings # NoReadings

SyncBuffered(u) ==
    BufferReadings(SyncBuffers(u), LocalSensor(u), syncing.todo[u].readings, "UPDATE")

LEMMA SyncSensorIs ==
    ASSUME NEW u \in Uuids, SyncSensor(u)
    PROVE  /\ syncing # None /\ syncing.todo[u] # None /\ status = "open"
           /\ UNCHANGED <<store, beat, status>>
           /\ buf.ids[syncing.todo[u].ext] # None =>
                 buf.sensors[buf.ids[syncing.todo[u].ext]] # None
           /\ \E r \in SyncRecords(u) :
                 \/ ~r.ok /\ SyncGoesOn(u, r.srv, FALSE) /\ UNCHANGED <<buf, due>>
                 \/ /\ r.ok /\ ~Copying(u) /\ SyncGoesOn(u, r.srv, TRUE)
                    /\ buf' = SyncBuffers(u) /\ due' = due
                 \/ /\ r.ok /\ Copying(u)
                    /\ \E o \in FlushIfDue(r.srv, SyncBuffered(u), TRUE) :
                          SyncGoesOn(u, o.srv, o.ok) /\ buf' = o.buf /\ due' = o.due
<1>1. /\ syncing # None /\ syncing.todo[u] # None /\ status = "open"
      /\ UNCHANGED <<store, beat, status>>
      /\ buf.ids[syncing.todo[u].ext] # None => buf.sensors[buf.ids[syncing.todo[u].ext]] # None
  BY DEF SyncSensor
<1>2. \E r \in SyncRecords(u) :
         \/ ~r.ok /\ SyncGoesOn(u, r.srv, FALSE) /\ UNCHANGED <<buf, due>>
         \/ /\ r.ok
            /\ \E o \in IF Copying(u) THEN FlushIfDue(r.srv, SyncBuffered(u), TRUE)
                       ELSE {[srv |-> r.srv, buf |-> SyncBuffers(u), ok |-> TRUE, due |-> due]} :
                  SyncGoesOn(u, o.srv, o.ok) /\ buf' = o.buf /\ due' = o.due
  BY DEF SyncSensor, SyncedSensor, LocalSensor, SyncRecords, SyncBuffers, Copying, SyncBuffered
<1>3. PICK r \in SyncRecords(u) :
         \/ ~r.ok /\ SyncGoesOn(u, r.srv, FALSE) /\ UNCHANGED <<buf, due>>
         \/ /\ r.ok
            /\ \E o \in IF Copying(u) THEN FlushIfDue(r.srv, SyncBuffered(u), TRUE)
                       ELSE {[srv |-> r.srv, buf |-> SyncBuffers(u), ok |-> TRUE, due |-> due]} :
                  SyncGoesOn(u, o.srv, o.ok) /\ buf' = o.buf /\ due' = o.due
  BY <1>2
<1>4. ASSUME NEW o, o = [srv |-> r.srv, buf |-> SyncBuffers(u), ok |-> TRUE, due |-> due],
             SyncGoesOn(u, o.srv, o.ok)
      PROVE  SyncGoesOn(u, r.srv, TRUE) /\ o.buf = SyncBuffers(u) /\ o.due = due
  BY <1>4 DEF SyncGoesOn
<1>. QED BY <1>1, <1>3, <1>4

\* The types of what a sync works on.
LEMMA SyncTypes ==
    ASSUME BackendTypeOK, NEW u \in Uuids, syncing # None, syncing.todo[u] # None
    PROVE  /\ SyncedSensor(u) \in Sensors /\ syncing.todo[u].readings \in Readings
           /\ LocalSensor(u) \in Uuids
           /\ Effective(srv, SyncRecords(u))
           /\ SyncBuffers(u) \in Buffers /\ SyncBuffered(u) \in Buffers
           /\ [syncing EXCEPT !.todo[u] = None] \in Syncs
<1>1. syncing \in Syncs /\ syncing.todo[u] \in Rows /\ syncing.todo[u].readings # None
  BY DEF BackendTypeOK, Syncs, WholeDatabases, Databases, HasTable
<1>2. SyncedSensor(u) \in Sensors /\ syncing.todo[u].readings \in Readings
  BY <1>1 DEF SyncedSensor, Rows, Sensors
<1>3. LocalSensor(u) \in Uuids
  BY <1>1 DEF LocalSensor, BackendTypeOK, Buffers, Rows
<1>4. Effective(srv, SyncRecords(u))
  <2>1. store \in Stores /\ srv \in Media
    BY DEF BackendTypeOK
  <2>2. Effective(srv, Done(srv))
    BY <2>1, EffectReflexive, EffectiveSets
  <2>. QED BY <1>2, <1>3, <2>1, <2>2, SensorsEffect, AbsentAssumption DEF SyncRecords
<1>5. SyncBuffers(u) \in Buffers /\ SyncBuffers(u).ops[LocalSensor(u)] # None
  BY <1>2, <1>3, SetBuffersType DEF SyncBuffers, BackendTypeOK
<1>6. SyncBuffered(u) \in Buffers
  BY <1>2, <1>3, <1>5, BufferReadingsType DEF SyncBuffered
<1>7. [syncing EXCEPT !.todo[u] = None] \in Syncs
  BY <1>1 DEF Syncs, WholeDatabases, Databases, HasTable
<1>. QED BY <1>2, <1>3, <1>4, <1>5, <1>6, <1>7

LEMMA SyncGoesOnStep ==
    ASSUME HandlersInv, NEW u \in Uuids, NEW m, NEW ok \in BOOLEAN, SyncGoesOn(u, m, ok),
           Settles(srv, m), syncing # None, status = "open", buf' \in Buffers,
           due' \in BOOLEAN, UNCHANGED <<store, beat, status>>
    PROVE  HandlersInv' /\ ServerStep
<1>1. m \in Media
  BY DEF Settles
<1>2. CASE ok
  <2>1. /\ srv' = m /\ pending' = pending
        /\ syncing' = [syncing EXCEPT !.todo[u] = None]
    BY <1>2 DEF SyncGoesOn
  <2>2. syncing' \in Syncs
    BY <2>1 DEF HandlersInv, BackendTypeOK, Syncs, WholeDatabases, Databases, HasTable
  <2>3. syncing' # None
    BY <2>2, NoSyncAssumption
  <2>4. ServerStep /\ Kept(srv)'
    BY <2>1 DEF ServerStep, Settles, HandlersInv, Kept
  <2>. QED
    BY <1>1, <2>1, <2>2, <2>3, <2>4 DEF HandlersInv, BackendTypeOK, Settles, HasHandler
<1>3. CASE ~ok
  <2>1. /\ srv' = Ended(m, store.auto /\ pending, FALSE)
        /\ syncing' = None /\ pending' = (pending /\ ~store.auto)
    BY <1>3 DEF SyncGoesOn
  <2>2. (store.auto /\ pending) \in BOOLEAN
    OBVIOUS
  <2>3. Settles(m, srv')
    BY <1>1, <2>1, <2>2, EndSettles
  <2>4. Settles(srv, srv')
    BY <2>3, SettlesTransitive
  <2>5. store.auto /\ pending => srv'.txn = "none"
    BY <1>1, <2>1, <2>2, EndedIs
  <2>6. srv' \in Media /\ ServerStep /\ Kept(srv)'
    BY <2>4 DEF ServerStep, Settles, HandlersInv, Kept
  <2>. QED
    BY <2>1, <2>4, <2>5, <2>6 DEF HandlersInv, BackendTypeOK, Settles, HasHandler
<1>. QED BY <1>2, <1>3

LEMMA SyncActionStep ==
    ASSUME HandlersInv,
           \/ \E u \in Uuids : SyncSensor(u) \/ SyncSourceFails(u)
           \/ SyncEnd
           \/ \E src \in Sources, readings \in BOOLEAN : SyncBegin(src, readings)
    PROVE  HandlersInv' /\ ServerStep
<1>1. /\ store \in Stores /\ srv \in Media /\ buf \in Buffers /\ BackendTypeOK
      /\ due \in BOOLEAN /\ beat \in BOOLEAN /\ pending \in BOOLEAN
  BY DEF HandlersInv, BackendTypeOK
<1>2. Settles(srv, srv)
  BY <1>1, EffectReflexive, EffectSettles
<1>3. ASSUME NEW u \in Uuids, SyncSensor(u)
      PROVE  HandlersInv' /\ ServerStep
  <2>1. PICK r \in SyncRecords(u) :
           \/ ~r.ok /\ SyncGoesOn(u, r.srv, FALSE) /\ UNCHANGED <<buf, due>>
           \/ /\ r.ok /\ ~Copying(u) /\ SyncGoesOn(u, r.srv, TRUE)
              /\ buf' = SyncBuffers(u) /\ due' = due
           \/ /\ r.ok /\ Copying(u)
              /\ \E o \in FlushIfDue(r.srv, SyncBuffered(u), TRUE) :
                    SyncGoesOn(u, o.srv, o.ok) /\ buf' = o.buf /\ due' = o.due
    BY <1>3, SyncSensorIs
  <2>2. /\ syncing # None /\ syncing.todo[u] # None /\ status = "open"
        /\ UNCHANGED <<store, beat, status>>
    BY <1>3, SyncSensorIs
  <2>3. SyncBuffers(u) \in Buffers /\ SyncBuffered(u) \in Buffers
        /\ r.srv \in Media /\ Settles(srv, r.srv)
    BY <1>1, <2>2, SyncTypes, EffectSettles DEF Effective, Outcomes
  <2>4. CASE ~r.ok /\ SyncGoesOn(u, r.srv, FALSE) /\ UNCHANGED <<buf, due>>
    BY <1>1, <2>2, <2>3, <2>4, SyncGoesOnStep
  <2>5. CASE /\ r.ok /\ ~Copying(u) /\ SyncGoesOn(u, r.srv, TRUE)
             /\ buf' = SyncBuffers(u) /\ due' = due
    BY <1>1, <2>2, <2>3, <2>5, SyncGoesOnStep
  <2>6. ASSUME NEW o \in FlushIfDue(r.srv, SyncBuffered(u), TRUE),
               SyncGoesOn(u, o.srv, o.ok), buf' = o.buf, due' = o.due
        PROVE  HandlersInv' /\ ServerStep
    <3>1. /\ o.buf \in Buffers /\ o.ok \in BOOLEAN /\ o.due \in BOOLEAN
          /\ Settles(r.srv, o.srv)
      BY <1>1, <2>3, FlushIfDueEffect
    <3>2. Settles(srv, o.srv)
      BY <2>3, <3>1, SettlesTransitive
    <3>. QED BY <2>2, <2>6, <3>1, <3>2, SyncGoesOnStep
  <2>. QED BY <2>1, <2>4, <2>5, <2>6
<1>4. ASSUME NEW u \in Uuids, SyncSourceFails(u)
      PROVE  HandlersInv' /\ ServerStep
  BY <1>1, <1>2, <1>4, SyncGoesOnStep DEF SyncSourceFails
<1>5. CASE SyncEnd
  <2>1. (store.auto /\ pending) \in BOOLEAN
    BY <1>1
  <2>2. Settles(srv, srv')
    BY <1>1, <1>5, <2>1, EndSettles DEF SyncEnd
  <2>3. store.auto /\ pending => srv'.txn = "none"
    BY <1>1, <1>5, <2>1, EndedIs DEF SyncEnd
  <2>4. ServerStep /\ srv' \in Media /\ Kept(srv)'
    BY <1>5, <2>2 DEF ServerStep, Settles, HandlersInv, Kept, SyncEnd
  <2>. QED
    BY <1>5, <2>2, <2>3, <2>4 DEF SyncEnd, HandlersInv, BackendTypeOK, Settles, HasHandler
<1>6. ASSUME NEW src \in Sources, NEW readings \in BOOLEAN, SyncBegin(src, readings)
      PROVE  HandlersInv' /\ ServerStep
  <2>1. syncing' \in Syncs /\ syncing' # None
    BY <1>6, SourcesAssumption, NoSyncAssumption DEF SyncBegin, Syncs
  <2>2. /\ srv' \in Media /\ Started(srv).ok \in BOOLEAN
        /\ srv'.view = srv.view /\ srv'.disk = srv.disk
        /\ Started(srv).ok => HasHandler /\ store.auto
        /\ ~Started(srv).ok => srv' = srv
        /\ Kept(srv) => Kept(srv')
    BY <1>1, <1>6, StartedIs DEF SyncBegin
  <2>3. pending' = (pending \/ Started(srv).ok) /\ UNCHANGED <<store, buf, due, beat, status>>
        /\ status = "open" /\ syncing = None
    BY <1>6 DEF SyncBegin, MayWrite, Idle
  <2>4. Kept(srv)' /\ HasHandler' = HasHandler
    BY <2>2, <2>3 DEF HandlersInv, Kept, HasHandler
  <2>5. store.auto => ~pending /\ srv.txn = "none"
    BY <1>1, <2>3 DEF HandlersInv
  <2>. QED BY <2>1, <2>2, <2>3, <2>4, <2>5 DEF HandlersInv, BackendTypeOK, ServerStep
<1>. QED BY <1>3, <1>4, <1>5, <1>6

(* Life cycle *)

LEMMA PreparedStep ==
    ASSUME HandlersInv, NEW m \in Media, m.txn = "none", Kept(m), NEW beats \in BOOLEAN,
           Prepared(m, beats), status # "open"
    PROVE  HandlersInv' /\ ServerStep
<1>1. PICK p \in Prepares(m) :
         /\ srv' = IF p.ok THEN p.srv ELSE Disconnected(p.srv.disk)
         /\ buf' = IF p.ok THEN LoadBuffers(p.sensors) ELSE EmptyBuffers
         /\ status' = IF p.ok THEN "open" ELSE "closed"
  BY DEF Prepared
<1>2. store \in Stores /\ pending = FALSE /\ syncing = None
  BY DEF HandlersInv, BackendTypeOK
<1>3. p \in Preparations /\ Effect(m, p.srv)
  BY <1>2, PreparesEffect
<1>4. buf' \in Buffers
  BY <1>1, <1>3, LoadBuffersType, OtherBuffersType DEF Preparations
<1>5. p.srv \in Media /\ p.srv.disk \in Contents
  BY <1>3, MediaContents DEF Preparations
<1>6. srv' \in Media /\ srv'.txn = "none" /\ Kept(srv')
  <2>1. CASE p.ok
    BY <1>1, <1>3, <1>5, <2>1 DEF Effect
  <2>2. CASE ~p.ok
    <3>1. srv' = Disconnected(p.srv.disk)
      BY <1>1, <2>2
    <3>2. Disconnected(p.srv.disk) \in Media /\ Disconnected(p.srv.disk).txn = "none"
          /\ Disconnected(p.srv.disk).view = Disconnected(p.srv.disk).disk
      BY <1>5, DisconnectedType DEF Disconnected
    <3>. QED BY <3>1, <3>2 DEF Kept
  <2>. QED BY <2>1, <2>2
<1>7. Kept(srv)'
  BY <1>6 DEF Kept, Prepared
<1>. QED BY <1>1, <1>2, <1>4, <1>6, <1>7, ClosedStep DEF Prepared

LEMMA LifeCycleStep ==
    ASSUME HandlersInv, Create \/ Open \/ Close \/ Dispose \/ Crash
    PROVE  HandlersInv' /\ ServerStep
<1>1. /\ store \in Stores /\ srv \in Media /\ due \in BOOLEAN /\ beat \in BOOLEAN
      /\ (~HasHandler => srv.txn = "none") /\ Kept(srv)
  BY DEF HandlersInv, BackendTypeOK
<1>2. CASE Create
  <2>1. PICK i \in Initializations(srv) : i.ok /\ Prepared(i.srv, TRUE)
    BY <1>2 DEF Create
  <2>2. status # "open" /\ srv.txn = "none"
    BY <1>2 DEF Create, HandlersInv
  <2>3. i.srv \in Media /\ i.srv.txn = "none" /\ Kept(i.srv)
    BY <1>1, <2>2, LifeCycleEffect DEF Outcomes
  <2>. QED BY <2>1, <2>2, <2>3, PreparedStep
<1>3. CASE Open
  <2>1. status # "open" /\ srv.txn = "none" /\ Prepared(srv, store.kind # "msg")
    BY <1>3 DEF Open, HandlersInv
  <2>. QED BY <1>1, <2>1, PreparedStep
<1>4. CASE Close \/ Dispose
  <2>1. srv' \in Media /\ srv'.txn = "none" /\ Kept(srv')
    BY <1>1, <1>4, LifeCycleEffect DEF Close, Dispose
  <2>2. Kept(srv)'
    BY <1>4, <2>1 DEF Kept, Close, Dispose
  <2>. QED
    BY <1>1, <1>4, <2>1, <2>2, OtherBuffersType, ClosedStep DEF Close, Dispose, Idle
<1>5. CASE Crash
  <2>1. srv' = Disconnected(srv.disk)
    BY <1>5 DEF Crash
  <2>2. srv.disk \in Contents
    BY <1>1, MediaContents
  <2>3. srv' \in Media /\ srv'.txn = "none" /\ srv'.view = srv'.disk
    BY <2>1, <2>2, DisconnectedType DEF Disconnected
  <2>4. Kept(srv)'
    BY <2>3 DEF Kept
  <2>. QED BY <1>5, <2>3, <2>4, OtherBuffersType, ClosedStep DEF Crash
<1>. QED BY <1>2, <1>3, <1>4, <1>5

LEMMA PersistEffect ==
    ASSUME store.kind = "rocksdb", NEW m \in Media, NEW u \in Uuids
    PROVE  RO!Persist(m, u) \in Media /\ Effect(m, RO!Persist(m, u))
<1> DEFINE n == [m EXCEPT !.disk.readings[u] = m.view.readings[u]]
<1>1. m.view.readings[u] \in Readings
  BY MediaParts
<1>2. n \in Media /\ Effect(m, n)
  BY <1>1 DEF Media, Contents, Effect, Kept, HasHandler, WithTransactions
<1>. QED BY <1>2 DEF RO!Persist

LEMMA OtherStep ==
    ASSUME HandlersInv,
           (\E u \in Uuids : PersistReadings(u)) \/ TimeoutElapses \/ UNCHANGED vars
    PROVE  HandlersInv' /\ ServerStep
<1>1. srv \in Media /\ buf \in Buffers /\ due \in BOOLEAN /\ beat \in BOOLEAN
  BY DEF HandlersInv, BackendTypeOK
<1>2. Effect(srv, srv')
  BY <1>1, PersistEffect, EffectReflexive DEF PersistReadings, TimeoutElapses, vars
<1>3. UNCHANGED <<store, pending, buf, status, syncing>> /\ due' \in BOOLEAN /\ beat' \in BOOLEAN
  BY <1>1 DEF PersistReadings, TimeoutElapses, vars
<1>. QED BY <1>1, <1>2, <1>3, EffectSettles, SettledStep

LEMMA HandlersStep ==
    ASSUME HandlersInv, [Next]_vars
    PROVE  HandlersInv' /\ ServerStep
<1>1. CASE StartTransaction
  BY <1>1, StartTransactionStep
<1>2. CASE CommitTransaction
  BY <1>2, CommitTransactionStep
<1>3. CASE RollbackTransaction
  BY <1>3, RollbackTransactionStep
<1>4. ASSUME NEW u \in Uuids,
             (\E s \in Definitions[u] : AddSensor(u, s) \/ UpdateSensor(u, s)) \/ RemoveSensor(u)
      PROVE  HandlersInv' /\ ServerStep
  BY <1>4, SensorActionStep
<1>5. CASE \/ \E u \in Uuids : \E rs \in Batches[u], kind \in {"INSERT", "UPDATE"} :
                 AddReadings(u, rs, kind)
           \/ \E ignore \in BOOLEAN : Flush(ignore)
           \/ BeatAndFlush
           \/ \E u \in Uuids : Query(u)
  BY <1>5, ReadingsActionStep
<1>6. CASE \/ \E u \in Uuids : SyncSensor(u) \/ SyncSourceFails(u)
           \/ SyncEnd
           \/ \E src \in Sources, readings \in BOOLEAN : SyncBegin(src, readings)
  BY <1>6, SyncActionStep
<1>7. CASE Create \/ Open \/ Close \/ Dispose \/ Crash
  BY <1>7, LifeCycleStep
<1>8. CASE (\E u \in Uuids : PersistReadings(u)) \/ TimeoutElapses \/ UNCHANGED vars
  BY <1>8, OtherStep
<1>. QED BY <1>1, <1>2, <1>3, <1>4, <1>5, <1>6, <1>7, <1>8 DEF Next

\* What the two properties below and the refinement rest on, in every call, sync,
\* rollback, restart and crash.
THEOREM HandlersInvariant == Spec => []HandlersInv
<1>1. Init => HandlersInv
  BY HandlersInit
<1>2. HandlersInv /\ [Next]_vars => HandlersInv'
  BY HandlersStep
<1>. QED BY <1>1, <1>2, PTL DEF Spec

\* A store over any of these backends stays well-formed: its medium, buffers and
\* the work left of a running sync have their types, whatever fails.
THEOREM BackendsWellTyped == Spec => []BackendTypeOK
<1>1. HandlersInv => BackendTypeOK
  BY DEF HandlersInv
<1>. QED BY <1>1, HandlersInvariant, PTL

\* No call with automatic commits leaves a transaction open, and with manual
\* commits the handler knows of the transaction the server is in
\* (auto_start_transaction, auto_commit_transaction and the destructor).
THEOREM HandlersFollowServer == Spec => []HandlersAgreeWithServer
<1>1. HandlersInv => HandlersAgreeWithServer
  BY DEF HandlersInv, HandlersAgreeWithServer
<1>. QED BY <1>1, HandlersInvariant, PTL

-----------------------------------------------------------------------------
(* The refinement of TransactionalFile *)

LEMMA TransactionsInit == Init => Transactions!Init
<1>1. Nothing \in Contents
  BY NothingType
<1>. QED BY <1>1 DEF Init, Transactions!Init, Disconnected

LEMMA TransactionsStep ==
    ASSUME HandlersInv, HandlersInv', ServerStep, store' = store
    PROVE  [Transactions!Next]_<<IF HasHandler THEN srv.disk ELSE Nothing,
                                 IF HasHandler THEN srv.view ELSE Nothing,
                                 srv.txn # "none">>
<1>1. HasHandler' = HasHandler
  BY DEF HasHandler
<1>2. CASE ~HasHandler
  <2>1. srv.txn = "none" /\ srv'.txn = "none"
    BY <1>1, <1>2 DEF HandlersInv
  <2>. QED BY <1>1, <1>2, <2>1
<1>3. CASE HasHandler
  <2>1. /\ srv'.view \in Contents /\ srv'.disk \in Contents
        /\ (srv.txn # "none") \in BOOLEAN /\ (srv'.txn # "none") \in BOOLEAN
    BY DEF HandlersInv, BackendTypeOK, Media
  <2>2. srv'.txn = "none" => srv'.view = srv'.disk
    BY <1>1, <1>3 DEF HandlersInv, Kept, HasHandler, WithTransactions
  <2>3. CASE srv.txn = "none" /\ srv'.txn = "none"
    <3>1. Transactions!WriteThrough
      BY <1>1, <1>3, <2>1, <2>2, <2>3 DEF Transactions!WriteThrough
    <3>. QED BY <3>1 DEF Transactions!Next
  <2>4. CASE srv.txn = "none" /\ srv'.txn # "none"
    <3>1. Transactions!Start
      BY <1>1, <1>3, <2>4 DEF Transactions!Start, ServerStep
    <3>. QED BY <3>1 DEF Transactions!Next
  <2>5. CASE srv.txn # "none" /\ srv'.txn # "none"
    <3>1. Transactions!Write
      BY <1>1, <1>3, <2>1, <2>5 DEF Transactions!Write, ServerStep
    <3>. QED BY <3>1 DEF Transactions!Next
  <2>6. CASE srv.txn # "none" /\ srv'.txn = "none"
    <3>1. Transactions!Commit
      BY <1>1, <1>3, <2>1, <2>2, <2>6 DEF Transactions!Commit
    <3>. QED BY <3>1 DEF Transactions!Next
  <2>. QED BY <2>3, <2>4, <2>5, <2>6
<1>. QED BY <1>2, <1>3

\* The servers with transactions keep what klio::Transaction promises of a
\* SQLite3 file as well: inside a transaction writes are seen and not kept, its
\* end keeps all of them or none, and outside one what is read is what is kept.
THEOREM ServersAreTransactional == Spec => ServerIsTransactional
<1>1. Init => Transactions!Init
  BY TransactionsInit
<1>2. HandlersInv /\ HandlersInv' /\ [Next]_vars
        => [Transactions!Next]_<<IF HasHandler THEN srv.disk ELSE Nothing,
                                 IF HasHandler THEN srv.view ELSE Nothing,
                                 srv.txn # "none">>
  <2>1. [Next]_vars => store' = store
    BY DEF Next, vars, StartTransaction, CommitTransaction, RollbackTransaction, AddSensor,
           UpdateSensor, RemoveSensor, SensorCall, AddReadings, Query, SyncSensor,
           SyncSourceFails, PersistReadings, Flush, BeatAndFlush, SyncBegin, SyncEnd,
           TimeoutElapses, Create, Open, Prepared, Close, Dispose, Crash
  <2>. QED BY <2>1, HandlersStep, TransactionsStep
<1>. QED
  BY <1>1, <1>2, HandlersInvariant, PTL
  DEF Spec, ServerIsTransactional, Transactions!Spec
=============================================================================
