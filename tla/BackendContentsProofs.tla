------------------------ MODULE BackendContentsProofs ------------------------
(***************************************************************************)
(* Theorems about what a store over any of the other backends knows and    *)
(* keeps: its sensors and their readings.                                  *)
(***************************************************************************)
EXTENDS BackendProofs

-----------------------------------------------------------------------------
(***************************************************************************)
(* The sensors a medium holds.  A method about readings changes none; an   *)
(* aborted PostgreSQL transaction brings back those on disk.               *)
(***************************************************************************)

SensorsKept(m, n) ==
    /\ {n.view.sensors, n.disk.sensors} \subseteq {m.view.sensors, m.disk.sensors}
    /\ store.kind # "postgresql" => n.view.sensors = m.view.sensors
    /\ store.kind = "rocksdb" => n.disk.sensors = m.disk.sensors

LEMMA SensorsKeptReflexive == ASSUME NEW m PROVE SensorsKept(m, m)
BY DEF SensorsKept

LEMMA SensorsKeptTransitive ==
    ASSUME NEW m, NEW n, NEW k, SensorsKept(m, n), SensorsKept(n, k)
    PROVE  SensorsKept(m, k)
BY DEF SensorsKept

LEMMA PutReadingsSensors ==
    ASSUME NEW m \in Media, NEW u \in Uuids, NEW q,
           store.kind # "rocksdb"
    PROVE  SensorsKept(m, Write(m, PutReadings(m.view, u, q)))
<1>1. PutReadings(m.view, u, q).sensors = m.view.sensors
  BY MediaContents DEF PutReadings, Contents
<1>2. CASE m.txn = "none"
  BY <1>1, <1>2 DEF Write, Media, SensorsKept
<1>3. CASE m.txn # "none"
  BY <1>1, <1>3 DEF Write, Media, SensorsKept
<1>. QED BY <1>2, <1>3

LEMMA AbortSensors ==
    ASSUME NEW m \in Media, store.kind = "postgresql"
    PROVE  SensorsKept(m, PG!Abort(m))
BY DEF PG!Abort, SensorsKept, Media

LEMMA OutcomeSets ==
    ASSUME NEW n, NEW ignore, NEW o
    PROVE  o \in Done(n) \/ o \in Thrown(n) \/ o \in Handled(n, ignore) => o.srv = n
BY DEF Done, Thrown, Handled

-----------------------------------------------------------------------------
(***************************************************************************)
(* What a method about readings can make of them.  Only PostgreSQL's       *)
(* updates take any away; text files and PostgreSQL's insertions replace   *)
(* none; and text files and the mSG server take none for a sensor they     *)
(* have not.                                                               *)
(***************************************************************************)

Grown(old, new, inserting) ==
    /\ store.kind # "postgresql" \/ inserting =>
          \A t \in Times : old[t] # None => new[t] # None
    /\ store.kind = "txt" \/ (store.kind = "postgresql" /\ inserting) =>
          \A t \in Times : old[t] # None => new[t] = old[t]

\* A memtable takes them.
Remember(m, u, new) == [m EXCEPT !.view.readings[u] = new]

ReadingsWritten(m, n, u, inserting) ==
    \/ n = m
    \/ store.kind = "postgresql" /\ n = PG!Abort(m)
    \/ /\ store.kind # "rocksdb"
       /\ store.kind \in {"txt", "msg"} => m.view.sensors[u] # None
       /\ \E new \in Readings : /\ Grown(m.view.readings[u], new, inserting)
                                /\ n = Write(m, PutReadings(m.view, u, new))
    \/ /\ store.kind = "rocksdb"
       /\ \E new \in Readings : /\ Grown(m.view.readings[u], new, inserting)
                                /\ n = Remember(m, u, new)

LEMMA KeepFirstGrows ==
    ASSUME NEW r \in Readings, NEW q \in Readings, NEW inserting
    PROVE  /\ KeepFirst(r, q) \in Readings /\ Grown(r, KeepFirst(r, q), inserting)
           /\ store.kind \notin {"txt", "postgresql"} => Grown(r, KeepFirst(q, r), inserting)
<1>1. KeepFirst(r, q) \in Readings
  BY KeepFirstType
<1>2. \A t \in Times : /\ r[t] # None => KeepFirst(r, q)[t] = r[t]
                       /\ r[t] # None => KeepFirst(q, r)[t] # None
  BY DEF KeepFirst
<1>. QED BY <1>1, <1>2 DEF Grown

LEMMA PGInsertForms ==
    ASSUME store.kind = "postgresql", NEW m \in Media, NEW u \in Uuids, NEW rs \in Readings,
           NEW ignore, NEW o \in PG!InsertReadings(m, u, rs, ignore)
    PROVE  /\ ReadingsWritten(m, o.srv, u, TRUE)
           /\ m.txn # "aborted" /\ Recorded(m.view.readings[u]) \cap Recorded(rs) = {} =>
                 o.ok = TRUE /\ o.srv = Write(m, PutReadings(m.view, u,
                                                  KeepFirst(m.view.readings[u], rs)))
<1> DEFINE old == m.view.readings[u]
           again == PG!Repeated(m, u, rs)
           before == [t \in Times |-> IF \E r \in again : r <= t THEN None ELSE rs[t]]
           put(q) == Write(m, PutReadings(m.view, u, KeepFirst(old, q)))
<1>1. old \in Readings
  BY MediaParts
<1>2. before \in Readings
  BY DEF Readings
<1>3. ASSUME NEW q \in Readings
      PROVE  ReadingsWritten(m, put(q), u, TRUE)
  <2>1. KeepFirst(old, q) \in Readings /\ Grown(old, KeepFirst(old, q), TRUE)
    BY <1>1, KeepFirstGrows
  <2>. QED BY <2>1 DEF ReadingsWritten
<1>4. ReadingsWritten(m, m, u, TRUE) /\ ReadingsWritten(m, PG!Abort(m), u, TRUE)
  BY DEF ReadingsWritten
<1>5. again = Recorded(old) \cap Recorded(rs)
  BY SameReadings DEF PG!Repeated, PG!Recorded, Recorded
<1>. HIDE DEF old, again, before
<1>6. /\ \/ o \in Handled(m, ignore)
         \/ o \in Done(m)
         \/ o \in Done(put(rs))
         \/ o \in Handled(PG!Abort(m), ignore)
         \/ o \in Done(PG!Abort(m))
         \/ o \in Handled(put(IF ignore THEN rs ELSE before), ignore)
      /\ m.txn # "aborted" /\ again = {} => o \in Done(put(rs))
  <2>1. CASE o \in PG!AddSingleReadings(m, u, rs, ignore)
    <3>1. /\ \/ o \in PG!Handled(m, ignore)
             \/ o \in PG!Done(m)
             \/ o \in PG!Done(PG!Write(m, PG!PutReadings(m.view, u, PG!KeepFirst(old, rs))))
             \/ o \in PG!Handled(PG!Abort(m), ignore)
             \/ o \in PG!Handled(PG!Write(m, PG!PutReadings(m.view, u,
                         PG!KeepFirst(old, IF ignore THEN rs ELSE before))), ignore)
          /\ m.txn # "aborted" /\ again = {} =>
                o \in PG!Done(PG!Write(m, PG!PutReadings(m.view, u, PG!KeepFirst(old, rs))))
      BY <2>1 DEF PG!AddSingleReadings, PG!Aborted, old, again, before
    <3>. QED BY <3>1, SameOperators, SameReadings
  <2>2. CASE o \in PG!AddBulkReadings(m, u, rs, ignore)
    <3>1. /\ \/ o \in PG!Handled(m, ignore)
             \/ o \in PG!Done(PG!Abort(m))
             \/ o \in PG!Done(PG!Write(m, PG!PutReadings(m.view, u, PG!KeepFirst(old, rs))))
          /\ m.txn # "aborted" /\ again = {} =>
                o \in PG!Done(PG!Write(m, PG!PutReadings(m.view, u, PG!KeepFirst(old, rs))))
      BY <2>2 DEF PG!AddBulkReadings, PG!Aborted, old, again
    <3>. QED BY <3>1, SameOperators, SameReadings
  <2>. QED BY <2>1, <2>2 DEF PG!InsertReadings
<1>7. (IF ignore THEN rs ELSE before) \in Readings
  BY <1>2
<1>. HIDE DEF put
<1>8. ReadingsWritten(m, o.srv, u, TRUE)
  <2>1. o.srv \in {m, PG!Abort(m), put(rs), put(IF ignore THEN rs ELSE before)}
    BY <1>6, OutcomeSets
  <2>. QED BY <1>3, <1>4, <1>7, <2>1
<1>9. o \in Done(put(rs)) => o.ok = TRUE /\ o.srv = put(rs)
  BY DEF Done
<1>. QED BY <1>5, <1>6, <1>8, <1>9 DEF put, old

LEMMA PGUpdateForms ==
    ASSUME store.kind = "postgresql", NEW m \in Media, NEW u \in Uuids, NEW rs \in Readings,
           NEW ignore, NEW o \in PG!UpdateReadings(m, u, rs, ignore)
    PROVE  ReadingsWritten(m, o.srv, u, FALSE)
<1> DEFINE moved == [t \in Times |-> IF \E p \in PG!Latest(rs) : p[1] = t THEN rs[t] ELSE None]
<1>1. moved \in Readings /\ Grown(m.view.readings[u], moved, FALSE)
  BY DEF Readings, Grown
<1>. HIDE DEF moved
<1>2. \/ o \in PG!Handled(PG!Abort(m), ignore)
      \/ o \in PG!Done(m)
      \/ o \in PG!Done(PG!Write(m, PG!PutReadings(m.view, u, moved)))
  BY DEF PG!UpdateReadings, moved
<1>3. o.srv \in {m, PG!Abort(m), Write(m, PutReadings(m.view, u, moved))}
  BY <1>2, SameOperators, OutcomeSets
<1>. QED BY <1>1, <1>3 DEF ReadingsWritten

LEMMA RDForms ==
    ASSUME NEW m, NEW u, NEW rs,
           NEW o \in RD!InsertReadings(m, u, rs) \cup RD!UpdateReadings(m, u, rs)
    PROVE  /\ o.srv = Write(m, PutReadings(m.view, u, KeepFirst(rs, m.view.readings[u])))
           /\ o.ok = TRUE
<1>1. o \in RD!PutAllReadings(m, u, rs)
  BY DEF RD!InsertReadings, RD!UpdateReadings, RD!AddSingleReadings, RD!AddBulkReadings
<1>2. o \in Done(Write(m, PutReadings(m.view, u, KeepFirst(rs, m.view.readings[u]))))
  BY <1>1, SameOperators, SameReadings DEF RD!PutAllReadings
<1>. QED BY <1>2 DEF Done

LEMMA ROForms ==
    ASSUME NEW m, NEW u, NEW rs,
           NEW o \in RO!InsertReadings(m, u, rs) \cup RO!UpdateReadings(m, u, rs)
    PROVE  /\ o.srv = Remember(m, u, KeepFirst(rs, m.view.readings[u]))
           /\ o.ok = TRUE
<1>1. o \in RO!PutValues(m, u, rs)
  BY DEF RO!InsertReadings, RO!UpdateReadings, RO!AddSingleReadings, RO!AddBulkReadings
<1>2. o \in Done(Remember(m, u, KeepFirst(rs, m.view.readings[u])))
  BY <1>1, SameOperators, SameReadings DEF RO!PutValues, Remember
<1>. QED BY <1>2 DEF Done

LEMMA TXForms ==
    ASSUME NEW m, NEW u, NEW rs,
           NEW o \in TX!InsertReadings(m, u, rs) \cup TX!UpdateReadings(m, u, rs)
    PROVE  \/ o.srv = m /\ o.ok = FALSE
           \/ o.srv = m /\ o.ok = TRUE /\ rs = NoReadings
           \/ /\ o.srv = Write(m, PutReadings(m.view, u, KeepFirst(m.view.readings[u], rs)))
              /\ o.ok = TRUE /\ m.view.sensors[u] # None
<1>1. \/ o \in TX!Done(m) /\ rs = TX!NoReadings
      \/ o \in TX!AppendReadings(m, u, rs)
  BY DEF TX!InsertReadings, TX!UpdateReadings, TX!AddSingleReadings, TX!AddBulkReadings
<1> DEFINE n == Write(m, PutReadings(m.view, u, KeepFirst(m.view.readings[u], rs)))
<1>2. \/ o \in Done(m) /\ rs = NoReadings
      \/ o \in Thrown(m)
      \/ o \in Done(n) /\ m.view.sensors[u] # None
  BY <1>1, SameOperators, SameReadings DEF TX!AppendReadings, TX!FileExists
<1>. HIDE DEF n
<1>3. \/ o.srv = m /\ o.ok = FALSE
      \/ o.srv = m /\ o.ok = TRUE /\ rs = NoReadings
      \/ o.srv = n /\ o.ok = TRUE /\ m.view.sensors[u] # None
  BY <1>2 DEF Done, Thrown
<1>. QED BY <1>3 DEF n

\* What the mSG server makes of a request: nothing, a result, or either with
\* the answer lost.
LEMMA RequestIs ==
    ASSUME NEW m, NEW results, NEW o \in MS!Request(m, results)
    PROVE  /\ o.srv \in {m} \cup results
           /\ o.ok = TRUE => o.srv \in results
           /\ ~store.faulty /\ results # {} => o.ok = TRUE /\ o.srv \in results
           /\ results = {} => o.srv = m /\ o.ok = FALSE
           /\ o.ok \in BOOLEAN
<1>1. \/ \E n \in results : o \in MS!Done(n)
      \/ (store.faulty \/ results = {}) /\ \E n \in {m} \cup results : o \in MS!Thrown(n)
  BY DEF MS!Request
<1>2. \/ \E n \in results : o = [srv |-> n, ok |-> TRUE]
      \/ (store.faulty \/ results = {}) /\ \E n \in {m} \cup results : o = [srv |-> n, ok |-> FALSE]
  BY <1>1 DEF MS!Done, MS!Thrown
<1>3. ASSUME NEW n \in results, o = [srv |-> n, ok |-> TRUE]
      PROVE  o.srv = n /\ o.ok = TRUE
  BY <1>3
<1>4. ASSUME NEW n \in {m} \cup results, o = [srv |-> n, ok |-> FALSE]
      PROVE  o.srv = n /\ o.ok = FALSE
  BY <1>4
<1>5. \/ (\E n \in results : o.srv = n) /\ o.ok = TRUE
      \/ /\ store.faulty \/ results = {}
         /\ \E n \in {m} \cup results : o.srv = n
         /\ o.ok = FALSE
  BY <1>2, <1>3, <1>4
<1>. QED BY <1>5

LEMMA MSForms ==
    ASSUME NEW m, NEW u, NEW rs, NEW ignore \in BOOLEAN,
           NEW o \in MS!InsertReadings(m, u, rs, ignore) \cup MS!UpdateReadings(m, u, rs, ignore)
    PROVE  /\ \/ o.srv = m
              \/ /\ m.view.sensors[u] # None
                 /\ \E new \in {KeepFirst(m.view.readings[u], rs), KeepFirst(rs, m.view.readings[u])} :
                       o.srv = Write(m, PutReadings(m.view, u, new))
           /\ ~store.faulty /\ m.view.sensors[u] # None =>
                 \/ rs = NoReadings
                 \/ \E new \in {KeepFirst(m.view.readings[u], rs), KeepFirst(rs, m.view.readings[u])} :
                       o.srv = Write(m, PutReadings(m.view, u, new))
<1> DEFINE news == {KeepFirst(m.view.readings[u], rs), KeepFirst(rs, m.view.readings[u])}
           results == MS!Merged(m, u, rs)
<1>1. \/ o \in MS!Done(m) /\ rs = MS!NoReadings
      \/ o \in MS!PostReadings(m, u, rs, ignore)
  BY DEF MS!InsertReadings, MS!UpdateReadings, MS!AddSingleReading, MS!AddBulkReadings
<1>2. results = IF m.view.sensors[u] = None THEN {}
                ELSE {Write(m, PutReadings(m.view, u, new)) : new \in news}
  BY SameOperators, SameReadings DEF MS!Merged
<1>. HIDE DEF news
<1>3. CASE o \in MS!Done(m) /\ rs = MS!NoReadings
  <2>1. o.srv = m /\ rs = NoReadings
    BY <1>3, SameReadings DEF MS!Done
  <2>. QED BY <2>1
<1>4. CASE o \in MS!PostReadings(m, u, rs, ignore)
  <2>1. PICK r \in MS!Request(m, results) : o = [r EXCEPT !.ok = r.ok \/ ignore]
    BY <1>4 DEF MS!PostReadings
  <2>. HIDE DEF results
  <2>2. \E n \in {m} \cup results : \E ok \in BOOLEAN : r = [srv |-> n, ok |-> ok]
    <3>1. \/ \E n \in results : r \in MS!Done(n)
          \/ \E n \in {m} \cup results : r \in MS!Thrown(n)
      BY DEF MS!Request
    <3>. QED BY <3>1 DEF MS!Done, MS!Thrown
  <2>3. o.srv = r.srv
    BY <2>1, <2>2
  <2>4. /\ r.srv \in {m} \cup results
        /\ ~store.faulty /\ results # {} => r.srv \in results
    BY RequestIs
  <2>5. \A n \in results : /\ m.view.sensors[u] # None
                           /\ \E new \in news : n = Write(m, PutReadings(m.view, u, new))
    BY <1>2
  <2>6. m.view.sensors[u] # None => results # {}
    BY <1>2 DEF news
  <2>. QED BY <2>3, <2>4, <2>5, <2>6 DEF news
<1>. QED BY <1>1, <1>3, <1>4

\* The methods of whichever store it is.
LEMMA ReadingsForms ==
    ASSUME store \in Stores, NEW m \in Media, NEW u \in Uuids, NEW rs \in Readings,
           NEW ignore \in BOOLEAN
    PROVE  /\ \A o \in InsertReadings(m, u, rs, ignore) : ReadingsWritten(m, o.srv, u, TRUE)
           /\ \A o \in UpdateReadingRecords(m, u, rs, ignore) : ReadingsWritten(m, o.srv, u, FALSE)
<1> DEFINE old == m.view.readings[u]
<1>1. \A inserting \in BOOLEAN :
         /\ KeepFirst(old, rs) \in Readings /\ KeepFirst(rs, old) \in Readings
         /\ Grown(old, KeepFirst(old, rs), inserting)
         /\ store.kind \notin {"txt", "postgresql"} => Grown(old, KeepFirst(rs, old), inserting)
  BY MediaParts, KeepFirstGrows, KeepFirstType
<1>. HIDE DEF old
<1>2. CASE store.kind = "postgresql"
  BY <1>2, PGInsertForms, PGUpdateForms DEF InsertReadings, UpdateReadingRecords
<1>3. CASE store.kind = "redis"
  <2>1. ASSUME NEW inserting \in BOOLEAN,
               NEW o \in RD!InsertReadings(m, u, rs) \cup RD!UpdateReadings(m, u, rs)
        PROVE  ReadingsWritten(m, o.srv, u, inserting)
    BY <1>1, <1>3, RDForms DEF ReadingsWritten, old
  <2>. QED BY <1>3, <2>1 DEF InsertReadings, UpdateReadingRecords
<1>4. CASE store.kind = "rocksdb"
  <2>1. ASSUME NEW inserting \in BOOLEAN,
               NEW o \in RO!InsertReadings(m, u, rs) \cup RO!UpdateReadings(m, u, rs)
        PROVE  ReadingsWritten(m, o.srv, u, inserting)
    BY <1>1, <1>4, ROForms DEF ReadingsWritten, old
  <2>. QED BY <1>4, <2>1 DEF InsertReadings, UpdateReadingRecords
<1>5. CASE store.kind = "txt"
  <2>1. ASSUME NEW inserting \in BOOLEAN,
               NEW o \in TX!InsertReadings(m, u, rs) \cup TX!UpdateReadings(m, u, rs)
        PROVE  ReadingsWritten(m, o.srv, u, inserting)
    <3>1. \/ o.srv = m
          \/ /\ o.srv = Write(m, PutReadings(m.view, u, KeepFirst(old, rs)))
             /\ m.view.sensors[u] # None
      BY TXForms DEF old
    <3>2. KeepFirst(old, rs) \in Readings /\ Grown(old, KeepFirst(old, rs), inserting)
      BY <1>1
    <3>. QED BY <1>5, <3>1, <3>2 DEF ReadingsWritten, old
  <2>. QED BY <1>5, <2>1 DEF InsertReadings, UpdateReadingRecords
<1>6. CASE store.kind = "msg"
  <2>1. ASSUME NEW inserting \in BOOLEAN,
               NEW o \in MS!InsertReadings(m, u, rs, ignore) \cup MS!UpdateReadings(m, u, rs, ignore)
        PROVE  ReadingsWritten(m, o.srv, u, inserting)
    BY <1>1, <1>6, MSForms DEF ReadingsWritten, old
  <2>. QED BY <1>6, <2>1 DEF InsertReadings, UpdateReadingRecords
<1>. QED BY <1>2, <1>3, <1>4, <1>5, <1>6, KindType DEF Kinds

LEMMA WrittenSensors ==
    ASSUME NEW m \in Media, NEW u \in Uuids, NEW n, NEW inserting,
           ReadingsWritten(m, n, u, inserting)
    PROVE  SensorsKept(m, n)
<1>1. CASE n = m
  BY <1>1, SensorsKeptReflexive
<1>2. CASE store.kind = "postgresql" /\ n = PG!Abort(m)
  BY <1>2, AbortSensors
<1>3. ASSUME store.kind # "rocksdb", NEW new \in Readings,
             n = Write(m, PutReadings(m.view, u, new))
      PROVE  SensorsKept(m, n)
  BY <1>3, PutReadingsSensors
<1>4. ASSUME store.kind = "rocksdb", NEW new \in Readings,
             n = Remember(m, u, new)
      PROVE  SensorsKept(m, n)
  BY <1>4 DEF SensorsKept, Media, Contents, Remember
<1>. QED BY <1>1, <1>2, <1>3, <1>4 DEF ReadingsWritten

-----------------------------------------------------------------------------
(* Flushing *)

\* flush(sensor, ignore): the insertions, and the updates if there are any.
InsertionFailed(m, b, u, ignore, o) ==
    \E i \in InsertReadings(m, u, b.ops[u].ins, ignore) :
        /\ i.srv \in Media /\ i.ok = FALSE
        /\ o.srv = i.srv /\ o.buf = b /\ o.ok = FALSE

InsertionsOnly(m, b, u, ignore, o) ==
    /\ b.ops[u].upd = NoReadings
    /\ \E i \in InsertReadings(m, u, b.ops[u].ins, ignore) :
          /\ i.srv \in Media /\ i.ok = TRUE
          /\ o.srv = i.srv /\ o.buf = ClearOperations(b, {u}) /\ o.ok = TRUE

InsertionsAndUpdates(m, b, u, ignore, o) ==
    /\ b.ops[u].upd # NoReadings
    /\ \E i \in InsertReadings(m, u, b.ops[u].ins, ignore) :
       \E r \in UpdateReadingRecords(i.srv, u, b.ops[u].upd, ignore) :
          /\ i.srv \in Media /\ i.ok = TRUE
          /\ r.srv \in Media /\ r.ok \in BOOLEAN
          /\ o.srv = r.srv /\ o.ok = r.ok
          /\ o.buf = IF r.ok THEN ClearOperations(b, {u})
                     ELSE [b EXCEPT !.ops[u].ins = NoReadings]

LEMMA FlushSensorIs ==
    ASSUME store \in Stores, NEW m \in Media, NEW b \in Buffers, NEW u \in Uuids,
           NEW ignore \in BOOLEAN, NEW o \in FlushSensor(m, b, u, ignore)
    PROVE  \/ b.ops[u] = None /\ o.srv = m /\ o.buf = b /\ o.ok = FALSE
           \/ /\ b.ops[u] # None
              /\ \/ InsertionFailed(m, b, u, ignore, o)
                 \/ InsertionsOnly(m, b, u, ignore, o)
                 \/ InsertionsAndUpdates(m, b, u, ignore, o)
<1> DEFINE half == [b EXCEPT !.ops[u].ins = NoReadings]
           upd == b.ops[u].upd
           outcome(n, c, ok) == [srv |-> n, buf |-> c, ok |-> ok]
           inserted == InsertReadings(m, u, b.ops[u].ins, ignore)
           updated(n) == IF upd = NoReadings THEN Done(n)
                         ELSE UpdateReadingRecords(n, u, upd, ignore)
<1>2. CASE b.ops[u] = None
  <2>1. o = outcome(m, b, FALSE)
    BY <1>2 DEF FlushSensor
  <2>. QED BY <1>2, <2>1
<1>3. CASE b.ops[u] # None
  <2>1. b.ops[u].ins \in Readings /\ upd \in Readings
    BY <1>3, OperationsType
  <2> DEFINE late(i) == {[srv |-> r.srv, ok |-> r.ok,
                          buf |-> IF r.ok THEN ClearOperations(b, {u}) ELSE half] :
                            r \in updated(i.srv)}
  <2>2. o \in {[srv |-> i.srv, buf |-> b, ok |-> FALSE] : i \in {j \in inserted : ~j.ok}}
              \cup UNION {late(i) : i \in {j \in inserted : j.ok}}
    BY <1>3 DEF FlushSensor
  <2>3. ASSUME NEW i \in inserted, o \in late(i)
        PROVE  \E r \in updated(i.srv) :
                  o = outcome(r.srv, IF r.ok THEN ClearOperations(b, {u}) ELSE half, r.ok)
    BY <2>3
  <2>4. \/ \E i \in inserted : ~i.ok /\ o = outcome(i.srv, b, FALSE)
        \/ \E i \in inserted : i.ok /\ \E r \in updated(i.srv) :
              o = outcome(r.srv, IF r.ok THEN ClearOperations(b, {u}) ELSE half, r.ok)
    <3>. HIDE DEF half, upd, inserted, updated, late
    <3>. QED BY <2>2, <2>3
  <2>5. \A i \in inserted : i.srv \in Media /\ i.ok \in BOOLEAN
    BY <2>1, ReadingsEffect DEF Effective, Outcomes
  <2>. HIDE DEF half, upd, inserted
  <2>6. ASSUME NEW i \in inserted, ~i.ok, o = outcome(i.srv, b, FALSE)
        PROVE  InsertionFailed(m, b, u, ignore, o)
    <3>1. i.ok = FALSE
      BY <2>5, <2>6
    <3>. QED BY <2>5, <2>6, <3>1 DEF InsertionFailed, inserted
  <2>7. ASSUME NEW i \in inserted, i.ok, upd = NoReadings, NEW r \in Done(i.srv),
               o = outcome(r.srv, IF r.ok THEN ClearOperations(b, {u}) ELSE half, r.ok)
        PROVE  InsertionsOnly(m, b, u, ignore, o)
    <3>1. i.ok = TRUE /\ r.srv = i.srv /\ r.ok = TRUE
      BY <2>5, <2>7, DoneIs
    <3>. QED BY <2>5, <2>7, <3>1 DEF InsertionsOnly, inserted, upd
  <2>8. ASSUME NEW i \in inserted, i.ok, upd # NoReadings,
               NEW r \in UpdateReadingRecords(i.srv, u, upd, ignore),
               o = outcome(r.srv, IF r.ok THEN ClearOperations(b, {u}) ELSE half, r.ok)
        PROVE  InsertionsAndUpdates(m, b, u, ignore, o)
    <3>1. i.ok = TRUE /\ i.srv \in Media
      BY <2>5, <2>8
    <3>2. r.srv \in Media /\ r.ok \in BOOLEAN
      BY <2>1, <2>8, <3>1, ReadingsEffect DEF Effective, Outcomes
    <3>3. o.srv = r.srv /\ o.ok = r.ok /\ o.buf = IF r.ok THEN ClearOperations(b, {u}) ELSE half
      BY <2>8
    <3>. QED BY <2>8, <3>1, <3>2, <3>3 DEF InsertionsAndUpdates, inserted, upd, half
  <2>. QED BY <1>3, <2>4, <2>6, <2>7, <2>8
<1>. QED BY <1>2, <1>3

LEMMA FlushSensorSensors ==
    ASSUME store \in Stores, NEW m \in Media, NEW b \in Buffers, NEW u \in Uuids,
           NEW ignore \in BOOLEAN, NEW o \in FlushSensor(m, b, u, ignore)
    PROVE  /\ SensorsKept(m, o.srv)
           /\ store.kind = "redis" /\ b.ops[u] # None => o.ok = TRUE
<1>1. CASE b.ops[u] = None
  BY <1>1, FlushSensorIs, SensorsKeptReflexive
<1>2. CASE b.ops[u] # None
  <2>1. b.ops[u].ins \in Readings /\ b.ops[u].upd \in Readings
    BY <1>2, OperationsType
  <2>2. ASSUME NEW i \in InsertReadings(m, u, b.ops[u].ins, ignore)
        PROVE  SensorsKept(m, i.srv) /\ (store.kind = "redis" => i.ok = TRUE)
    BY <2>1, ReadingsForms, WrittenSensors, RDForms DEF InsertReadings
  <2>3. ASSUME NEW n \in Media, NEW r \in UpdateReadingRecords(n, u, b.ops[u].upd, ignore)
        PROVE  SensorsKept(n, r.srv) /\ (store.kind = "redis" => r.ok = TRUE)
    BY <2>1, ReadingsForms, WrittenSensors, RDForms DEF UpdateReadingRecords
  <2>4. CASE InsertionFailed(m, b, u, ignore, o)
    BY <2>2, <2>4 DEF InsertionFailed
  <2>5. CASE InsertionsOnly(m, b, u, ignore, o)
    BY <2>2, <2>5 DEF InsertionsOnly
  <2>6. CASE InsertionsAndUpdates(m, b, u, ignore, o)
    BY <2>2, <2>3, <2>6, SensorsKeptTransitive DEF InsertionsAndUpdates
  <2>. QED BY <1>2, <2>4, <2>5, <2>6, FlushSensorIs
<1>. QED BY <1>1, <1>2

\* A Redis store whose buffered sensors have their operations flushes without
\* an exception.
LEMMA FlushAllSensors ==
    ASSUME store \in Stores, NEW m \in Media, NEW b \in Buffers, NEW ignore \in BOOLEAN,
           NEW o \in FlushAll(m, b, ignore)
    PROVE  /\ SensorsKept(m, o.srv)
           /\ store.kind = "redis" /\ (\A u \in Buffered(b) : b.ops[u] # None) => o.ok = TRUE
<1> DEFINE R == {p \in FlushOutcomes :
                    /\ Effect(m, p.srv) /\ SameSensors(b, p.buf) /\ SensorsKept(m, p.srv)
                    /\ store.kind = "redis" /\ (\A u \in Buffered(b) : b.ops[u] # None)
                          => p.ok = TRUE}
<1>1. FlushStart(m, b) \subseteq R
  <2>1. [srv |-> m, buf |-> b, ok |-> TRUE] \in FlushOutcomes
    BY DEF FlushOutcomes
  <2>. QED BY <2>1, EffectReflexive, SameReflexive, SensorsKeptReflexive DEF FlushStart
<1>2. ASSUME NEW p \in R, NEW u \in Buffered(b), NEW q \in FlushSensor(p.srv, p.buf, u, ignore)
      PROVE  q \in R
  <2>1. p.srv \in Media /\ p.buf \in Buffers /\ u \in Uuids
    BY DEF FlushOutcomes, Buffered
  <2>2. /\ q \in FlushOutcomes /\ Effect(p.srv, q.srv) /\ SameSensors(p.buf, q.buf)
        /\ SensorsKept(p.srv, q.srv)
        /\ store.kind = "redis" /\ p.buf.ops[u] # None => q.ok = TRUE
    BY <2>1, FlushSensorEffect, FlushSensorSensors
  <2>3. p.buf.ops[u] = None <=> b.ops[u] = None
    BY <2>1 DEF SameSensors
  <2>4. Effect(m, q.srv) /\ SameSensors(b, q.buf) /\ SensorsKept(m, q.srv)
    BY <2>2, EffectTransitive, SameTransitive, SensorsKeptTransitive
  <2>. QED BY <2>2, <2>3, <2>4
<1>. HIDE DEF R
<1>3. FlushAll(m, b, ignore) \subseteq R
  BY <1>1, <1>2, FlushAllStaysIn
<1>. QED BY <1>3 DEF R

-----------------------------------------------------------------------------
(* What the methods about sensors can make of a medium *)

LEMMA SameOutcomes ==
    ASSUME NEW m
    PROVE  /\ PG!Done(m) = Done(m) /\ PG!Thrown(m) = Thrown(m)
           /\ RD!Done(m) = Done(m) /\ RD!Thrown(m) = Thrown(m)
           /\ RO!Done(m) = Done(m) /\ RO!Thrown(m) = Thrown(m)
           /\ TX!Done(m) = Done(m) /\ TX!Thrown(m) = Thrown(m)
           /\ MS!Done(m) = Done(m) /\ MS!Thrown(m) = Thrown(m)
BY DEF Done, Thrown, PG!Done, PG!Thrown, RD!Done, RD!Thrown, RO!Done, RO!Thrown,
       TX!Done, TX!Thrown, MS!Done, MS!Thrown

LEMMA SamePutSensor ==
    ASSUME NEW m, NEW u, NEW s
    PROVE  /\ PG!Write(m, PG!PutSensor(m.view, u, s)) = Write(m, PutSensor(m.view, u, s))
           /\ RD!Write(m, RD!PutSensor(m.view, u, s)) = Write(m, PutSensor(m.view, u, s))
           /\ TX!Write(m, TX!PutSensor(m.view, u, s)) = Write(m, PutSensor(m.view, u, s))
           /\ MS!Write(m, MS!PutSensor(m.view, u, s)) = Write(m, PutSensor(m.view, u, s))
           /\ RO!PutSensor(m.view, u, s) = PutSensor(m.view, u, s)
BY DEF Write, PG!Write, RD!Write, TX!Write, MS!Write,
       PutSensor, PG!PutSensor, RD!PutSensor, RO!PutSensor, TX!PutSensor, MS!PutSensor

LEMMA SameConversions ==
    ASSUME NEW s
    PROVE  /\ RD!Hash(s) = Converted(s, WithoutDevice) /\ RO!Keys(s) = Converted(s, WithoutDevice)
           /\ TX!Line(s) = Converted(s, WithoutDevice) /\ MS!Config(s) = Converted(s, AsPosted)
BY DEF Converted, RD!Hash, RO!Keys, TX!Line, MS!Config,
       RD!Converted, RO!Converted, TX!Converted, MS!Converted

LEMMA AsStoredByKind ==
    ASSUME NEW s
    PROVE  /\ store.kind = "postgresql" => AsStored(s) = s
           /\ store.kind \in {"redis", "rocksdb", "txt"} => AsStored(s) = Converted(s, WithoutDevice)
           /\ store.kind = "msg" => AsStored(s) = Converted(s, AsPosted)
BY DEF AsStored

\* What was converted once is not converted again.
LEMMA AsStoredIs ==
    ASSUME store \in Stores, NEW s \in Sensors
    PROVE  /\ AsStored(s) \in Sensors /\ AsStored(s).ext = s.ext /\ AsStored(s) # None
           /\ AsStored(AsStored(s)) = AsStored(s)
<1>1. ASSUME NEW c \in {WithoutDevice, AsPosted}
      PROVE  /\ Converted(s, c) \in Sensors /\ Converted(s, c).ext = s.ext
             /\ Converted(Converted(s, c), c) = Converted(s, c)
  BY ConversionsAssumption DEF Converted, Sensors
<1>2. store.kind \in Kinds
  BY KindType
<1>3. /\ AsStored(s) \in Sensors /\ AsStored(s).ext = s.ext
      /\ AsStored(AsStored(s)) = AsStored(s)
  BY <1>1, <1>2, AsStoredByKind DEF Kinds
<1>. QED BY <1>3, AbsentAssumption

LEMMA SameWithout ==
    ASSUME NEW m, NEW c, NEW u
    PROVE  /\ RD!Write(m, RD!Without(m.view, u)) = Write(m, Without(m.view, u))
           /\ TX!Write(m, TX!Without(m.view, u)) = Write(m, Without(m.view, u))
           /\ MS!Write(m, MS!Without(m.view, u)) = Write(m, Without(m.view, u))
           /\ RO!Without(c, u) = Without(c, u)
BY DEF Write, RD!Write, TX!Write, MS!Write,
       Without, RD!Without, RO!Without, TX!Without, MS!Without,
       NoReadings, RD!NoReadings, RO!NoReadings, TX!NoReadings, MS!NoReadings

LEMMA WriteIs ==
    ASSUME NEW m \in Media, NEW c
    PROVE  /\ Write(m, c).view = c /\ Write(m, c).txn = m.txn
           /\ Write(m, c).disk = IF m.txn = "none" THEN c ELSE m.disk
<1>1. CASE m.txn = "none"
  BY <1>1 DEF Write, Media
<1>2. CASE m.txn # "none"
  BY <1>2 DEF Write, Media
<1>. QED BY <1>1, <1>2

LEMMA NoiseIs ==
    ASSUME NEW m \in Media
    PROVE  RD!Noise(m).view = m.view /\ RD!Noise(m).disk = m.disk /\ RD!Noise(m).txn = m.txn
BY DEF RD!Noise, RD!Queueing, Media

\* A write of contents c.
Puts(m, n, c) == n.view = c /\ n.disk = (IF m.txn = "none" THEN c ELSE m.disk)

\* A sensor is defined, or the call changes nothing.
Defines(m, o, u, s) ==
    \/ /\ o.srv = m \/ (store.kind = "postgresql" /\ o.srv = PG!Abort(m))
       /\ o.ok = TRUE => \/ store.kind = "postgresql"
                         \/ /\ store.kind = "redis"
                            /\ m.view.sensors[u] = None /\ buf.sensors[u] # None
                         \/ store.kind = "txt" /\ m.view.sensors[u] # None
    \/ /\ store.kind # "rocksdb"
       /\ Puts(m, o.srv, PutSensor(m.view, u, s))
       /\ o.ok = FALSE => store.kind = "msg" /\ store.faulty
    \/ /\ store.kind = "rocksdb" /\ o.ok = TRUE
       /\ o.srv.view = PutSensor(m.view, u, s)
       /\ o.srv.disk.sensors = o.srv.view.sensors
       /\ o.srv.disk.readings = m.disk.readings

LEMMA PGDefines ==
    ASSUME store.kind = "postgresql", NEW m \in Media, NEW u \in Uuids, NEW s,
           NEW o \in PG!AddSensorRecord(m, u, s) \cup PG!UpdateSensorRecord(m, u, s)
    PROVE  Defines(m, o, u, AsStored(s))
<1> DEFINE n == Write(m, PutSensor(m.view, u, AsStored(s)))
<1>1. \/ o \in PG!Thrown(PG!Abort(m)) \/ o \in PG!Thrown(m) \/ o \in PG!Done(m)
      \/ o \in PG!Done(PG!Write(m, PG!PutSensor(m.view, u, s)))
  BY DEF PG!AddSensorRecord, PG!UpdateSensorRecord
<1>2. \/ o.srv = m
      \/ o.srv = PG!Abort(m)
      \/ o.srv = n /\ o.ok = TRUE
  BY <1>1, SameOutcomes, SamePutSensor, SameConversions, AsStoredByKind DEF Thrown, Done
<1>3. Puts(m, n, PutSensor(m.view, u, AsStored(s)))
  BY WriteIs DEF Puts
<1>. HIDE DEF n
<1>. QED BY <1>2, <1>3 DEF Defines

LEMMA RDDefines ==
    ASSUME store \in Stores, store.kind = "redis", NEW m \in Media, NEW u \in Uuids, NEW s \in Sensors,
           NEW o \in RD!AddSensorRecord(m, buf, u, s) \cup RD!UpdateSensorRecord(m, buf, u, s)
    PROVE  Defines(m, o, u, AsStored(s))
<1> DEFINE n == Write(m, PutSensor(m.view, u, AsStored(s)))
<1>1. \/ o \in RD!Thrown(m)
      \/ o \in RD!Done(m) /\ m.view.sensors[u] = None /\ buf.sensors[u] # None
      \/ o \in RD!Done(RD!Write(m, RD!PutSensor(m.view, u, RD!Hash(s))))
      \/ o \in RD!Done(RD!Noise(RD!Write(m, RD!PutSensor(m.view, u, RD!Hash(s)))))
  BY DEF RD!AddSensorRecord, RD!UpdateSensorRecord, RD!Exists
<1>2. \/ o \in Thrown(m)
      \/ o \in Done(m) /\ m.view.sensors[u] = None /\ buf.sensors[u] # None
      \/ o \in Done(n)
      \/ o \in Done(RD!Noise(n))
  BY <1>1, SameOutcomes, SamePutSensor, SameConversions, AsStoredByKind
<1>3. n \in Media /\ Puts(m, n, PutSensor(m.view, u, AsStored(s)))
  BY AsStoredIs, WriteIs, WriteEffect, ContentsType, MediaContents, NoOperationsType DEF Puts
<1>. HIDE DEF n
<1>4. Puts(m, RD!Noise(n), PutSensor(m.view, u, AsStored(s)))
  BY <1>3, NoiseIs DEF Puts
<1>5. \/ o.srv = m /\ o.ok = FALSE
      \/ o.srv = m /\ o.ok = TRUE /\ m.view.sensors[u] = None /\ buf.sensors[u] # None
      \/ o.ok = TRUE /\ o.srv \in {n, RD!Noise(n)}
  BY <1>2 DEF Thrown, Done
<1>. QED BY <1>3, <1>4, <1>5 DEF Defines

LEMMA RODefines ==
    ASSUME store.kind = "rocksdb", NEW m \in Media, NEW u \in Uuids, NEW s,
           NEW o \in RO!AddSensorRecord(m, u, s) \cup RO!UpdateSensorRecord(m, u, s)
    PROVE  Defines(m, o, u, AsStored(s))
<1> DEFINE c == PutSensor(m.view, u, AsStored(s))
           n == [m EXCEPT !.view = c, !.disk.sensors = c.sensors]
<1>1. \/ o \in RO!Thrown(m) \/ o \in RO!Done(RO!Directory(m, RO!PutSensor(m.view, u, RO!Keys(s))))
  BY DEF RO!AddSensorRecord, RO!UpdateSensorRecord
<1>2. o \in Thrown(m) \/ o \in Done(n)
  <2>1. RO!Keys(s) = AsStored(s)
    BY SameConversions, AsStoredByKind
  <2>2. RO!PutSensor(m.view, u, RO!Keys(s)) = c
    BY <2>1, SamePutSensor
  <2>. HIDE DEF c
  <2>. QED BY <1>1, <2>2, SameOutcomes DEF RO!Directory
<1>. HIDE DEF c
<1>3. n.view = c /\ n.disk.sensors = c.sensors /\ n.disk.readings = m.disk.readings
  BY DEF Media, Contents
<1>. HIDE DEF n
<1>4. (o.srv = m /\ o.ok = FALSE) \/ (o.srv = n /\ o.ok = TRUE)
  BY <1>2 DEF Thrown, Done
<1>. QED BY <1>3, <1>4 DEF Defines, c

LEMMA TXDefines ==
    ASSUME store.kind = "txt", NEW m \in Media, NEW u \in Uuids, NEW s,
           NEW o \in TX!AddSensorRecord(m, u, s) \cup TX!UpdateSensorRecord(m, u, s)
    PROVE  Defines(m, o, u, AsStored(s))
<1> DEFINE n == Write(m, PutSensor(m.view, u, AsStored(s)))
<1>1. \/ o \in TX!Thrown(m)
      \/ o \in TX!Done(m) /\ m.view.sensors[u] # None
      \/ o \in TX!Done(TX!Write(m, TX!PutSensor(m.view, u, TX!Line(s))))
  BY DEF TX!AddSensorRecord, TX!UpdateSensorRecord, TX!FileExists
<1>2. \/ o \in Thrown(m)
      \/ o \in Done(m) /\ m.view.sensors[u] # None
      \/ o \in Done(n)
  BY <1>1, SameOutcomes, SamePutSensor, SameConversions, AsStoredByKind
<1>3. Puts(m, n, PutSensor(m.view, u, AsStored(s)))
  BY WriteIs DEF Puts
<1>. HIDE DEF n
<1>4. \/ o.srv = m /\ o.ok = FALSE
      \/ o.srv = m /\ m.view.sensors[u] # None
      \/ o.srv = n /\ o.ok = TRUE
  BY <1>2 DEF Thrown, Done
<1>. QED BY <1>3, <1>4 DEF Defines

LEMMA MSDefines ==
    ASSUME store.kind = "msg", NEW m \in Media, NEW u \in Uuids, NEW s,
           NEW o \in MS!AddSensorRecord(m, u, s) \cup MS!UpdateSensorRecord(m, u, s)
    PROVE  Defines(m, o, u, AsStored(s))
<1> DEFINE n == Write(m, PutSensor(m.view, u, AsStored(s)))
           results == {n}
<1>1. o \in MS!Request(m, results) /\ results # {} /\ \A r \in results : r = n
  BY SameOutcomes, SamePutSensor, SameConversions, AsStoredByKind DEF MS!AddSensorRecord, MS!UpdateSensorRecord, MS!Posted
<1>2. Puts(m, n, PutSensor(m.view, u, AsStored(s)))
  BY WriteIs DEF Puts
<1>. HIDE DEF n, results
<1>3. /\ o.srv \in {m, n} /\ o.ok \in BOOLEAN
      /\ o.ok = TRUE => o.srv = n
      /\ ~store.faulty => o.ok = TRUE
  BY <1>1, RequestIs
<1>. QED BY <1>2, <1>3 DEF Defines

LEMMA DefinesSensor ==
    ASSUME store \in Stores, NEW m \in Media, NEW u \in Uuids, NEW s \in Sensors,
           NEW o \in AddSensorRecord(m, u, s) \cup UpdateSensorRecord(m, u, s)
    PROVE  Defines(m, o, u, AsStored(s))
BY PGDefines, RDDefines, RODefines, TXDefines, MSDefines, KindType
DEF AddSensorRecord, UpdateSensorRecord, Kinds

\* A sensor is removed, or the call changes nothing.
Removes(m, o, u) ==
    \/ o.srv = m /\ o.ok = FALSE
    \/ /\ store.kind = "postgresql" /\ o.ok = TRUE /\ m.txn # "aborted"
       /\ Puts(m, o.srv, PutSensor(m.view, u, None)) /\ o.srv.txn = m.txn
    \/ /\ store.kind \in {"redis", "txt", "msg"}
       /\ Puts(m, o.srv, Without(m.view, u))
       /\ o.ok = FALSE => store.kind = "msg" /\ store.faulty
    \/ /\ store.kind = "rocksdb" /\ o.ok = TRUE
       /\ o.srv.view = Without(m.view, u) /\ o.srv.disk = Without(m.disk, u)

LEMMA RemovesSensor ==
    ASSUME store \in Stores, NEW m \in Media, NEW u \in Uuids,
           NEW o \in RemoveSensorRecord(m, u)
    PROVE  Removes(m, o, u)
<1> DEFINE n == Write(m, Without(m.view, u))
<1>1. n \in Media /\ Puts(m, n, Without(m.view, u))
  BY WriteIs, WriteEffect, ContentsType, MediaContents, NoOperationsType DEF Puts
<1>. HIDE DEF n
<1>2. CASE store.kind = "postgresql"
  <2> DEFINE k == Write(m, PutSensor(m.view, u, None))
  <2>1. \/ o \in PG!Thrown(m)
        \/ m.txn # "aborted" /\ o \in PG!Done(PG!Write(m, PG!PutSensor(m.view, u, None)))
    BY <1>2 DEF RemoveSensorRecord, PG!RemoveSensorRecord, PG!Aborted
  <2>2. \/ o \in Thrown(m)
        \/ m.txn # "aborted" /\ o \in Done(k)
    BY <2>1, SameOutcomes, SamePutSensor
  <2>4. \/ o.srv = m /\ o.ok = FALSE
        \/ m.txn # "aborted" /\ o.srv = k /\ o.ok = TRUE
    BY <2>2 DEF Thrown, Done
  <2>3. Puts(m, k, PutSensor(m.view, u, None)) /\ k.txn = m.txn
    BY WriteIs DEF Puts
  <2>. HIDE DEF k
  <2>. QED BY <1>2, <2>3, <2>4 DEF Removes
<1>3. CASE store.kind = "redis"
  <2>1. \/ o \in RD!Thrown(m)
        \/ o \in RD!Done(RD!Write(m, RD!Without(m.view, u)))
        \/ o \in RD!Done(RD!Noise(RD!Write(m, RD!Without(m.view, u))))
    BY <1>3 DEF RemoveSensorRecord, RD!RemoveSensorRecord
  <2>2. o \in Thrown(m) \/ o \in Done(n) \/ o \in Done(RD!Noise(n))
    BY <2>1, SameOutcomes, SamePutSensor, SameWithout DEF n
  <2>3. Puts(m, RD!Noise(n), Without(m.view, u))
    BY <1>1, NoiseIs DEF Puts
  <2>4. \/ o.srv = m /\ o.ok = FALSE
        \/ o.ok = TRUE /\ o.srv \in {n, RD!Noise(n)}
    BY <2>2 DEF Thrown, Done
  <2>. QED BY <1>1, <1>3, <2>3, <2>4 DEF Removes
<1>4. CASE store.kind = "rocksdb"
  <2> DEFINE k == [view |-> Without(m.view, u), disk |-> Without(m.disk, u), txn |-> m.txn,
                   prepared |-> m.prepared, noisy |-> m.noisy]
  <2>1. o \in Done(k)
    BY <1>4, SameOutcomes, SamePutSensor, SameWithout DEF RemoveSensorRecord, RO!RemoveSensorRecord
  <2>2. o.srv = k /\ o.ok = TRUE
    BY <2>1 DEF Done
  <2>. QED BY <1>4, <2>2 DEF Removes
<1>5. CASE store.kind = "txt"
  <2>1. o \in Done(n)
    BY <1>5, SameOutcomes, SamePutSensor, SameWithout DEF RemoveSensorRecord, TX!RemoveSensorRecord, n
  <2>2. o.srv = n /\ o.ok = TRUE
    BY <2>1 DEF Done
  <2>. QED BY <1>1, <1>5, <2>2 DEF Removes
<1>6. CASE store.kind = "msg"
  <2> DEFINE results == IF m.view.sensors[u] = None THEN {} ELSE {n}
  <2>1. o \in MS!Request(m, results) /\ \A r \in results : r = n
    BY <1>6, SameOutcomes, SamePutSensor, SameWithout DEF RemoveSensorRecord, MS!RemoveSensorRecord, n
  <2>. HIDE DEF results
  <2>2. \/ o.srv = m /\ o.ok = FALSE
        \/ /\ o.srv \in {m, n} /\ o.ok \in BOOLEAN
           /\ o.ok = TRUE => o.srv = n
           /\ ~store.faulty => o.ok = TRUE
    BY <2>1, RequestIs
  <2>. QED BY <1>1, <1>6, <2>2 DEF Removes
<1>. QED BY <1>2, <1>3, <1>4, <1>5, <1>6, KindType DEF Kinds

-----------------------------------------------------------------------------
(***************************************************************************)
(* The sensors in memory.  Clients and sources keep a sensor's external id *)
(* (ClientsAssumption), so that the three buffers agree and no sensor      *)
(* takes over another one's id.                                            *)
(***************************************************************************)

With(f, u, x) == [f EXCEPT ![u] = x]

\* The sensors with the external id of u, whatever a medium made of them.
Own(u) == {s \in Sensors : \E d \in Definitions[u] : d.ext = s.ext}

BufferInv(b) ==
    /\ \A u \in Uuids :
          /\ b.sensors[u] \in Own(u) \cup {None}
          /\ b.ops[u] = None <=> b.sensors[u] = None
          /\ b.sensors[u] # None => b.ids[b.sensors[u].ext] = u
    /\ \A e \in ExtIds :
          b.ids[e] # None => b.sensors[b.ids[e]] # None /\ b.sensors[b.ids[e]].ext = e

LEMMA DefinitionIs ==
    ASSUME NEW u \in Uuids, NEW s \in Definitions[u]
    PROVE  s \in Sensors /\ s.ext \in ExtIds /\ s # None /\ s \in Own(u)
<1>1. s \in Sensors
  BY ClientsAssumption
<1>. QED BY <1>1, AbsentAssumption DEF Sensors, Own

LEMMA OwnIs ==
    ASSUME NEW u \in Uuids, NEW s \in Own(u)
    PROVE  /\ s \in Sensors /\ s.ext \in ExtIds /\ s # None
           /\ \A w \in Uuids : \A d \in Own(w) : s.ext = d.ext <=> u = w
           /\ \A d \in Sensors : d.ext = s.ext => d \in Own(u)
<1>1. s \in Sensors
  BY DEF Own
<1>2. ASSUME NEW w \in Uuids, NEW d \in Own(w)
      PROVE  s.ext = d.ext <=> u = w
  BY ClientsAssumption DEF Own
<1>. QED BY <1>1, <1>2, AbsentAssumption DEF Sensors, Own

LEMMA SameBuffersInv ==
    ASSUME NEW b, NEW c, BufferInv(b), SameSensors(b, c)
    PROVE  BufferInv(c)
BY DEF BufferInv, SameSensors

LEMMA EmptyBuffersInv == BufferInv(EmptyBuffers)
BY DEF BufferInv, EmptyBuffers

\* The sensor that held the external id is the one that is set.
LEMMA HolderIs ==
    ASSUME NEW b \in Buffers, BufferInv(b), NEW u \in Uuids, NEW s \in Definitions[u]
    PROVE  /\ b.ids[s.ext] \in {None, u}
           /\ b.ids[s.ext] = None => b.sensors[u] = None
           /\ \A w \in Uuids : w # u /\ b.sensors[w] # None => b.sensors[w].ext # s.ext
<1>1. s.ext \in ExtIds /\ b.ids[s.ext] \in Uuids \cup {None}
  BY DefinitionIs, OwnIs DEF Buffers
<1>2. \A w \in Uuids : b.sensors[w] # None =>
         b.sensors[w] \in Own(w) /\ b.ids[b.sensors[w].ext] = w
  BY DEF BufferInv
<1>3. \A w \in Uuids : b.sensors[w] # None => (b.sensors[w].ext = s.ext <=> w = u)
  BY <1>2, DefinitionIs, OwnIs
<1>4. CASE b.ids[s.ext] # None
  <2>1. b.ids[s.ext] \in Uuids /\ b.sensors[b.ids[s.ext]] # None
        /\ b.sensors[b.ids[s.ext]].ext = s.ext
    BY <1>1, <1>4 DEF BufferInv
  <2>. QED BY <1>3, <2>1, AbsentAssumption
<1>5. CASE b.ids[s.ext] = None
  <2>1. ASSUME b.sensors[u] # None
        PROVE  FALSE
    <3>1. b.sensors[u].ext = s.ext /\ b.ids[b.sensors[u].ext] = u
      BY <1>2, <1>3, <2>1
    <3>. QED BY <1>5, <3>1, AbsentAssumption
  <2>. QED BY <1>3, <1>5, <2>1
<1>. QED BY <1>4, <1>5

LEMMA SetBuffersInv ==
    ASSUME NEW b \in Buffers, BufferInv(b), NEW u \in Uuids, NEW s \in Definitions[u]
    PROVE  /\ BufferInv(SetBuffers(b, u, s))
           /\ SetBuffers(b, u, s).sensors = With(b.sensors, u, s)
           /\ SetBuffers(b, u, s).ops = With(b.ops, u, NoOperations)
           /\ SetBuffers(b, u, s).ids = With(b.ids, s.ext, u)
<1> DEFINE c == SetBuffers(b, u, s)
           other == b.ids[s.ext]
<1>1. /\ s \in Own(u) /\ s \in Sensors /\ s.ext \in ExtIds /\ s # None /\ u # None
      /\ other \in {None, u}
      /\ other = None => b.sensors[u] = None /\ b.ops[u] = None
      /\ \A w \in Uuids : w # None
  BY HolderIs, DefinitionIs, OwnIs, AbsentAssumption DEF BufferInv
<1>2. c.sensors = [b.sensors EXCEPT ![u] = s]
  BY <1>1 DEF SetBuffers, Buffers
<1>3. c.ops = [b.ops EXCEPT ![u] = NoOperations]
  BY <1>1 DEF SetBuffers, Buffers
<1>4. c.ids = [b.ids EXCEPT ![s.ext] = u]
  BY <1>1 DEF SetBuffers, Buffers
<1>. HIDE DEF c, other
<1>5. NoOperations # None
  BY NoOperationsType, AbsentAssumption
<1>6. ASSUME NEW w \in Uuids
      PROVE  /\ c.sensors[w] \in Own(w) \cup {None}
             /\ c.ops[w] = None <=> c.sensors[w] = None
             /\ c.sensors[w] # None => c.ids[c.sensors[w].ext] = w
  <2>1. CASE w = u
    BY <1>1, <1>2, <1>3, <1>4, <1>5, <2>1 DEF Buffers
  <2>2. CASE w # u
    <3>1. c.sensors[w] = b.sensors[w] /\ c.ops[w] = b.ops[w]
      BY <1>2, <1>3, <2>2 DEF Buffers
    <3>2. /\ b.sensors[w] \in Own(w) \cup {None}
          /\ b.ops[w] = None <=> b.sensors[w] = None
          /\ b.sensors[w] # None => b.ids[b.sensors[w].ext] = w
      BY DEF BufferInv
    <3>3. ASSUME b.sensors[w] # None
          PROVE  c.ids[b.sensors[w].ext] = w
      <4>1. b.sensors[w].ext # s.ext /\ b.sensors[w].ext \in ExtIds
        BY <2>2, <3>2, <3>3, HolderIs, DefinitionIs, OwnIs
      <4>. QED BY <1>4, <3>2, <3>3, <4>1 DEF Buffers
    <3>. QED BY <3>1, <3>2, <3>3
  <2>. QED BY <2>1, <2>2
<1>7. ASSUME NEW e \in ExtIds, c.ids[e] # None
      PROVE  c.sensors[c.ids[e]] # None /\ c.sensors[c.ids[e]].ext = e
  <2>1. CASE e = s.ext
    BY <1>1, <1>2, <1>4, <2>1 DEF Buffers
  <2>2. CASE e # s.ext
    <3>1. c.ids[e] = b.ids[e] /\ b.ids[e] \in Uuids
      BY <1>4, <1>7, <2>2 DEF Buffers
    <3>2. b.sensors[b.ids[e]] # None /\ b.sensors[b.ids[e]].ext = e
      BY <1>7, <3>1 DEF BufferInv
    <3>3. CASE b.ids[e] = u
      <4>1. b.sensors[u] \in Own(u)
        BY <3>2, <3>3 DEF BufferInv
      <4>. QED BY <1>1, <2>2, <3>2, <3>3, <4>1, OwnIs
    <3>4. CASE b.ids[e] # u
      BY <1>2, <3>1, <3>2, <3>4 DEF Buffers
    <3>. QED BY <3>3, <3>4
  <2>. QED BY <2>1, <2>2
<1>8. BufferInv(c)
  BY <1>6, <1>7 DEF BufferInv
<1>. QED BY <1>2, <1>3, <1>4, <1>8 DEF c, With

LEMMA ClearSensorInv ==
    ASSUME NEW b \in Buffers, BufferInv(b), NEW u \in Uuids, b.sensors[u] # None
    PROVE  BufferInv(ClearSensor(b, u, b.sensors[u].ext))
<1> DEFINE x == b.sensors[u].ext
           c == ClearSensor(b, u, x)
<1>1. b.sensors[u] \in Own(u) /\ b.ids[x] = u /\ x \in ExtIds
  BY DefinitionIs, OwnIs DEF BufferInv
<1>2. /\ c.sensors = [b.sensors EXCEPT ![u] = None]
      /\ c.ops = [b.ops EXCEPT ![u] = None]
      /\ c.ids = [b.ids EXCEPT ![x] = None]
  BY DEF ClearSensor
<1>. HIDE DEF c
<1>3. ASSUME NEW w \in Uuids
      PROVE  /\ c.sensors[w] \in Own(w) \cup {None}
             /\ c.ops[w] = None <=> c.sensors[w] = None
             /\ c.sensors[w] # None => c.ids[c.sensors[w].ext] = w
  <2>1. CASE w = u
    BY <1>2, <2>1 DEF Buffers
  <2>2. CASE w # u
    <3>1. c.sensors[w] = b.sensors[w] /\ c.ops[w] = b.ops[w]
      BY <1>2, <2>2 DEF Buffers
    <3>2. /\ b.sensors[w] \in Own(w) \cup {None}
          /\ b.ops[w] = None <=> b.sensors[w] = None
          /\ b.sensors[w] # None => b.ids[b.sensors[w].ext] = w
      BY DEF BufferInv
    <3>3. ASSUME b.sensors[w] # None
          PROVE  c.ids[b.sensors[w].ext] = w
      <4>1. b.sensors[w].ext # x /\ b.sensors[w].ext \in ExtIds
        BY <1>1, <2>2, <3>2, <3>3, DefinitionIs, OwnIs
      <4>. QED BY <1>2, <3>2, <3>3, <4>1 DEF Buffers
    <3>. QED BY <3>1, <3>2, <3>3
  <2>. QED BY <2>1, <2>2
<1>4. ASSUME NEW e \in ExtIds, c.ids[e] # None
      PROVE  c.sensors[c.ids[e]] # None /\ c.sensors[c.ids[e]].ext = e
  <2>1. e # x /\ c.ids[e] = b.ids[e] /\ b.ids[e] \in Uuids
    BY <1>1, <1>2, <1>4 DEF Buffers
  <2>2. b.sensors[b.ids[e]] # None /\ b.sensors[b.ids[e]].ext = e
    BY <1>4, <2>1 DEF BufferInv
  <2>3. b.ids[e] # u
    BY <2>1, <2>2
  <2>. QED BY <1>2, <2>1, <2>2, <2>3 DEF Buffers
<1>5. BufferInv(c)
  BY <1>3, <1>4 DEF BufferInv
<1>. QED BY <1>5 DEF c

LEMMA LoadBuffersInv ==
    ASSUME NEW db \in [Uuids -> Sensors \cup {None}],
           \A u \in Uuids : db[u] \in Own(u) \cup {None}
    PROVE  BufferInv(LoadBuffers(db)) /\ LoadBuffers(db).sensors = db
<1> DEFINE c == LoadBuffers(db)
           holders(e) == {w \in Uuids : db[w] # None /\ db[w].ext = e}
<1>1. \A u \in Uuids : db[u] # None => [ext |-> db[u].ext, props |-> db[u].props] = db[u]
  BY DEF Sensors
<1>2. c.sensors = db
  BY <1>1 DEF LoadBuffers
<1>3. \A u \in Uuids : c.ops[u] = IF db[u] = None THEN None ELSE NoOperations
  BY DEF LoadBuffers
<1>4. \A e \in ExtIds : /\ holders(e) = {} => c.ids[e] = None
                        /\ holders(e) # {} => c.ids[e] \in holders(e)
  BY DEF LoadBuffers
<1>. HIDE DEF c
<1>5. NoOperations # None
  BY NoOperationsType, AbsentAssumption
<1>6. ASSUME NEW u \in Uuids
      PROVE  /\ c.sensors[u] \in Own(u) \cup {None}
             /\ c.ops[u] = None <=> c.sensors[u] = None
             /\ c.sensors[u] # None => c.ids[c.sensors[u].ext] = u
  <2>1. ASSUME db[u] # None
        PROVE  c.ids[db[u].ext] = u
    <3>1. db[u] \in Own(u) /\ db[u].ext \in ExtIds /\ u \in holders(db[u].ext)
      BY <2>1, DefinitionIs, OwnIs
    <3>2. c.ids[db[u].ext] \in holders(db[u].ext)
      BY <1>4, <3>1
    <3>3. ASSUME NEW w \in holders(db[u].ext)
          PROVE  w = u
      <4>1. w \in Uuids /\ db[w] \in Own(w) /\ db[w].ext = db[u].ext
        OBVIOUS
      <4>. HIDE DEF holders
      <4>. QED BY <3>1, <4>1, OwnIs
    <3>. QED BY <3>2, <3>3
  <2>. QED BY <1>2, <1>3, <1>5, <2>1
<1>7. \A e \in ExtIds : c.ids[e] # None => c.sensors[c.ids[e]] # None /\ c.sensors[c.ids[e]].ext = e
  BY <1>2, <1>4
<1>8. BufferInv(c)
  BY <1>6, <1>7 DEF BufferInv
<1>. QED BY <1>2, <1>8 DEF c

-----------------------------------------------------------------------------
(* The invariant: what a store knows of the sensors of its medium *)

\* The sensors u may have on the medium.
Storable(u) == {s \in Own(u) : AsStored(s) = s}

\* All that a restart or a rollback can find is what the medium made of a sensor.
Defined(m) ==
    \A u \in Uuids : {m.view.sensors[u], m.disk.sensors[u]} \subseteq Storable(u) \cup {None}

\* The medium has the sensors that memory has, as it converts them.
AnswersFor(m, b) ==
    \A u \in Uuids :
        /\ m.view.sensors[u] = None <=> b.sensors[u] = None
        /\ b.sensors[u] # None => m.view.sensors[u] = AsStored(b.sensors[u])

Known(m, b) ==
    /\ store.kind = "rocksdb" => AnswersFor(m, b)
    /\ store.kind \in {"redis", "msg"} /\ ~store.faulty => AnswersFor(m, b)
    /\ \A u \in Uuids :
          /\ store.kind = "postgresql" /\ store.auto =>
                (m.view.sensors[u] # None \/ m.disk.sensors[u] # None => b.sensors[u] # None)
          /\ store.kind = "txt" => (b.sensors[u] # None => m.view.sensors[u] # None)

Sound(m, b) == Defined(m) /\ BufferInv(b) /\ Known(m, b)

\* The sensors that a running sync has not copied yet are definitions as well.
TodoInv ==
    syncing # None =>
        \A u \in Uuids : syncing.todo[u] # None => SyncedSensor(u) \in Definitions[u]

SensorsInv ==
    /\ HandlersInv
    /\ Defined(srv)
    /\ BufferInv(buf)
    /\ TodoInv
    /\ status = "open" => Known(srv, buf)

LEMMA StorableIs ==
    ASSUME store \in Stores, NEW u \in Uuids
    PROVE  /\ Storable(u) \subseteq Own(u)
           /\ \A s \in Storable(u) : AsStored(s) = s
           /\ \A s \in Definitions[u] : AsStored(s) \in Storable(u)
<1>1. ASSUME NEW s \in Definitions[u]
      PROVE  AsStored(s) \in Storable(u)
  BY DefinitionIs, AsStoredIs DEF Storable, Own
<1>. QED BY <1>1 DEF Storable

LEMMA DefinedKept ==
    ASSUME NEW m, NEW n, Defined(m), SensorsKept(m, n)
    PROVE  Defined(n)
<1>1. ASSUME NEW u \in Uuids
      PROVE  {n.view.sensors[u], n.disk.sensors[u]} \subseteq Storable(u) \cup {None}
  <2>1. {m.view.sensors[u], m.disk.sensors[u]} \subseteq Storable(u) \cup {None}
    BY DEF Defined
  <2>2. /\ n.view.sensors \in {m.view.sensors, m.disk.sensors}
        /\ n.disk.sensors \in {m.view.sensors, m.disk.sensors}
    BY DEF SensorsKept
  <2>. QED BY <2>1, <2>2
<1>. QED BY <1>1 DEF Defined

LEMMA KnownKept ==
    ASSUME NEW m, NEW n, NEW b, NEW c, Known(m, b), SensorsKept(m, n), c.sensors = b.sensors
    PROVE  Known(n, c)
<1>1. /\ n.view.sensors \in {m.view.sensors, m.disk.sensors}
      /\ n.disk.sensors \in {m.view.sensors, m.disk.sensors}
      /\ store.kind # "postgresql" => n.view.sensors = m.view.sensors
  BY DEF SensorsKept
<1>. QED BY <1>1 DEF Known, AnswersFor

LEMMA SoundKept ==
    ASSUME NEW m, NEW n, NEW b, NEW c, Sound(m, b), SensorsKept(m, n), SameSensors(b, c)
    PROVE  Sound(n, c)
BY DefinedKept, KnownKept, SameBuffersInv DEF Sound, SameSensors

(* Transactions *)

LEMMA StartedSensors ==
    ASSUME NEW m \in Media
    PROVE  SensorsKept(m, Started(m).srv)
BY StartedIs DEF SensorsKept

LEMMA CommitSensors ==
    ASSUME NEW m \in Media, HasHandler
    PROVE  /\ SensorsKept(m, Commit(m).srv)
           /\ store.kind = "redis" => Commit(m).srv.view = m.view /\ Commit(m).srv.disk = m.view
           /\ store.kind = "postgresql" /\ m.txn # "aborted" =>
                 Commit(m).srv.view = m.view /\ Commit(m).srv.disk = m.view
<1>1. CASE store.kind = "redis"
  <2>1. Commit(m) = RD!Commit(m)
    BY <1>1 DEF Commit
  <2>2. RD!Commit(m).srv.view = m.view /\ RD!Commit(m).srv.disk = m.view
    BY DEF RD!Commit, Media
  <2>. QED BY <1>1, <2>1, <2>2 DEF SensorsKept
<1>2. CASE store.kind = "postgresql"
  <2>1. Commit(m) = PG!Commit(m)
    BY <1>2 DEF Commit
  <2>2. /\ PG!Commit(m).srv.view \in {m.view, m.disk} /\ PG!Commit(m).srv.disk \in {m.view, m.disk}
        /\ m.txn # "aborted" => PG!Commit(m).srv.view = m.view /\ PG!Commit(m).srv.disk = m.view
    BY DEF PG!Commit, PG!Aborted, Media
  <2>. QED BY <1>2, <2>1, <2>2 DEF SensorsKept
<1>. QED BY <1>1, <1>2 DEF HasHandler, WithTransactions

LEMMA EndedSensors ==
    ASSUME NEW m \in Media, NEW isPending \in BOOLEAN, NEW returned \in BOOLEAN,
           isPending => HasHandler,
           store.kind = "redis" /\ isPending /\ returned = FALSE => m.view.sensors = m.disk.sensors
    PROVE  /\ SensorsKept(m, Ended(m, isPending, returned))
           /\ isPending /\ returned = TRUE /\ store.kind = "postgresql" /\ m.txn # "aborted" =>
                 /\ Ended(m, isPending, returned).view = m.view
                 /\ Ended(m, isPending, returned).disk = m.view
<1> DEFINE e == Ended(m, isPending, returned)
<1>1. CASE isPending = FALSE
  <2>1. e = m
    BY <1>1, EndedIs
  <2>. QED BY <1>1, <2>1, SensorsKeptReflexive
<1>2. CASE isPending = TRUE /\ returned = FALSE
  <2>1. e = Rollback(m).srv
    BY <1>2 DEF Ended
  <2>2. Rollback(m).srv.view = m.disk /\ Rollback(m).srv.disk = m.disk
    BY RollbackIs
  <2>. QED BY <1>2, <2>1, <2>2 DEF SensorsKept, HasHandler, WithTransactions
<1>3. CASE isPending = TRUE /\ returned = TRUE
  <2> DEFINE c == Commit(m)
  <2>1. /\ c.srv \in Media /\ SensorsKept(m, c.srv) /\ c.srv.view = c.srv.disk
        /\ c.ok \in BOOLEAN
        /\ store.kind = "postgresql" /\ m.txn # "aborted" => c.srv.view = m.view /\ c.srv.disk = m.view
    BY <1>3, CommitIs, CommitSensors
  <2>2. e = IF c.ok THEN c.srv ELSE Rollback(c.srv).srv
    BY <1>3 DEF Ended
  <2>. HIDE DEF c, e
  <2>3. Rollback(c.srv).srv.view = c.srv.view /\ Rollback(c.srv).srv.disk = c.srv.disk
    BY <2>1, RollbackIs
  <2>4. e.view = c.srv.view /\ e.disk = c.srv.disk
    BY <2>1, <2>2, <2>3
  <2>5. SensorsKept(m, e)
    BY <2>1, <2>4 DEF SensorsKept
  <2>. QED BY <2>1, <2>4, <2>5 DEF e
<1>. QED BY <1>1, <1>2, <1>3

(* Definitions and removals *)

LEMMA PutSensorIs ==
    ASSUME NEW c \in Contents, NEW u \in Uuids, NEW s
    PROVE  /\ PutSensor(c, u, s).sensors = With(c.sensors, u, s)
           /\ PutSensor(c, u, s).readings = c.readings
BY DEF PutSensor, Contents, With

LEMMA WithoutIs ==
    ASSUME NEW c, NEW u \in Uuids
    PROVE  /\ Without(c, u).sensors = With(c.sensors, u, None)
           /\ Without(c, u).readings = With(c.readings, u, NoReadings)
BY DEF Without, With

\* The medium's sensors with u as s, on disk at once or later.
SensorPut(m, n, u, s) ==
    /\ n.view.sensors = With(m.view.sensors, u, s)
    /\ n.disk.sensors \in {m.disk.sensors, n.view.sensors, With(m.disk.sensors, u, s)}

LEMMA SensorPutDefined ==
    ASSUME NEW m \in Media, NEW n, NEW u \in Uuids, NEW s \in Storable(u) \cup {None},
           Defined(m), SensorPut(m, n, u, s)
    PROVE  Defined(n)
<1>1. /\ m.view.sensors \in [Uuids -> Sensors \cup {None}]
      /\ m.disk.sensors \in [Uuids -> Sensors \cup {None}]
  BY DEF Media, Contents
<1>2. ASSUME NEW w \in Uuids
      PROVE  n.view.sensors[w] \in Storable(w) \cup {None}
             /\ n.disk.sensors[w] \in Storable(w) \cup {None}
  <2>1. /\ m.view.sensors[w] \in Storable(w) \cup {None}
        /\ m.disk.sensors[w] \in Storable(w) \cup {None}
    BY DEF Defined
  <2>2. n.view.sensors[w] \in {s, m.view.sensors[w]} /\ (n.view.sensors[w] = s => w = u \/ n.view.sensors[w] = m.view.sensors[w])
    BY <1>1 DEF SensorPut, With
  <2>3. n.disk.sensors[w] \in {m.disk.sensors[w], n.view.sensors[w]} \/ (w = u /\ n.disk.sensors[w] = s)
    BY <1>1 DEF SensorPut, With
  <2>. QED BY <2>1, <2>2, <2>3
<1>. QED BY <1>2 DEF Defined

LEMMA DefinesPuts ==
    ASSUME NEW m \in Media, NEW o, NEW u \in Uuids, NEW s, Defines(m, o, u, s)
    PROVE  \/ /\ SensorsKept(m, o.srv)
              /\ store.kind # "postgresql" => o.srv = m
              /\ o.ok = TRUE => \/ store.kind = "postgresql"
                                \/ /\ store.kind = "redis"
                                   /\ m.view.sensors[u] = None /\ buf.sensors[u] # None
                                \/ store.kind = "txt" /\ m.view.sensors[u] # None
           \/ /\ SensorPut(m, o.srv, u, s)
              /\ o.ok = FALSE => store.kind = "msg" /\ store.faulty
<1>1. m.view \in Contents
  BY MediaContents
<1>2. PutSensor(m.view, u, s).sensors = With(m.view.sensors, u, s)
  BY <1>1, PutSensorIs
<1>3. CASE Puts(m, o.srv, PutSensor(m.view, u, s))
  <2>1. SensorPut(m, o.srv, u, s)
    BY <1>2, <1>3 DEF Puts, SensorPut
  <2>2. CASE o.srv = m \/ (store.kind = "postgresql" /\ o.srv = PG!Abort(m))
    BY <2>1, <2>2, SensorsKeptReflexive, AbortSensors DEF Defines
  <2>. QED BY <2>1, <2>2 DEF Defines
<1>4. CASE ~Puts(m, o.srv, PutSensor(m.view, u, s))
  BY <1>2, <1>4, SensorsKeptReflexive, AbortSensors DEF Defines, SensorPut
<1>. QED BY <1>3, <1>4

LEMMA DefinesSound ==
    ASSUME store \in Stores, NEW m \in Media, buf \in Buffers, NEW o, NEW u \in Uuids, NEW s \in Definitions[u],
           Defines(m, o, u, AsStored(s)), Sound(m, buf)
    PROVE  /\ o.ok = TRUE => Sound(o.srv, SetBuffers(buf, u, s))
           /\ o.ok = FALSE => Sound(o.srv, buf)
<1> DEFINE b == SetBuffers(buf, u, s)
<1>1. /\ s # None /\ buf.sensors \in [Uuids -> Sensors \cup {None, NullPtr}]
      /\ AsStored(s) \in Storable(u) /\ AsStored(s) # None
  BY DefinitionIs, StorableIs, AsStoredIs DEF Buffers
<1>2. BufferInv(b) /\ b.sensors = [buf.sensors EXCEPT ![u] = s] /\ BufferInv(buf)
  <2>1. BufferInv(buf)
    BY DEF Sound
  <2>2. BufferInv(SetBuffers(buf, u, s)) /\ SetBuffers(buf, u, s).sensors = With(buf.sensors, u, s)
    BY <2>1, SetBuffersInv
  <2>. QED BY <2>1, <2>2 DEF With
<1>. HIDE DEF b
<1>3. m.view.sensors \in [Uuids -> Sensors \cup {None}] /\ m.disk.sensors \in [Uuids -> Sensors \cup {None}]
  BY DEF Media, Contents
<1>4. CASE /\ SensorsKept(m, o.srv)
           /\ store.kind # "postgresql" => o.srv = m
           /\ o.ok = TRUE => \/ store.kind = "postgresql"
                             \/ /\ store.kind = "redis"
                                /\ m.view.sensors[u] = None /\ buf.sensors[u] # None
                             \/ store.kind = "txt" /\ m.view.sensors[u] # None
  <2>1. Defined(o.srv) /\ Known(o.srv, buf)
    BY <1>4, DefinedKept, KnownKept DEF Sound
  <2>2. ASSUME o.ok = TRUE
        PROVE  Known(o.srv, b)
    <3>1. CASE store.kind = "postgresql"
      BY <1>1, <1>2, <2>1, <3>1 DEF Known
    <3>2. CASE /\ store.kind = "redis"
               /\ m.view.sensors[u] = None /\ buf.sensors[u] # None
      BY <3>2 DEF Known, Sound, AnswersFor
    <3>3. CASE store.kind = "txt" /\ m.view.sensors[u] # None
      BY <1>1, <1>2, <1>4, <2>1, <3>3 DEF Known
    <3>. QED BY <1>4, <2>2, <3>1, <3>2, <3>3
  <2>. QED BY <1>2, <2>1, <2>2 DEF Sound, b
<1>5. CASE /\ SensorPut(m, o.srv, u, AsStored(s))
           /\ o.ok = FALSE => store.kind = "msg" /\ store.faulty
  <2>1. Defined(o.srv)
    BY <1>1, <1>5, SensorPutDefined DEF Sound
  <2>2. ASSUME o.ok = FALSE
        PROVE  Known(o.srv, buf)
    BY <1>5, <2>2 DEF Known
  <2>3. ASSUME o.ok = TRUE
        PROVE  Known(o.srv, b)
    <3>1. o.srv.view.sensors = [m.view.sensors EXCEPT ![u] = AsStored(s)]
      BY <1>5 DEF SensorPut, With
    <3>2. \A w \in Uuids :
             /\ w # u => b.sensors[w] = buf.sensors[w] /\ o.srv.view.sensors[w] = m.view.sensors[w]
             /\ o.srv.disk.sensors[w] \in {m.disk.sensors[w], o.srv.view.sensors[w]} \/ w = u
             /\ b.sensors[u] # None /\ o.srv.view.sensors[u] # None
      BY <1>1, <1>2, <1>3, <1>5, <3>1 DEF SensorPut, With
    <3>3. AnswersFor(m, buf) => AnswersFor(o.srv, b)
      BY <1>1, <1>2, <1>3, <3>1, <3>2 DEF AnswersFor
    <3>. QED BY <3>2, <3>3 DEF Known, Sound
  <2>. QED BY <1>2, <2>1, <2>2, <2>3 DEF Sound, b
<1>. QED BY <1>4, <1>5, DefinesPuts

LEMMA RemovesPuts ==
    ASSUME NEW m \in Media, NEW o, NEW u \in Uuids, Removes(m, o, u)
    PROVE  \/ o.srv = m /\ o.ok = FALSE
           \/ /\ SensorPut(m, o.srv, u, None)
              /\ o.ok = FALSE => store.kind = "msg" /\ store.faulty
              /\ store.kind = "postgresql" => o.srv.txn = m.txn /\ m.txn # "aborted"
<1>1. /\ PutSensor(m.view, u, None).sensors = With(m.view.sensors, u, None)
      /\ Without(m.view, u).sensors = With(m.view.sensors, u, None)
      /\ Without(m.disk, u).sensors = With(m.disk.sensors, u, None)
  BY MediaContents, PutSensorIs, WithoutIs
<1>2. ASSUME Puts(m, o.srv, PutSensor(m.view, u, None)) \/ Puts(m, o.srv, Without(m.view, u))
      PROVE  SensorPut(m, o.srv, u, None)
  BY <1>1, <1>2 DEF SensorPut, Puts
<1>3. ASSUME o.srv.view = Without(m.view, u), o.srv.disk = Without(m.disk, u)
      PROVE  SensorPut(m, o.srv, u, None)
  BY <1>1, <1>3 DEF SensorPut
<1>. QED BY <1>2, <1>3 DEF Removes

LEMMA RemovesSound ==
    ASSUME NEW m \in Media, NEW b \in Buffers, NEW o, NEW u \in Uuids, b.sensors[u] # None,
           Removes(m, o, u), Sound(m, b)
    PROVE  /\ o.ok = FALSE => Sound(o.srv, b)
           /\ o.ok = TRUE =>
                 /\ Defined(o.srv)
                 /\ o.srv.view.sensors = With(m.view.sensors, u, None)
                 /\ store.kind # "postgresql" =>
                       Sound(o.srv, ClearSensor(b, u, b.sensors[u].ext))
                 /\ store.kind = "postgresql" => o.srv.txn = m.txn /\ m.txn # "aborted"
<1> DEFINE c == ClearSensor(b, u, b.sensors[u].ext)
<1>1. BufferInv(c) /\ c.sensors = With(b.sensors, u, None) /\ BufferInv(b)
  <2>1. BufferInv(b)
    BY DEF Sound
  <2>2. c.sensors = With(b.sensors, u, None)
    BY DEF ClearSensor, With
  <2>. QED BY <2>1, <2>2, ClearSensorInv
<1>. HIDE DEF c
<1>2. /\ b.sensors \in [Uuids -> Sensors \cup {None, NullPtr}]
      /\ m.view.sensors \in [Uuids -> Sensors \cup {None}]
  BY MediaContents DEF Buffers
<1>3. CASE o.srv = m /\ o.ok = FALSE
  BY <1>3
<1>4. CASE /\ SensorPut(m, o.srv, u, None)
           /\ o.ok = FALSE => store.kind = "msg" /\ store.faulty
           /\ store.kind = "postgresql" => o.srv.txn = m.txn /\ m.txn # "aborted"
  <2>1. Defined(o.srv) /\ o.srv.view.sensors = With(m.view.sensors, u, None)
    BY <1>4, SensorPutDefined DEF Sound, SensorPut
  <2>2. o.ok = FALSE => Sound(o.srv, b)
    BY <1>1, <1>4, <2>1 DEF Sound, Known
  <2>3. AnswersFor(m, b) => AnswersFor(o.srv, c)
    BY <1>1, <1>2, <2>1 DEF AnswersFor, With
  <2>4. \A w \in Uuids : /\ c.sensors[w] # None => b.sensors[w] # None /\ w # u
                         /\ w # u => o.srv.view.sensors[w] = m.view.sensors[w]
    BY <1>1, <1>2, <2>1 DEF With
  <2>5. store.kind # "postgresql" => Sound(o.srv, c)
    BY <1>1, <2>1, <2>3, <2>4 DEF Sound, Known
  <2>. QED BY <1>4, <2>1, <2>2, <2>5 DEF c
<1>. QED BY <1>3, <1>4, RemovesPuts

(* Flushing *)

LEMMA FlushAllSound ==
    ASSUME store \in Stores, NEW m \in Media, NEW b \in Buffers, NEW ignore \in BOOLEAN,
           BufferInv(b), NEW o \in FlushAll(m, b, ignore)
    PROVE  /\ SensorsKept(m, o.srv) /\ SameSensors(b, o.buf)
           /\ o.srv \in Media /\ o.ok \in BOOLEAN
           /\ store.kind = "redis" => o.ok = TRUE
<1>1. \A u \in Buffered(b) : b.ops[u] # None
  BY DEF BufferInv, Buffered
<1>. QED BY <1>1, FlushAllSensors, FlushAllEffect DEF FlushOutcomes

LEMMA FlushIfDueSensors ==
    ASSUME store \in Stores, due \in BOOLEAN, NEW m \in Media, NEW b \in Buffers, BufferInv(b),
           NEW mayWrite \in BOOLEAN, NEW o \in FlushIfDue(m, b, mayWrite)
    PROVE  /\ SensorsKept(m, o.srv) /\ SameSensors(b, o.buf)
           /\ o.srv \in Media /\ o.ok \in BOOLEAN
           /\ store.kind = "redis" /\ mayWrite = TRUE => o.ok = TRUE
<1>1. SameSensors(b, o.buf) /\ o.srv \in Media /\ o.ok \in BOOLEAN
  BY FlushIfDueEffect
<1>2. CASE ~due
  <2>1. o.srv = m /\ o.ok = TRUE
    BY <1>2 DEF FlushIfDue
  <2>. QED BY <1>1, <2>1, SensorsKeptReflexive
<1>3. CASE due /\ mayWrite = FALSE
  <2>1. o.srv = m
    BY <1>3 DEF FlushIfDue
  <2>. QED BY <1>1, <1>3, <2>1, SensorsKeptReflexive
<1>4. CASE due /\ mayWrite = TRUE
  <2> DEFINE h == Started(m)
  <2>1. h.srv \in Media /\ h.ok \in BOOLEAN /\ SensorsKept(m, h.srv) /\ (h.ok => HasHandler)
    BY StartedIs, StartedSensors
  <2>2. PICK p \in Call(m, LAMBDA n : FlushAll(n, b, TRUE)) :
           o.srv = p.srv /\ o.ok = p.ok
    <3>1. PICK p \in Call(m, LAMBDA n : FlushAll(n, b, TRUE)) :
             o = [srv |-> p.srv, buf |-> p.buf, ok |-> p.ok,
                  due |-> store.kind = "txt" \/ ~p.ok]
      BY <1>4 DEF FlushIfDue
    <3>. QED BY <3>1
  <2>3. PICK q \in FlushAll(h.srv, b, TRUE) : p = [q EXCEPT !.srv = Ended(q.srv, h.ok, q.ok)]
    BY <2>2 DEF Call
  <2>4. /\ q \in FlushOutcomes /\ SensorsKept(h.srv, q.srv)
        /\ q.srv \in Media /\ q.ok \in BOOLEAN
        /\ store.kind = "redis" => q.ok = TRUE
    BY <2>1, FlushAllSound, FlushAllEffect
  <2>5. p.srv = Ended(q.srv, h.ok, q.ok) /\ p.ok = q.ok
    BY <2>3, <2>4 DEF FlushOutcomes
  <2>. HIDE DEF h
  <2>6. SensorsKept(q.srv, p.srv)
    BY <2>1, <2>4, <2>5, EndedSensors
  <2>7. SensorsKept(m, o.srv)
    BY <2>1, <2>2, <2>4, <2>6, SensorsKeptTransitive
  <2>. QED BY <1>1, <2>2, <2>4, <2>5, <2>7
<1>. QED BY <1>2, <1>3, <1>4

(* The steps *)

LEMMA SensorsInit == Init => SensorsInv
<1>. SUFFICES ASSUME Init PROVE SensorsInv
  OBVIOUS
<1>1. HandlersInv
  BY HandlersInit
<1>2. srv.view = Nothing /\ srv.disk = Nothing /\ buf = EmptyBuffers /\ syncing = None
  BY DEF Init, Disconnected
<1>3. Defined(srv)
  <2>1. \A u \in Uuids : Nothing.sensors[u] = None
    BY DEF Nothing
  <2>. QED BY <1>2, <2>1 DEF Defined
<1>4. Known(srv, buf)
  BY <1>2 DEF Known, AnswersFor, Nothing, EmptyBuffers
<1>. QED BY <1>1, <1>2, <1>3, <1>4, EmptyBuffersInv DEF SensorsInv, TodoInv

LEMMA SoundStep ==
    ASSUME HandlersInv', store' = store, Defined(srv'), BufferInv(buf'), TodoInv',
           status' = "open" => Known(srv', buf')
    PROVE  SensorsInv'
<1>1. \A s : AsStored(s)' = AsStored(s)
  BY DEF AsStored
<1>2. \A u \in Uuids : Storable(u)' = Storable(u)
  BY <1>1 DEF Storable
<1>3. Defined(srv)'
  BY <1>2 DEF Defined
<1>4. Known(srv', buf') => Known(srv, buf)'
  BY <1>1 DEF Known, AnswersFor
<1>. QED BY <1>3, <1>4 DEF SensorsInv, BufferInv

LEMMA SameTodo ==
    ASSUME TodoInv, syncing' = syncing \/ syncing' = None
    PROVE  TodoInv'
BY DEF TodoInv, SyncedSensor

\* What holds of the medium between two calls.
LEMMA IdleIs ==
    ASSUME SensorsInv, status = "open"
    PROVE  /\ store \in Stores /\ srv \in Media /\ buf \in Buffers
           /\ due \in BOOLEAN /\ beat \in BOOLEAN /\ pending \in BOOLEAN
           /\ Started(srv).srv \in Media /\ Started(srv).ok \in BOOLEAN
           /\ Started(srv).ok => HasHandler
           /\ Sound(srv, buf) /\ Sound(Started(srv).srv, buf)
           /\ store.kind = "redis" /\ Started(srv).ok /\ syncing = None =>
                 srv.view.sensors = srv.disk.sensors
<1>1. /\ store \in Stores /\ srv \in Media /\ buf \in Buffers
      /\ due \in BOOLEAN /\ beat \in BOOLEAN /\ pending \in BOOLEAN
  BY DEF SensorsInv, HandlersInv, BackendTypeOK
<1>2. Sound(srv, buf)
  BY DEF SensorsInv, Sound
<1>3. Sound(Started(srv).srv, buf)
  BY <1>1, <1>2, StartedSensors, SoundKept, SameReflexive
<1>4. /\ Started(srv).srv \in Media /\ Started(srv).ok \in BOOLEAN
      /\ Started(srv).ok => HasHandler /\ store.auto
  BY <1>1, StartedIs
<1>5. store.auto /\ syncing = None => srv.txn = "none"
  BY DEF SensorsInv, HandlersInv
<1>6. store.kind = "redis" /\ srv.txn = "none" => srv.view = srv.disk
  BY DEF SensorsInv, HandlersInv, Kept
<1>. QED BY <1>1, <1>2, <1>3, <1>4, <1>5, <1>6

\* The end of a call.
LEMMA CallSound ==
    ASSUME SensorsInv, status = "open", syncing = None, NEW o \in Outcomes, NEW b \in Buffers,
           Sound(o.srv, b), store.kind = "redis" /\ o.ok = FALSE => o.srv = Started(srv).srv
    PROVE  Sound(Ended(o.srv, Started(srv).ok, o.ok), b)
<1>1. o.srv \in Media /\ o.ok \in BOOLEAN
  BY DEF Outcomes
<1>2. Started(srv).srv.view = srv.view /\ Started(srv).srv.disk = srv.disk
  BY IdleIs, StartedIs
<1>3. SensorsKept(o.srv, Ended(o.srv, Started(srv).ok, o.ok))
  BY <1>1, <1>2, IdleIs, EndedSensors
<1>. QED BY <1>3, SoundKept, SameReflexive

LEMMA SensorActionSound ==
    ASSUME SensorsInv, HandlersInv', NEW u \in Uuids,
           (\E s \in Definitions[u] : AddSensor(u, s) \/ UpdateSensor(u, s)) \/ RemoveSensor(u)
    PROVE  SensorsInv'
<1> DEFINE m == Started(srv).srv
<1>1. /\ status = "open" /\ syncing = None /\ UNCHANGED <<store, syncing, status>>
      /\ (HasHandler => store.auto \/ pending)
  BY DEF AddSensor, UpdateSensor, RemoveSensor, SensorCall, MayWrite, Idle
<1>2. store \in Stores /\ srv \in Media /\ buf \in Buffers /\ m \in Media /\ Sound(m, buf)
  BY <1>1, IdleIs
<1>3. TodoInv'
  BY <1>1 DEF TodoInv
<1>4. ASSUME NEW s \in Definitions[u], AddSensor(u, s) \/ UpdateSensor(u, s)
      PROVE  SensorsInv'
  <2>1. PICK o \in AddSensorRecord(m, u, s) \cup UpdateSensorRecord(m, u, s) :
           /\ o \in Outcomes
           /\ srv' = Ended(o.srv, Started(srv).ok, o.ok)
           /\ buf' = IF o.ok THEN SetBuffers(buf, u, s) ELSE buf
    BY <1>2, <1>4, AddSensorIs, UpdateSensorIs
  <2>2. s \in Sensors
    BY DefinitionIs
  <2>. HIDE DEF m
  <2>3. Defines(m, o, u, AsStored(s))
    BY <1>2, <2>2, DefinesSensor
  <2>4. /\ o.ok = TRUE => Sound(o.srv, SetBuffers(buf, u, s))
        /\ o.ok = FALSE => Sound(o.srv, buf)
    BY <1>2, <2>3, DefinesSound
  <2>5. store.kind = "redis" /\ o.ok = FALSE => o.srv = m
    BY <2>3 DEF Defines
  <2>6. buf' \in Buffers /\ Sound(o.srv, buf')
    <3>1. o.ok = TRUE \/ o.ok = FALSE
      BY <2>1 DEF Outcomes
    <3>2. SetBuffers(buf, u, s) \in Buffers
      BY <1>2, <2>2, SetBuffersType
    <3>. QED BY <1>2, <2>1, <2>4, <3>1, <3>2
  <2>7. Sound(srv', buf')
    BY <1>1, <2>1, <2>5, <2>6, CallSound DEF m
  <2>. QED BY <1>1, <1>3, <2>7, SoundStep DEF Sound
<1>5. CASE RemoveSensor(u)
  <2> DEFINE c == ClearSensor(buf, u, buf.sensors[u].ext)
  <2>1. PICK o \in RemoveSensorRecord(m, u) :
           /\ o \in Outcomes
           /\ srv' = Ended(o.srv, Started(srv).ok, o.ok)
           /\ buf' = IF o.ok THEN c ELSE buf
    BY <1>2, <1>5, RemoveSensorIs
  <2>2. buf.sensors[u] # None
    BY <1>5 DEF RemoveSensor
  <2>. HIDE DEF m
  <2>3. Removes(m, o, u)
    BY <1>2, RemovesSensor
  <2>4. /\ o.ok = FALSE => Sound(o.srv, buf)
        /\ o.ok = TRUE =>
              /\ Defined(o.srv)
              /\ o.srv.view.sensors = With(m.view.sensors, u, None)
              /\ store.kind # "postgresql" => Sound(o.srv, c)
              /\ store.kind = "postgresql" => o.srv.txn = m.txn /\ m.txn # "aborted"
    BY <1>2, <2>2, <2>3, RemovesSound
  <2>5. store.kind = "redis" /\ o.ok = FALSE => o.srv = m
    BY <2>3 DEF Removes
  <2>6. c \in Buffers /\ o.ok \in BOOLEAN /\ o.srv \in Media
    BY <1>2, <2>1, OtherBuffersType DEF Outcomes
  <2>7. BufferInv(c) /\ c.sensors = With(buf.sensors, u, None)
    <3>1. BufferInv(buf)
      BY <1>2 DEF Sound
    <3>2. c.sensors = With(buf.sensors, u, None)
      BY DEF ClearSensor, With
    <3>. QED BY <1>2, <2>2, <3>1, <3>2, ClearSensorInv
  <2>. HIDE DEF c
  <2>8. CASE o.ok = FALSE \/ store.kind # "postgresql"
    <3>1. buf' \in Buffers /\ Sound(o.srv, buf')
      BY <1>2, <2>1, <2>4, <2>6, <2>8
    <3>2. Sound(srv', buf')
      BY <1>1, <2>1, <2>5, <3>1, CallSound DEF m
    <3>. QED BY <1>1, <1>3, <3>2, SoundStep DEF Sound
  <2>9. CASE o.ok = TRUE /\ store.kind = "postgresql"
    <3>1. buf' = c /\ BufferInv(c)
      BY <2>1, <2>7, <2>9
    <3>2. /\ SensorsKept(o.srv, srv')
          /\ Started(srv).ok => srv'.view = o.srv.view /\ srv'.disk = o.srv.view
      BY <1>1, <2>1, <2>4, <2>6, <2>9, IdleIs, EndedSensors
    <3>3. Defined(srv')
      BY <2>4, <2>9, <3>2, DefinedKept
    <3>4. store.auto => Started(srv).ok
      BY <1>1, <2>9, <1>2, StartedIs DEF SensorsInv, HandlersInv, HasHandler, WithTransactions
    <3>5. m.view = srv.view /\ m.view.sensors \in [Uuids -> Sensors \cup {None}]
      BY <1>2, StartedIs, MediaContents DEF m
    <3>6. ASSUME store.auto, NEW w \in Uuids,
                 srv'.view.sensors[w] # None \/ srv'.disk.sensors[w] # None
          PROVE  c.sensors[w] # None
      <4>1. srv'.view.sensors = With(m.view.sensors, u, None)
            /\ srv'.disk.sensors = With(m.view.sensors, u, None)
        BY <2>4, <2>9, <3>2, <3>4, <3>6
      <4>2. w # u /\ m.view.sensors[w] # None
        BY <3>5, <3>6, <4>1 DEF With
      <4>3. buf.sensors[w] # None
        BY <1>2, <2>9, <3>6, <4>2 DEF Sound, Known
      <4>. QED BY <1>2, <2>7, <4>2, <4>3 DEF With, Buffers
    <3>7. Known(srv', buf')
      BY <2>9, <3>1, <3>6 DEF Known
    <3>. QED BY <1>1, <1>3, <3>1, <3>3, <3>7, SoundStep
  <2>. QED BY <2>6, <2>8, <2>9
<1>. QED BY <1>4, <1>5

-----------------------------------------------------------------------------
(* Prepare *)

\* What prepare reads: the medium's sensors, or none in a directory.
PreparedFrom(m, p) ==
    /\ p.srv.view = m.view /\ p.srv.disk = m.disk
    /\ store.kind \in {"postgresql", "redis", "msg"} => p.sensors = m.view.sensors
    /\ store.kind \in {"rocksdb", "txt"} => p.sensors = Nothing.sensors
    /\ store.kind = "rocksdb" /\ p.ok = TRUE => \A u \in Uuids : m.view.sensors[u] = None
    /\ store.kind = "redis" => p.ok = TRUE

LEMMA PreparesIs ==
    ASSUME store \in Stores, NEW m \in Media, m.txn = "none", NEW p \in Prepares(m)
    PROVE  PreparedFrom(m, p)
<1>1. CASE store.kind = "postgresql"
  <2> DEFINE n == PG!PrepareStatements(m).srv
  <2>1. n = m \/ n = [m EXCEPT !.prepared = TRUE]
    BY DEF PG!PrepareStatements, PG!Abort
  <2>2. [m EXCEPT !.prepared = TRUE].view = m.view /\ [m EXCEPT !.prepared = TRUE].disk = m.disk
        /\ [m EXCEPT !.prepared = TRUE].txn = m.txn
    BY DEF Media
  <2>3. p.srv = n /\ p.sensors = PG!GetSensorRecords(n)
    BY <1>1 DEF Prepares, PG!Prepare
  <2>. HIDE DEF n
  <2>4. n.view = m.view /\ n.disk = m.disk /\ n.txn = "none"
    BY <2>1, <2>2
  <2>. QED BY <1>1, <2>3, <2>4 DEF PreparedFrom, PG!GetSensorRecords, PG!Aborted
<1>2. CASE store.kind = "redis"
  <2>1. p.srv = RD!Noise(m) /\ p.ok = TRUE /\ p.sensors = RD!GetSensorRecords(m)
    BY <1>2 DEF Prepares, RD!Prepare
  <2>2. RD!GetSensorRecords(m) = m.view.sensors
    BY DEF RD!GetSensorRecords, RD!Visible, RD!Queueing
  <2>. QED BY <1>2, <2>1, <2>2, NoiseIs DEF PreparedFrom
<1>3. CASE store.kind = "rocksdb"
  <2>1. p = [srv |-> m, ok |-> \A u \in Uuids : m.view.sensors[u] = None,
             sensors |-> Nothing.sensors]
    BY <1>3, SameReadings DEF Prepares, RO!Prepare
  <2>. QED BY <1>3, <2>1 DEF PreparedFrom
<1>4. CASE store.kind = "txt"
  <2>1. p = [srv |-> m, ok |-> TRUE, sensors |-> Nothing.sensors]
    BY <1>4, SameReadings DEF Prepares, TX!Prepare, TX!GetSensorRecords
  <2>. QED BY <1>4, <2>1 DEF PreparedFrom
<1>5. CASE store.kind = "msg"
  <2>1. PICK r \in MS!Request(m, {m}) : p = [srv |-> m, ok |-> r.ok, sensors |-> m.view.sensors]
    BY <1>5 DEF Prepares, MS!Prepare
  <2>. QED BY <1>5, <2>1 DEF PreparedFrom
<1>. QED BY <1>1, <1>2, <1>3, <1>4, <1>5, KindType DEF Kinds

\* A store that could be prepared knows the medium's sensors.
LEMMA PreparesSound ==
    ASSUME store \in Stores, NEW m \in Media, m.txn = "none", Kept(m), Defined(m),
           NEW p \in Prepares(m)
    PROVE  /\ p.srv \in Media /\ p.ok \in BOOLEAN
           /\ p.srv.disk = m.disk /\ Defined(p.srv)
           /\ store.kind = "redis" => p.ok = TRUE
           /\ BufferInv(LoadBuffers(p.sensors))
           /\ p.ok = TRUE => Known(p.srv, LoadBuffers(p.sensors))
<1>1. PreparedFrom(m, p) /\ p \in Preparations
  BY PreparesIs, PreparesEffect
<1>2. p.srv \in Media /\ p.ok \in BOOLEAN /\ p.sensors \in [Uuids -> Sensors \cup {None}]
  BY <1>1 DEF Preparations
<1>3. /\ Nothing.sensors \in [Uuids -> Sensors \cup {None}]
      /\ m.view.sensors \in [Uuids -> Sensors \cup {None}]
      /\ \A u \in Uuids : Nothing.sensors[u] = None
  BY MediaContents DEF Nothing
<1>4. store.kind \in Kinds
  BY KindType
<1>5. \A u \in Uuids : p.sensors[u] \in Storable(u) \cup {None}
  BY <1>1, <1>3, <1>4 DEF PreparedFrom, Defined, Kinds
<1>6. BufferInv(LoadBuffers(p.sensors)) /\ LoadBuffers(p.sensors).sensors = p.sensors
  BY <1>2, <1>5, StorableIs, LoadBuffersInv
<1>7. Defined(p.srv)
  BY <1>1 DEF PreparedFrom, Defined
<1>8. store.kind = "rocksdb" /\ p.ok = TRUE => p.sensors = m.view.sensors
  BY <1>1, <1>3 DEF PreparedFrom
<1>9. store.kind = "txt" => \A u \in Uuids : p.sensors[u] = None
  BY <1>1, <1>3 DEF PreparedFrom
<1>10. store.kind = "postgresql" => m.view = m.disk
  BY DEF Kept
<1>11. p.sensors = p.srv.view.sensors => AnswersFor(p.srv, LoadBuffers(p.sensors))
  BY <1>5, <1>6, StorableIs DEF AnswersFor
<1>12. p.ok = TRUE => Known(p.srv, LoadBuffers(p.sensors))
  BY <1>1, <1>6, <1>8, <1>9, <1>10, <1>11 DEF PreparedFrom, Known
<1>. QED BY <1>1, <1>2, <1>6, <1>7, <1>12 DEF PreparedFrom

-----------------------------------------------------------------------------
(* The client's transactions *)

LEMMA TransactionSound ==
    ASSUME SensorsInv, HandlersInv', StartTransaction \/ CommitTransaction \/ RollbackTransaction
    PROVE  SensorsInv'
<1>1. /\ status = "open" /\ syncing = None /\ ~store.auto
      /\ UNCHANGED <<store, status, syncing>>
  BY DEF StartTransaction, CommitTransaction, RollbackTransaction, Idle
<1>2. store \in Stores /\ srv \in Media /\ buf \in Buffers /\ Sound(srv, buf)
      /\ pending \in BOOLEAN
  BY <1>1, IdleIs
<1>3. TodoInv'
  BY <1>1 DEF TodoInv
<1>4. HasHandler
  BY <1>1, <1>2, StoresAssumption DEF HasHandler
<1>5. CASE StartTransaction
  <2>1. SensorsKept(srv, srv') /\ buf' = buf
    BY <1>2, <1>4, <1>5, BeginIs DEF StartTransaction, SensorsKept
  <2>. QED BY <1>1, <1>2, <1>3, <2>1, SoundKept, SameReflexive, SoundStep DEF Sound
<1>6. CASE CommitTransaction
  <2>1. PICK o \in FlushAll(srv, buf, TRUE) :
           /\ srv' = (IF o.ok /\ pending THEN Commit(o.srv)
                      ELSE [srv |-> o.srv, ok |-> ~pending]).srv
           /\ buf' = o.buf
    BY <1>6 DEF CommitTransaction
  <2>2. SensorsKept(srv, o.srv) /\ SameSensors(buf, o.buf) /\ o.srv \in Media
    BY <1>2, FlushAllSound DEF Sound
  <2>3. srv' = o.srv \/ srv' = Commit(o.srv).srv
    BY <2>1
  <2>4. SensorsKept(srv, srv')
    BY <1>4, <2>2, <2>3, CommitSensors, SensorsKeptTransitive
  <2>. QED BY <1>1, <1>2, <1>3, <2>1, <2>2, <2>4, SoundKept, SoundStep DEF Sound
<1>7. CASE RollbackTransaction
  <2> DEFINE n == (IF pending THEN Rollback(srv) ELSE [srv |-> srv, ok |-> TRUE]).srv
  <2>1. PICK p \in Prepares(n) :
           srv' = p.srv /\ buf' = IF p.ok THEN LoadBuffers(p.sensors) ELSE EmptyBuffers
    BY <1>7 DEF RollbackTransaction
  <2>2. ASSUME pending = TRUE PROVE n \in Media /\ n.txn = "none" /\ Kept(n) /\ Defined(n)
    <3>1. n = Rollback(srv).srv
      BY <2>2
    <3>. HIDE DEF n
    <3>2. n \in Media /\ n.txn = "none" /\ n.view = srv.disk /\ n.disk = srv.disk
      BY <1>2, <3>1, RollbackIs
    <3>. QED BY <1>2, <3>2 DEF Kept, Sound, Defined
  <2>3. ASSUME pending = FALSE PROVE n \in Media /\ n.txn = "none" /\ Kept(n) /\ Defined(n)
    <3>1. n = srv
      BY <2>3
    <3>. HIDE DEF n
    <3>. QED BY <1>2, <2>3, <3>1 DEF SensorsInv, HandlersInv
  <2>4. n \in Media /\ n.txn = "none" /\ Kept(n) /\ Defined(n)
    BY <1>2, <2>2, <2>3
  <2>. HIDE DEF n
  <2>5. /\ Defined(p.srv) /\ p.ok \in BOOLEAN /\ (store.kind = "redis" => p.ok = TRUE)
        /\ BufferInv(LoadBuffers(p.sensors))
        /\ p.ok = TRUE => Known(p.srv, LoadBuffers(p.sensors))
    BY <1>2, <2>4, PreparesSound
  <2>6. CASE p.ok = TRUE
    BY <1>1, <1>3, <2>1, <2>5, <2>6, SoundStep
  <2>7. CASE p.ok = FALSE
    <3>1. store.kind = "postgresql"
      BY <1>4, <2>5, <2>7 DEF HasHandler, WithTransactions
    <3>2. Known(p.srv, EmptyBuffers)
      BY <1>1, <3>1 DEF Known
    <3>3. buf' = EmptyBuffers
      BY <2>1, <2>7
    <3>. QED BY <1>1, <1>3, <2>1, <2>5, <3>2, <3>3, EmptyBuffersInv, SoundStep
  <2>. QED BY <2>5, <2>6, <2>7
<1>. QED BY <1>5, <1>6, <1>7

-----------------------------------------------------------------------------
(* Readings *)

LEMMA BufferReadingsSame ==
    ASSUME NEW b \in Buffers, NEW u \in Uuids, b.ops[u] # None, NEW rs \in Readings, NEW kind
    PROVE  SameSensors(b, BufferReadings(b, u, rs, kind))
<1> DEFINE x == [ins |-> IF kind = "INSERT" THEN KeepFirst(b.ops[u].ins, rs) ELSE b.ops[u].ins,
                 upd |-> IF kind = "UPDATE" THEN KeepFirst(b.ops[u].upd, rs) ELSE b.ops[u].upd]
<1>1. BufferReadings(b, u, rs, kind) \in Buffers
  BY BufferReadingsType
<1>2. BufferReadings(b, u, rs, kind) = [b EXCEPT !.ops[u] = x]
  BY DEF BufferReadings
<1>3. x \in Operations
  BY OperationsType, KeepFirstType DEF Operations
<1>4. x # None
  BY <1>3, AbsentAssumption
<1>. HIDE DEF x
<1>. QED BY <1>1, <1>2, <1>4 DEF SameSensors, Buffers

LEMMA ReadingsActionSound ==
    ASSUME SensorsInv, HandlersInv',
           \/ \E u \in Uuids : \E rs \in Batches[u], kind \in {"INSERT", "UPDATE"} :
                 AddReadings(u, rs, kind)
           \/ \E ignore \in BOOLEAN : Flush(ignore)
           \/ BeatAndFlush
           \/ \E u \in Uuids : Query(u)
    PROVE  SensorsInv'
<1>1. /\ status = "open" /\ syncing = None
      /\ UNCHANGED <<store, status, syncing>>
  BY DEF AddReadings, Flush, BeatAndFlush, Query, MayWrite, Idle
<1>2. /\ store \in Stores /\ srv \in Media /\ buf \in Buffers /\ due \in BOOLEAN
      /\ Sound(srv, buf) /\ Sound(Started(srv).srv, buf) /\ BufferInv(buf)
      /\ Started(srv).srv \in Media
  BY <1>1, IdleIs DEF Sound
<1>3. TodoInv'
  BY <1>1 DEF TodoInv
<1>4. Sound(srv', buf') => SensorsInv'
  BY <1>1, <1>3, SoundStep DEF Sound
<1>5. ASSUME NEW u \in Uuids, NEW rs \in Batches[u], NEW kind \in {"INSERT", "UPDATE"},
             AddReadings(u, rs, kind)
      PROVE  SensorsInv'
  <2> DEFINE b == BufferReadings(buf, u, rs, kind)
  <2>1. rs \in Readings
    BY ClientsAssumption
  <2>2. SameSensors(buf, b)
    BY <1>2, <1>5, <2>1, BufferReadingsSame DEF AddReadings
  <2>3. PICK o \in FlushIfDue(srv, b, MayWrite) : srv' = o.srv /\ buf' = o.buf
    BY <1>5 DEF AddReadings
  <2>4. b \in Buffers /\ BufferInv(b) /\ MayWrite \in BOOLEAN
    BY <1>2, <2>2, SameBuffersInv DEF SameSensors, MayWrite, Idle
  <2>. HIDE DEF b
  <2>5. SensorsKept(srv, o.srv) /\ SameSensors(b, o.buf)
    BY <1>2, <2>3, <2>4, FlushIfDueSensors
  <2>6. Sound(srv', buf')
    BY <1>2, <2>2, <2>3, <2>5, SameTransitive, SoundKept
  <2>. QED BY <1>4, <2>6
<1>6. ASSUME NEW ignore \in BOOLEAN, Flush(ignore)
      PROVE  SensorsInv'
  <2>1. PICK o \in FlushAll(Started(srv).srv, buf, ignore) :
           /\ o \in FlushOutcomes
           /\ srv' = Ended(o.srv, Started(srv).ok, o.ok)
           /\ buf' = o.buf
    BY <1>2, <1>6, FlushIs
  <2>2. /\ SensorsKept(Started(srv).srv, o.srv) /\ SameSensors(buf, o.buf)
        /\ store.kind = "redis" => o.ok = TRUE
    BY <1>2, FlushAllSound
  <2> DEFINE r == [srv |-> o.srv, ok |-> o.ok]
  <2>3. r \in Outcomes /\ r.srv = o.srv /\ r.ok = o.ok /\ o.buf \in Buffers
    BY <2>1 DEF FlushOutcomes, Outcomes
  <2>4. Sound(o.srv, o.buf)
    BY <1>2, <2>2, SoundKept
  <2>. HIDE DEF r
  <2>5. Sound(srv', buf')
    BY <1>1, <2>1, <2>2, <2>3, <2>4, CallSound
  <2>. QED BY <1>4, <2>5
<1>7. ASSUME BeatAndFlush
      PROVE  SensorsInv'
  <2>1. PICK o \in FlushAll(srv, buf, TRUE) :
           (srv' = o.srv /\ buf' = o.buf) \/ (srv' = srv /\ buf' = buf)
    <3>1. PICK through \in MS!Heartbeats(beat), o \in FlushAll(srv, buf, TRUE) :
             /\ srv' = IF through THEN o.srv ELSE srv
             /\ buf' = IF through THEN o.buf ELSE buf
      BY <1>7 DEF BeatAndFlush
    <3>2. through = TRUE => srv' = o.srv /\ buf' = o.buf
      BY <3>1
    <3>3. through = FALSE => srv' = srv /\ buf' = buf
      BY <3>1
    <3>4. through = TRUE \/ through = FALSE
      BY DEF MS!Heartbeats
    <3>. QED BY <3>2, <3>3, <3>4
  <2>2. SensorsKept(srv, o.srv) /\ SameSensors(buf, o.buf)
    BY <1>2, FlushAllSound
  <2>3. Sound(o.srv, o.buf)
    BY <1>2, <2>2, SoundKept
  <2>4. Sound(srv', buf')
    BY <1>2, <2>1, <2>3
  <2>. QED BY <1>4, <2>4
<1>8. ASSUME NEW u \in Uuids, Query(u)
      PROVE  SensorsInv'
  <2>1. PICK o \in FlushSensor(srv, buf, u, TRUE) :
           /\ srv' = IF store.kind = "redis" THEN RD!Queried(o.srv) ELSE o.srv
           /\ buf' = o.buf
    BY <1>8 DEF Query
  <2>2. o \in FlushOutcomes /\ SameSensors(buf, o.buf) /\ SensorsKept(srv, o.srv)
    BY <1>2, FlushSensorEffect, FlushSensorSensors
  <2>3. RD!Queried(o.srv) = RD!Noise(o.srv) /\ o.srv \in Media
    BY <2>2 DEF RD!Queried, FlushOutcomes
  <2>4. srv'.view = o.srv.view /\ srv'.disk = o.srv.disk
    BY <2>1, <2>3, NoiseIs
  <2>5. SensorsKept(srv, srv')
    BY <2>2, <2>4 DEF SensorsKept
  <2>6. Sound(srv', buf')
    BY <1>2, <2>1, <2>2, <2>5, SoundKept
  <2>. QED BY <1>4, <2>6
<1>. QED BY <1>5, <1>6, <1>7, <1>8

-----------------------------------------------------------------------------
(* Synchronisation *)

LEMMA SyncGoesOnSound ==
    ASSUME SensorsInv, HandlersInv', NEW u \in Uuids, NEW m \in Media, NEW ok \in BOOLEAN,
           SyncGoesOn(u, m, ok), syncing # None, status = "open", UNCHANGED <<store, status>>,
           Sound(m, buf'), store.kind = "redis" /\ ok = FALSE => store.faulty
    PROVE  SensorsInv'
<1>1. syncing \in Syncs /\ pending \in BOOLEAN /\ store \in Stores
      /\ (pending => HasHandler)
  BY DEF SensorsInv, HandlersInv, BackendTypeOK
<1>2. store.auto \in BOOLEAN
  BY <1>1, StoresAssumption
<1>3. CASE ok = TRUE
  <2>1. srv' = m /\ syncing' = [syncing EXCEPT !.todo[u] = None]
    BY <1>3 DEF SyncGoesOn
  <2>2. \A w \in Uuids : syncing'.todo[w] \in {None, syncing.todo[w]}
    BY <1>1, <2>1 DEF Syncs, WholeDatabases, Databases, HasTable
  <2>3. TodoInv'
    BY <2>2 DEF TodoInv, SensorsInv, SyncedSensor
  <2>. QED BY <2>1, <2>3, SoundStep DEF Sound
<1>4. CASE ok = FALSE
  <2> DEFINE isPending == store.auto /\ pending
  <2>1. srv' = Ended(m, isPending, FALSE) /\ syncing' = None
    BY <1>4 DEF SyncGoesOn
  <2>2. isPending \in BOOLEAN /\ (isPending => HasHandler)
    BY <1>1, <1>2
  <2>. HIDE DEF isPending
  <2>3. TodoInv'
    BY <2>1 DEF TodoInv
  <2>4. CASE store.kind = "redis" /\ isPending
    <3>1. srv'.disk = m.disk /\ srv'.view = m.disk
      BY <2>1, <2>2, <2>4, EndedIs
    <3>2. Defined(srv')
      BY <3>1 DEF Sound, Defined
    <3>3. Known(srv', buf')
      BY <1>4, <2>4 DEF Known
    <3>. QED BY <2>3, <3>2, <3>3, SoundStep DEF Sound
  <2>5. CASE ~(store.kind = "redis" /\ isPending)
    <3>1. SensorsKept(m, srv')
      BY <2>1, <2>2, <2>5, EndedSensors
    <3>2. Sound(srv', buf')
      BY <3>1, SoundKept, SameReflexive DEF Sound, SensorsInv, HandlersInv,
         BackendTypeOK
    <3>. QED BY <2>3, <3>2, SoundStep DEF Sound
  <2>. QED BY <2>4, <2>5
<1>. QED BY <1>3, <1>4

\* A sync finds each sensor under its own uuid.
LEMMA SyncedLocally ==
    ASSUME SensorsInv, NEW u \in Uuids, syncing # None, syncing.todo[u] # None
    PROVE  /\ SyncedSensor(u) \in Definitions[u]
           /\ LocalSensor(u) = u
           /\ SyncedSensor(u).ext = syncing.todo[u].ext
           /\ buf.ids[syncing.todo[u].ext] = None => buf.sensors[u] = None
<1>1. SyncedSensor(u) \in Definitions[u] /\ SyncedSensor(u).ext = syncing.todo[u].ext
  BY DEF SensorsInv, TodoInv, SyncedSensor
<1>2. buf \in Buffers /\ BufferInv(buf)
  BY DEF SensorsInv, HandlersInv, BackendTypeOK
<1>3. buf.ids[SyncedSensor(u).ext] \in {None, u}
      /\ (buf.ids[SyncedSensor(u).ext] = None => buf.sensors[u] = None)
  BY <1>1, <1>2, HolderIs
<1>. QED BY <1>1, <1>3 DEF LocalSensor

\* What one iteration makes of the medium and the buffers, before the flush
\* that may be due.
LEMMA SyncRecordsSound ==
    ASSUME SensorsInv, status = "open", NEW u \in Uuids, syncing # None,
           syncing.todo[u] # None,
           buf.ids[syncing.todo[u].ext] # None =>
              buf.sensors[buf.ids[syncing.todo[u].ext]] # None,
           NEW r \in SyncRecords(u)
    PROVE  /\ r.srv \in Media /\ r.ok \in BOOLEAN
           /\ r.ok = TRUE => Sound(r.srv, SyncBuffers(u))
           /\ r.ok = FALSE => Sound(r.srv, buf)
           /\ store.kind = "redis" => r.ok = TRUE
<1> DEFINE s == SyncedSensor(u)
           known == buf.ids[syncing.todo[u].ext]
<1>1. /\ store \in Stores /\ srv \in Media /\ buf \in Buffers /\ Sound(srv, buf)
      /\ BackendTypeOK /\ BufferInv(buf)
  BY IdleIs DEF SensorsInv, HandlersInv
<1>2. /\ s \in Definitions[u] /\ LocalSensor(u) = u /\ s.ext = syncing.todo[u].ext
      /\ known = None => buf.sensors[u] = None
  BY SyncedLocally
<1>3. s \in Sensors /\ s = [ext |-> s.ext, props |-> s.props]
  BY <1>2, DefinitionIs DEF Sensors
<1>4. r.srv \in Media /\ r.ok \in BOOLEAN
  BY <1>1, SyncTypes DEF Effective, Outcomes
<1>5. SyncBuffers(u) = SetBuffers(buf, u, s)
  BY <1>2 DEF SyncBuffers
<1>6. known # None => buf.sensors[u] # None /\ buf.sensors[u].ext = s.ext
  BY <1>1, <1>2, <1>3, HolderIs DEF BufferInv, LocalSensor, Sensors
<1>7. s.props = syncing.todo[u].props
  BY DEF SyncedSensor
<1>8. \/ known = None /\ r \in AddSensorRecord(srv, u, s)
      \/ known # None /\ r \in UpdateSensorRecord(srv, u, s)
      \/ known # None /\ buf.sensors[u].props = s.props /\ r \in Done(srv)
  BY <1>2, <1>7 DEF SyncRecords
<1>. HIDE DEF s, known
<1>9. CASE r \in AddSensorRecord(srv, u, s) /\ known = None
  <2>1. Defines(srv, r, u, AsStored(s))
    BY <1>1, <1>3, <1>9, DefinesSensor
  <2>2. store.kind = "redis" => r.ok = TRUE
    BY <1>2, <1>9, SameOutcomes DEF AddSensorRecord, RD!AddSensorRecord, RD!Exists, RD!Done
  <2>. QED BY <1>1, <1>2, <1>4, <1>5, <2>1, <2>2, DefinesSound
<1>10. CASE r \in UpdateSensorRecord(srv, u, s) /\ known # None
  <2>1. Defines(srv, r, u, AsStored(s))
    BY <1>1, <1>3, <1>10, DefinesSensor
  <2>2. store.kind = "redis" => r.ok = TRUE
    BY <1>6, <1>10, SameOutcomes DEF UpdateSensorRecord, RD!UpdateSensorRecord, RD!Exists, RD!Done
  <2>. QED BY <1>1, <1>2, <1>4, <1>5, <2>1, <2>2, DefinesSound
<1>11. CASE known # None /\ buf.sensors[u].props = s.props /\ r \in Done(srv)
  <2>1. r.srv = srv /\ r.ok = TRUE
    BY <1>11 DEF Done
  <2>2. buf.sensors[u] \in Sensors
    BY <1>1, <1>6, <1>11, OwnIs DEF BufferInv
  <2>3. buf.sensors[u] = s
    BY <1>3, <1>6, <1>11, <2>2 DEF Sensors
  <2>4. buf.sensors \in [Uuids -> Sensors \cup {None, NullPtr}]
    BY <1>1 DEF Buffers
  <2>5. With(buf.sensors, u, s) = buf.sensors
    BY <2>3, <2>4 DEF With
  <2>6. BufferInv(SetBuffers(buf, u, s)) /\ SetBuffers(buf, u, s).sensors = buf.sensors
    BY <1>1, <1>2, <2>5, SetBuffersInv
  <2>7. Sound(srv, SetBuffers(buf, u, s))
    BY <1>1, <2>6 DEF Sound, Known, AnswersFor
  <2>. QED BY <1>4, <1>5, <2>1, <2>7
<1>. QED BY <1>8, <1>9, <1>10, <1>11

LEMMA SyncActionSound ==
    ASSUME SensorsInv, HandlersInv',
           \/ \E u \in Uuids : SyncSensor(u) \/ SyncSourceFails(u)
           \/ SyncEnd
           \/ \E src \in Sources, readings \in BOOLEAN : SyncBegin(src, readings)
    PROVE  SensorsInv'
<1>1. status = "open" /\ UNCHANGED <<store, status>>
  <2>1. \A u \in Uuids : SyncSensor(u) => status = "open" /\ UNCHANGED <<store, status>>
    BY SyncSensorIs
  <2>. QED BY <2>1 DEF SyncSourceFails, SyncEnd, SyncBegin, MayWrite, Idle
<1>2. /\ store \in Stores /\ srv \in Media /\ buf \in Buffers /\ due \in BOOLEAN
      /\ Sound(srv, buf) /\ Sound(Started(srv).srv, buf) /\ BufferInv(buf)
      /\ pending \in BOOLEAN /\ BackendTypeOK
  BY <1>1, IdleIs DEF Sound, SensorsInv, HandlersInv
<1>3. ASSUME NEW u \in Uuids, SyncSensor(u)
      PROVE  SensorsInv'
  <2>1. PICK r \in SyncRecords(u) :
           \/ ~r.ok /\ SyncGoesOn(u, r.srv, FALSE) /\ UNCHANGED <<buf, due>>
           \/ /\ r.ok /\ ~Copying(u) /\ SyncGoesOn(u, r.srv, TRUE)
              /\ buf' = SyncBuffers(u) /\ due' = due
           \/ /\ r.ok /\ Copying(u)
              /\ \E o \in FlushIfDue(r.srv, SyncBuffered(u), TRUE) :
                    SyncGoesOn(u, o.srv, o.ok) /\ buf' = o.buf /\ due' = o.due
    BY <1>3, SyncSensorIs
  <2>2. /\ syncing # None /\ syncing.todo[u] # None
        /\ buf.ids[syncing.todo[u].ext] # None =>
              buf.sensors[buf.ids[syncing.todo[u].ext]] # None
    BY <1>3, SyncSensorIs
  <2>3. /\ r.srv \in Media /\ r.ok \in BOOLEAN
        /\ r.ok = TRUE => Sound(r.srv, SyncBuffers(u))
        /\ r.ok = FALSE => Sound(r.srv, buf)
        /\ store.kind = "redis" => r.ok = TRUE
    BY <1>1, <2>2, SyncRecordsSound
  <2>4. CASE ~r.ok /\ SyncGoesOn(u, r.srv, FALSE) /\ UNCHANGED <<buf, due>>
    <3>1. Sound(r.srv, buf') /\ store.kind # "redis"
      BY <2>3, <2>4
    <3>. QED BY <1>1, <2>2, <2>3, <2>4, <3>1, SyncGoesOnSound
  <2>5. CASE /\ r.ok /\ ~Copying(u) /\ SyncGoesOn(u, r.srv, TRUE)
             /\ buf' = SyncBuffers(u) /\ due' = due
    <3>1. Sound(r.srv, buf')
      BY <2>3, <2>5
    <3>. QED BY <1>1, <2>2, <2>3, <2>5, <3>1, SyncGoesOnSound
  <2>6. ASSUME r.ok = TRUE, NEW o \in FlushIfDue(r.srv, SyncBuffered(u), TRUE),
               SyncGoesOn(u, o.srv, o.ok), buf' = o.buf, due' = o.due
        PROVE  SensorsInv'
    <3>1. /\ SyncBuffers(u) \in Buffers /\ LocalSensor(u) \in Uuids
          /\ syncing.todo[u].readings \in Readings /\ SyncedSensor(u) \in Sensors
      BY <1>2, <2>2, SyncTypes
    <3>2. SyncBuffers(u).ops[LocalSensor(u)] # None
      BY <1>2, <3>1, SetBuffersType DEF SyncBuffers
    <3>3. SameSensors(SyncBuffers(u), SyncBuffered(u))
      BY <3>1, <3>2, BufferReadingsSame DEF SyncBuffered
    <3>4. Sound(r.srv, SyncBuffered(u)) /\ SyncBuffered(u) \in Buffers
      BY <2>3, <2>6, <3>3, SoundKept, SensorsKeptReflexive DEF SameSensors
    <3>5. /\ SensorsKept(r.srv, o.srv) /\ SameSensors(SyncBuffered(u), o.buf)
          /\ o.srv \in Media /\ o.ok \in BOOLEAN
          /\ store.kind = "redis" => o.ok = TRUE
      BY <1>2, <2>3, <3>4, FlushIfDueSensors DEF Sound
    <3>6. Sound(o.srv, buf')
      BY <2>6, <3>4, <3>5, SoundKept
    <3>. QED BY <1>1, <2>2, <2>6, <3>5, <3>6, SyncGoesOnSound
  <2>. QED BY <2>1, <2>3, <2>4, <2>5, <2>6
<1>4. ASSUME NEW u \in Uuids, SyncSourceFails(u)
      PROVE  SensorsInv'
  BY <1>1, <1>2, <1>4, SyncGoesOnSound DEF SyncSourceFails
<1>5. CASE SyncEnd
  <2> DEFINE isPending == store.auto /\ pending
  <2>1. srv' = Ended(srv, isPending, TRUE) /\ syncing' = None /\ buf' = buf
    BY <1>5 DEF SyncEnd
  <2>2. isPending \in BOOLEAN /\ (isPending => HasHandler)
    BY <1>2, StoresAssumption DEF SensorsInv, HandlersInv
  <2>. HIDE DEF isPending
  <2>3. SensorsKept(srv, srv')
    BY <1>2, <2>1, <2>2, EndedSensors
  <2>4. Sound(srv', buf')
    BY <1>2, <2>1, <2>3, SoundKept, SameReflexive
  <2>. QED BY <1>1, <2>1, <2>4, SoundStep DEF TodoInv, Sound
<1>6. ASSUME NEW src \in Sources, NEW readings \in BOOLEAN, SyncBegin(src, readings)
      PROVE  SensorsInv'
  <2>1. syncing' = [todo |-> src, readings |-> readings] /\ srv' = Started(srv).srv /\ buf' = buf
    BY <1>6 DEF SyncBegin
  <2>2. TodoInv'
    BY <2>1, SourcesAssumption DEF TodoInv, SyncedSensor
  <2>. QED BY <1>1, <1>2, <2>1, <2>2, SoundStep DEF Sound
<1>. QED BY <1>3, <1>4, <1>5, <1>6

-----------------------------------------------------------------------------
(* Life cycle *)

LEMMA PreparedSound ==
    ASSUME SensorsInv, HandlersInv', NEW m \in Media, m.txn = "none", Kept(m), Defined(m),
           NEW beats \in BOOLEAN, Prepared(m, beats)
    PROVE  SensorsInv'
<1>1. PICK p \in Prepares(m) :
         /\ srv' = IF p.ok THEN p.srv ELSE Disconnected(p.srv.disk)
         /\ buf' = IF p.ok THEN LoadBuffers(p.sensors) ELSE EmptyBuffers
         /\ status' = IF p.ok THEN "open" ELSE "closed"
         /\ UNCHANGED <<store, pending, syncing>>
  BY DEF Prepared
<1>2. /\ Defined(p.srv) /\ p.ok \in BOOLEAN /\ p.srv.disk = m.disk
      /\ BufferInv(LoadBuffers(p.sensors))
      /\ p.ok = TRUE => Known(p.srv, LoadBuffers(p.sensors))
  BY PreparesSound DEF SensorsInv, HandlersInv, BackendTypeOK
<1>3. TodoInv'
  BY <1>1, SameTodo DEF SensorsInv
<1>4. CASE p.ok = TRUE
  BY <1>1, <1>2, <1>3, <1>4, SoundStep
<1>5. CASE p.ok = FALSE
  <2>1. Defined(Disconnected(m.disk))
    BY DEF Defined, Disconnected
  <2>. QED BY <1>1, <1>2, <1>3, <1>5, <2>1, EmptyBuffersInv, SoundStep
<1>. QED BY <1>2, <1>4, <1>5

\* What closing, dropping and creating a store leave of the medium.
LEMMA LifeCycleForms ==
    ASSUME store \in Stores, NEW m \in Media
    PROVE  /\ \/ HasHandler /\ Closed(m) = Disconnected(m.disk)
              \/ store.kind = "rocksdb" /\ Closed(m) = Disconnected(m.view)
              \/ store.kind \in {"txt", "msg"} /\ Closed(m) = m
           /\ \A n \in Disposals(m) :
                 \/ HasHandler /\ n = Disconnected(Write(m, Nothing).disk)
                 \/ store.kind \in {"rocksdb", "txt"} /\ n = Disconnected(Nothing)
                 \/ store.kind = "msg" /\ (n = m \/ n = Write(m, Nothing))
           /\ \A i \in Initializations(m) :
                 \/ store.kind \in {"rocksdb", "txt"} /\ i.srv = Disconnected(Nothing)
                 \/ store.kind \notin {"rocksdb", "txt"} /\ i.srv = m
<1>1. \A n, i : i \in Done(n) => i.srv = n
  BY DEF Done
<1>2. CASE store.kind = "postgresql"
  <2>1. Closed(m) = Disconnected(m.disk)
    BY <1>2, SameOperators DEF Closed, PG!Close
  <2>2. Disposals(m) = {Disconnected(Write(m, Nothing).disk)}
    BY <1>2, SameOperators, SameReadings DEF Disposals, PG!Close, PG!Dispose
  <2>3. Initializations(m) = Done(m)
    BY <1>2 DEF Initializations, WithTransactions
  <2>. QED BY <1>1, <1>2, <2>1, <2>2, <2>3 DEF HasHandler, WithTransactions
<1>3. CASE store.kind = "redis"
  <2>1. Closed(m) = Disconnected(m.disk)
    BY <1>3, SameOperators DEF Closed, RD!Close
  <2>2. Disposals(m) = {Disconnected(Write(m, Nothing).disk)}
    BY <1>3, SameOperators, SameReadings DEF Disposals, RD!Close, RD!Dispose
  <2>3. Initializations(m) = Done(m)
    BY <1>3 DEF Initializations, WithTransactions
  <2>. QED BY <1>1, <1>3, <2>1, <2>2, <2>3 DEF HasHandler, WithTransactions
<1>4. CASE store.kind = "rocksdb"
  <2>1. /\ Closed(m) = Disconnected(m.view) /\ Disposals(m) = {Disconnected(Nothing)}
        /\ Initializations(m) = Done(Disconnected(Nothing))
    BY <1>4, SameOperators, SameReadings
    DEF Closed, Disposals, Initializations, RO!Close, RO!Dispose, RO!Initialize, WithTransactions
  <2>. QED BY <1>1, <1>4, <2>1
<1>5. CASE store.kind = "txt"
  <2>1. /\ Closed(m) = m /\ Disposals(m) = {Disconnected(Nothing)}
        /\ Initializations(m) = Done(Disconnected(Nothing))
    BY <1>5, SameOperators, SameReadings
    DEF Closed, Disposals, Initializations, TX!Close, TX!Dispose, TX!Initialize, WithTransactions
  <2>. QED BY <1>1, <1>5, <2>1
<1>6. CASE store.kind = "msg"
  <2>1. Closed(m) = m
    BY <1>6 DEF Closed, MS!Close
  <2>2. ASSUME NEW n \in Disposals(m) PROVE n = m \/ n = Write(m, Nothing)
    <3> DEFINE results == {Write(m, Nothing)}
    <3>1. PICK r \in MS!Request(m, results) : n = r.srv
      BY <1>6, SameOperators, SameReadings DEF Disposals, MS!Dispose, MS!Posted
    <3>2. \A x \in results : x = Write(m, Nothing)
      OBVIOUS
    <3>. HIDE DEF results
    <3>. QED BY <3>1, <3>2, RequestIs
  <2>3. ASSUME NEW i \in Initializations(m) PROVE i.srv = m
    <3> DEFINE results == {m}
    <3>1. i \in MS!Request(m, results)
      BY <1>6 DEF Initializations, MS!Initialize, WithTransactions
    <3>2. \A x \in results : x = m
      OBVIOUS
    <3>. HIDE DEF results
    <3>. QED BY <3>1, <3>2, RequestIs
  <2>. QED BY <1>6, <2>1, <2>2, <2>3
<1>. QED BY <1>2, <1>3, <1>4, <1>5, <1>6, KindType DEF Kinds

\* What closing, creating and dropping a store leaves was defined by a client.
LEMMA LifeCycleDefined ==
    ASSUME store \in Stores, NEW m \in Media, Defined(m)
    PROVE  /\ Defined(Closed(m))
           /\ \A n \in Disposals(m) : Defined(n)
           /\ \A i \in Initializations(m) : Defined(i.srv)
<1>1. \A u \in Uuids : Nothing.sensors[u] = None
  BY DEF Nothing
<1>2. /\ Defined(Disconnected(Nothing)) /\ Defined(Disconnected(m.disk))
      /\ Defined(Disconnected(m.view))
  BY <1>1 DEF Defined, Disconnected
<1>3. Defined(Write(m, Nothing)) /\ Defined(Disconnected(Write(m, Nothing).disk))
  BY <1>1, WriteIs DEF Defined, Disconnected
<1>. QED BY <1>2, <1>3, LifeCycleForms

LEMMA LifeCycleSound ==
    ASSUME SensorsInv, HandlersInv', Create \/ Open \/ Close \/ Dispose \/ Crash
    PROVE  SensorsInv'
<1>1. store \in Stores /\ srv \in Media /\ Kept(srv) /\ Defined(srv)
  BY DEF SensorsInv, HandlersInv, BackendTypeOK
<1>2. status # "open" => srv.txn = "none"
  BY DEF SensorsInv, HandlersInv
<1>3. CASE Create
  <2>1. PICK i \in Initializations(srv) : Prepared(i.srv, TRUE)
    BY <1>3 DEF Create
  <2>2. i.srv \in Media /\ i.srv.txn = "none" /\ Kept(i.srv)
    BY <1>1, <1>2, <1>3, <2>1, LifeCycleEffect DEF Create, Outcomes
  <2>3. Defined(i.srv)
    BY <1>1, <2>1, LifeCycleDefined
  <2>. QED BY <2>1, <2>2, <2>3, PreparedSound
<1>4. CASE Open
  BY <1>1, <1>2, <1>4, PreparedSound DEF Open
<1>5. CASE Close \/ Dispose \/ Crash
  <2>1. Defined(srv')
    <3>1. Defined(Disconnected(srv.disk))
      BY <1>1 DEF Defined, Disconnected
    <3>. QED BY <1>1, <1>5, <3>1, LifeCycleDefined DEF Close, Dispose, Crash
  <2>2. buf' = EmptyBuffers /\ status' # "open" /\ store' = store
        /\ (syncing' = syncing \/ syncing' = None)
    BY <1>5 DEF Close, Dispose, Crash
  <2>3. TodoInv'
    BY <2>2, SameTodo DEF SensorsInv
  <2>. QED BY <2>1, <2>2, <2>3, EmptyBuffersInv, SoundStep
<1>. QED BY <1>3, <1>4, <1>5

LEMMA OtherSound ==
    ASSUME SensorsInv, HandlersInv',
           (\E u \in Uuids : PersistReadings(u)) \/ TimeoutElapses \/ UNCHANGED vars
    PROVE  SensorsInv'
<1>1. srv \in Media
  BY DEF SensorsInv, HandlersInv, BackendTypeOK
<1>2. \A u \in Uuids : /\ RO!Persist(srv, u).view = srv.view
                       /\ RO!Persist(srv, u).disk.sensors = srv.disk.sensors
  BY <1>1 DEF RO!Persist, Media, Contents
<1>3. /\ srv'.view = srv.view /\ srv'.disk.sensors = srv.disk.sensors
      /\ UNCHANGED <<store, buf, status, syncing>>
  BY <1>2 DEF PersistReadings, TimeoutElapses, vars
<1>4. TodoInv' /\ Defined(srv') /\ BufferInv(buf')
  BY <1>3, SameTodo DEF SensorsInv, Defined
<1>5. status' = "open" => Known(srv', buf')
  BY <1>3 DEF SensorsInv, Known, AnswersFor
<1>. QED BY <1>3, <1>4, <1>5, SoundStep

-----------------------------------------------------------------------------
(* The invariant *)

LEMMA SensorsStep ==
    ASSUME SensorsInv, HandlersInv', [Next]_vars
    PROVE  SensorsInv'
<1>1. CASE StartTransaction \/ CommitTransaction \/ RollbackTransaction
  BY <1>1, TransactionSound
<1>2. ASSUME NEW u \in Uuids,
             (\E s \in Definitions[u] : AddSensor(u, s) \/ UpdateSensor(u, s)) \/ RemoveSensor(u)
      PROVE  SensorsInv'
  BY <1>2, SensorActionSound
<1>3. ASSUME \/ \E u \in Uuids : \E rs \in Batches[u], kind \in {"INSERT", "UPDATE"} :
                   AddReadings(u, rs, kind)
             \/ \E ignore \in BOOLEAN : Flush(ignore)
             \/ BeatAndFlush
             \/ \E u \in Uuids : Query(u)
      PROVE  SensorsInv'
  BY <1>3, ReadingsActionSound
<1>4. ASSUME \/ \E u \in Uuids : SyncSensor(u) \/ SyncSourceFails(u)
             \/ SyncEnd
             \/ \E src \in Sources, readings \in BOOLEAN : SyncBegin(src, readings)
      PROVE  SensorsInv'
  BY <1>4, SyncActionSound
<1>5. CASE Create \/ Open \/ Close \/ Dispose \/ Crash
  BY <1>5, LifeCycleSound
<1>6. CASE (\E u \in Uuids : PersistReadings(u)) \/ TimeoutElapses \/ UNCHANGED vars
  BY <1>6, OtherSound
<1>. QED BY <1>1, <1>2, <1>3, <1>4, <1>5, <1>6 DEF Next

\* Every sensor a store knows or keeps is one a client defined, its buffers
\* agree with each other, and while it is open with its medium.
THEOREM SensorsInvariant == Spec => []SensorsInv
<1>1. Init => SensorsInv
  BY SensorsInit
<1>2. SensorsInv /\ HandlersInv' /\ [Next]_vars => SensorsInv'
  BY SensorsStep
<1>. QED BY <1>1, <1>2, HandlersInvariant, PTL DEF Spec

\* An open store answers for the very sensors of its medium, in transactions,
\* syncs, after rollbacks and restarts, as far as its kind keeps the two alike.
THEOREM SensorsStayBuffered == Spec => []SensorsAreBuffered
<1>1. SensorsInv => SensorsAreBuffered
  BY DEF SensorsInv, Known, AnswersFor, SensorsAreBuffered
<1>. QED BY <1>1, SensorsInvariant, PTL

-----------------------------------------------------------------------------
(***************************************************************************)
(* What becomes of readings on disk.  A reading that a connection still    *)
(* sees as it is on disk is kept by everything but the removal of its      *)
(* sensor, the end of the store, and an update in PostgreSQL.              *)
(***************************************************************************)

Replaces == store.kind \in {"redis", "rocksdb", "msg"}

StillThere(new, old) == new = old \/ (new # None /\ Replaces)

ReadingsKept(m, n, u) ==
    \A t \in Times :
        /\ m.disk.readings[u][t] # None
        /\ StillThere(m.view.readings[u][t], m.disk.readings[u][t])
        => /\ StillThere(n.disk.readings[u][t], m.disk.readings[u][t])
           /\ StillThere(n.view.readings[u][t], m.disk.readings[u][t])

\* The step takes the readings of both sides from what was there.
ReadingsSettled(m, n, u) ==
    {n.view.readings[u], n.disk.readings[u]} \subseteq {m.view.readings[u], m.disk.readings[u]}

LEMMA SettledKept ==
    ASSUME NEW m, NEW n, NEW u, ReadingsSettled(m, n, u)
    PROVE  ReadingsKept(m, n, u)
BY DEF ReadingsSettled, ReadingsKept, StillThere

LEMMA ReadingsKeptReflexive == ASSUME NEW m, NEW u PROVE ReadingsKept(m, m, u)
BY DEF ReadingsKept, StillThere

LEMMA ReadingsKeptTransitive ==
    ASSUME NEW m, NEW n, NEW k, NEW u, ReadingsKept(m, n, u), ReadingsKept(n, k, u)
    PROVE  ReadingsKept(m, k, u)
BY DEF ReadingsKept, StillThere

\* PostgreSQL has no update to carry out for the sensor.
Calm(b, u) ==
    store.kind = "postgresql" /\ b.ops[u] # None => b.ops[u].upd = NoReadings

LEMMA PutReadingsIs ==
    ASSUME NEW c \in Contents, NEW u \in Uuids, NEW rs
    PROVE  /\ PutReadings(c, u, rs).readings = With(c.readings, u, rs)
           /\ PutReadings(c, u, rs).sensors = c.sensors
BY DEF PutReadings, With, Contents

LEMMA WrittenKept ==
    ASSUME store \in Stores, NEW m \in Media, NEW u \in Uuids, NEW w \in Uuids, NEW n, NEW inserting,
           ReadingsWritten(m, n, w, inserting),
           u # w \/ inserting \/ store.kind # "postgresql"
    PROVE  ReadingsKept(m, n, u)
<1>1. CASE n = m
  BY <1>1, ReadingsKeptReflexive
<1>2. CASE store.kind = "postgresql" /\ n = PG!Abort(m)
  <2>1. n.disk = m.disk /\ n.view \in {m.view, m.disk}
    BY <1>2 DEF PG!Abort, Media
  <2>. QED BY <2>1, SettledKept DEF ReadingsSettled
<1>3. CASE /\ store.kind # "rocksdb"
           /\ \E new \in Readings : /\ Grown(m.view.readings[w], new, inserting)
                                    /\ n = Write(m, PutReadings(m.view, w, new))
  <2>1. PICK new \in Readings : /\ Grown(m.view.readings[w], new, inserting)
                                /\ n = Write(m, PutReadings(m.view, w, new))
    BY <1>3
  <2> DEFINE c == PutReadings(m.view, w, new)
  <2>2. m.view \in Contents /\ m.view.readings \in [Uuids -> Readings]
    BY MediaContents DEF Contents
  <2>3. c.readings = With(m.view.readings, w, new)
    BY <2>2, PutReadingsIs
  <2>. HIDE DEF c
  <2>4. c.readings[w] = new /\ (u # w => c.readings[u] = m.view.readings[u])
    BY <2>2, <2>3 DEF With
  <2>5. n.view = c /\ n.disk \in {c, m.disk}
    BY <2>1, WriteIs DEF c
  <2>6. CASE u # w
    BY <2>4, <2>5, <2>6, SettledKept DEF ReadingsSettled
  <2>7. CASE u = w
    <3>1. \A t \in Times : /\ m.view.readings[w][t] # None => new[t] # None
                           /\ ~Replaces => \/ m.view.readings[w][t] = None
                                           \/ new[t] = m.view.readings[w][t]
      BY <1>3, <2>1, <2>7, KindType DEF Grown, Replaces, Kinds
    <3>2. n.view.readings[u] = new /\ n.disk.readings[u] \in {new, m.disk.readings[u]}
      BY <2>4, <2>5, <2>7
    <3>. QED BY <2>7, <3>1, <3>2 DEF ReadingsKept, StillThere
  <2>. QED BY <2>6, <2>7
<1>4. CASE /\ store.kind = "rocksdb"
           /\ \E new \in Readings : /\ Grown(m.view.readings[w], new, inserting)
                                    /\ n = Remember(m, w, new)
  <2>1. PICK new \in Readings : /\ Grown(m.view.readings[w], new, inserting)
                                /\ n = Remember(m, w, new)
    BY <1>4
  <2>2. /\ n.disk = m.disk /\ n.view.readings[w] = new
        /\ u # w => n.view.readings[u] = m.view.readings[u]
    BY <2>1 DEF Remember, Media, Contents
  <2>. QED BY <1>4, <2>1, <2>2 DEF ReadingsKept, StillThere, Grown, Replaces
<1>. QED BY <1>1, <1>2, <1>3, <1>4 DEF ReadingsWritten

LEMMA FlushedOperations ==
    ASSUME NEW b \in Buffers, NEW w \in Uuids, b.ops[w] # None
    PROVE  /\ ClearOperations(b, {w}).ops = With(b.ops, w, NoOperations)
           /\ [b EXCEPT !.ops[w].ins = NoReadings].ops =
                 With(b.ops, w, [ins |-> NoReadings, upd |-> b.ops[w].upd])
<1>1. b.ops \in [Uuids -> Operations \cup {None}]
  BY DEF Buffers
<1>2. ClearOperations(b, {w}).ops = With(b.ops, w, NoOperations)
  BY <1>1 DEF ClearOperations, With, Buffers
<1>3. b.ops[w] \in Operations
  BY OperationsType
<1>4. [b.ops[w] EXCEPT !.ins = NoReadings] = [ins |-> NoReadings, upd |-> b.ops[w].upd]
  BY <1>3 DEF Operations
<1>5. [b EXCEPT !.ops[w].ins = NoReadings].ops =
         [b.ops EXCEPT ![w] = [b.ops[w] EXCEPT !.ins = NoReadings]]
  BY <1>1 DEF Buffers
<1>. QED BY <1>2, <1>4, <1>5 DEF With

LEMMA FlushSensorKept ==
    ASSUME store \in Stores, NEW m \in Media, NEW b \in Buffers, NEW w \in Uuids,
           NEW ignore \in BOOLEAN, NEW o \in FlushSensor(m, b, w, ignore), NEW u \in Uuids,
           Calm(b, u)
    PROVE  ReadingsKept(m, o.srv, u) /\ Calm(o.buf, u)
<1>1. CASE b.ops[w] = None
  BY <1>1, FlushSensorIs, ReadingsKeptReflexive
<1>2. CASE b.ops[w] # None
  <2>1. b.ops[w].ins \in Readings /\ b.ops[w].upd \in Readings
        /\ b.ops \in [Uuids -> Operations \cup {None}]
    BY <1>2, OperationsType DEF Buffers
  <2>2. \A i \in InsertReadings(m, w, b.ops[w].ins, ignore) : ReadingsKept(m, i.srv, u)
    BY <2>1, ReadingsForms, WrittenKept
  <2>3. ASSUME NEW n \in Media, NEW r \in UpdateReadingRecords(n, w, b.ops[w].upd, ignore),
               b.ops[w].upd # NoReadings
        PROVE  ReadingsKept(n, r.srv, u)
    <3>1. u # w \/ store.kind # "postgresql"
      BY <1>2, <2>3 DEF Calm
    <3>2. ReadingsWritten(n, r.srv, w, FALSE)
      BY <2>1, <2>3, ReadingsForms
    <3>. QED BY <3>1, <3>2, WrittenKept
  <2>4. Calm(ClearOperations(b, {w}), u)
    <3> DEFINE c == ClearOperations(b, {w})
    <3>1. c.ops = With(b.ops, w, NoOperations)
      BY <1>2, FlushedOperations
    <3>. HIDE DEF c
    <3>2. Calm(c, u)
      BY <1>2, <2>1, <3>1 DEF Calm, With, NoOperations
    <3>. QED BY <3>2 DEF c
  <2>5. Calm([b EXCEPT !.ops[w].ins = NoReadings], u)
    <3> DEFINE c == [b EXCEPT !.ops[w].ins = NoReadings]
    <3>1. c.ops = With(b.ops, w, [ins |-> NoReadings, upd |-> b.ops[w].upd])
      BY <1>2, FlushedOperations
    <3>. HIDE DEF c
    <3>2. Calm(c, u)
      BY <1>2, <2>1, <3>1 DEF Calm, With
    <3>. QED BY <3>2 DEF c
  <2>6. CASE InsertionFailed(m, b, w, ignore, o)
    BY <2>2, <2>6 DEF InsertionFailed
  <2>7. CASE InsertionsOnly(m, b, w, ignore, o)
    BY <2>2, <2>4, <2>7 DEF InsertionsOnly
  <2>8. CASE InsertionsAndUpdates(m, b, w, ignore, o)
    BY <2>2, <2>3, <2>4, <2>5, <2>8, ReadingsKeptTransitive DEF InsertionsAndUpdates
  <2>. QED BY <1>2, <2>6, <2>7, <2>8, FlushSensorIs
<1>. QED BY <1>1, <1>2

LEMMA FlushAllKept ==
    ASSUME store \in Stores, NEW m \in Media, NEW b \in Buffers, NEW ignore \in BOOLEAN,
           NEW o \in FlushAll(m, b, ignore), NEW u \in Uuids, Calm(b, u)
    PROVE  ReadingsKept(m, o.srv, u) /\ Calm(o.buf, u)
<1> DEFINE R == {p \in FlushOutcomes : ReadingsKept(m, p.srv, u) /\ Calm(p.buf, u)}
<1>1. FlushStart(m, b) \subseteq R
  <2>1. [srv |-> m, buf |-> b, ok |-> TRUE] \in FlushOutcomes
    BY DEF FlushOutcomes
  <2>. QED BY <2>1, ReadingsKeptReflexive DEF FlushStart
<1>2. ASSUME NEW p \in R, NEW w \in Buffered(b), NEW q \in FlushSensor(p.srv, p.buf, w, ignore)
      PROVE  q \in R
  <2>1. p.srv \in Media /\ p.buf \in Buffers /\ w \in Uuids
    BY DEF FlushOutcomes, Buffered
  <2>2. q \in FlushOutcomes
    BY <2>1, FlushSensorEffect
  <2>3. ReadingsKept(p.srv, q.srv, u) /\ Calm(q.buf, u)
    BY <2>1, FlushSensorKept
  <2>4. ReadingsKept(m, q.srv, u)
    BY <2>3, ReadingsKeptTransitive
  <2>. QED BY <2>2, <2>3, <2>4
<1>. HIDE DEF R
<1>3. FlushAll(m, b, ignore) \subseteq R
  BY <1>1, <1>2, FlushAllStaysIn
<1>. QED BY <1>3 DEF R

\* What starts and ends a transaction.
LEMMA StartedKept ==
    ASSUME NEW m \in Media, NEW u
    PROVE  ReadingsKept(m, Started(m).srv, u)
BY StartedIs, SettledKept DEF ReadingsSettled

LEMMA EndedKept ==
    ASSUME NEW m \in Media, NEW isPending \in BOOLEAN, NEW returned \in BOOLEAN, NEW u
    PROVE  ReadingsKept(m, Ended(m, isPending, returned), u)
<1> DEFINE n == Ended(m, isPending, returned)
<1>1. n = m \/ (n.view = n.disk /\ n.disk \in {m.disk, m.view})
  BY EndedIs
<1>. HIDE DEF n
<1>2. ReadingsKept(m, n, u)
  BY <1>1, SettledKept DEF ReadingsSettled
<1>. QED BY <1>2 DEF n

LEMMA CallKept ==
    ASSUME NEW m \in Media, NEW n \in Media, NEW returned \in BOOLEAN, NEW u,
           ReadingsKept(Started(m).srv, n, u)
    PROVE  ReadingsKept(m, Ended(n, Started(m).ok, returned), u)
<1>1. ReadingsKept(m, Started(m).srv, u)
  BY StartedKept
<1>2. ReadingsKept(n, Ended(n, Started(m).ok, returned), u)
  BY StartedIs, EndedKept
<1>. QED BY <1>1, <1>2, ReadingsKeptTransitive

LEMMA FlushIfDueKept ==
    ASSUME store \in Stores, due \in BOOLEAN, NEW m \in Media, NEW b \in Buffers,
           NEW mayWrite \in BOOLEAN, NEW o \in FlushIfDue(m, b, mayWrite), NEW u \in Uuids,
           Calm(b, u)
    PROVE  ReadingsKept(m, o.srv, u)
<1>1. CASE ~due
  <2>1. o.srv = m
    BY <1>1 DEF FlushIfDue
  <2>. QED BY <2>1, ReadingsKeptReflexive
<1>2. CASE due /\ mayWrite = FALSE
  <2>1. o.srv = m
    BY <1>2 DEF FlushIfDue
  <2>. QED BY <2>1, ReadingsKeptReflexive
<1>3. CASE due /\ mayWrite = TRUE
  <2> DEFINE h == Started(m)
  <2>1. h.srv \in Media /\ h.ok \in BOOLEAN
    BY StartedIs
  <2>2. PICK p \in Call(m, LAMBDA n : FlushAll(n, b, TRUE)) : o.srv = p.srv
    <3>1. PICK p \in Call(m, LAMBDA n : FlushAll(n, b, TRUE)) :
             o = [srv |-> p.srv, buf |-> p.buf, ok |-> p.ok,
                  due |-> store.kind = "txt" \/ ~p.ok]
      BY <1>3 DEF FlushIfDue
    <3>. QED BY <3>1
  <2>3. PICK q \in FlushAll(h.srv, b, TRUE) : p = [q EXCEPT !.srv = Ended(q.srv, h.ok, q.ok)]
    BY <2>2 DEF Call
  <2>4. q \in FlushOutcomes
    BY <2>1, FlushAllEffect
  <2>5. ReadingsKept(h.srv, q.srv, u)
    BY <2>1, FlushAllKept
  <2>6. p.srv = Ended(q.srv, h.ok, q.ok) /\ q.srv \in Media /\ q.ok \in BOOLEAN
    BY <2>3, <2>4 DEF FlushOutcomes
  <2>7. ReadingsKept(m, p.srv, u)
    BY <2>5, <2>6, CallKept
  <2>. QED BY <2>2, <2>7
<1>. QED BY <1>1, <1>2, <1>3

LEMMA DefinesKept ==
    ASSUME NEW m \in Media, NEW o, NEW w \in Uuids, NEW s, Defines(m, o, w, s), NEW u
    PROVE  ReadingsKept(m, o.srv, u)
<1>1. m.view \in Contents /\ m.disk \in Contents
  BY MediaContents
<1>2. PutSensor(m.view, w, s).readings = m.view.readings
  BY <1>1, PutSensorIs
<1>3. CASE o.srv = m \/ (store.kind = "postgresql" /\ o.srv = PG!Abort(m))
  <2>1. o.srv.view \in {m.view, m.disk} /\ o.srv.disk = m.disk
    BY <1>3 DEF PG!Abort, Media
  <2>. QED BY <2>1, SettledKept DEF ReadingsSettled
<1>4. CASE Puts(m, o.srv, PutSensor(m.view, w, s))
  BY <1>2, <1>4, SettledKept DEF ReadingsSettled, Puts
<1>5. CASE o.srv.view = PutSensor(m.view, w, s) /\ o.srv.disk.readings = m.disk.readings
  BY <1>2, <1>5, SettledKept DEF ReadingsSettled
<1>. QED BY <1>3, <1>4, <1>5 DEF Defines

LEMMA RemovesKept ==
    ASSUME NEW m \in Media, NEW o, NEW w \in Uuids, Removes(m, o, w), NEW u \in Uuids,
           u # w \/ store.kind = "postgresql"
    PROVE  ReadingsKept(m, o.srv, u)
<1>1. /\ m.view \in Contents /\ m.disk \in Contents
      /\ m.view.readings \in [Uuids -> Readings] /\ m.disk.readings \in [Uuids -> Readings]
  BY MediaContents DEF Contents
<1>2. PutSensor(m.view, w, None).readings = m.view.readings
  BY <1>1, PutSensorIs
<1>3. /\ Without(m.view, w).readings = With(m.view.readings, w, NoReadings)
      /\ Without(m.disk, w).readings = With(m.disk.readings, w, NoReadings)
  BY WithoutIs
<1>4. u # w => /\ Without(m.view, w).readings[u] = m.view.readings[u]
               /\ Without(m.disk, w).readings[u] = m.disk.readings[u]
  BY <1>1, <1>3 DEF With
<1>5. CASE o.srv = m
  BY <1>5, ReadingsKeptReflexive
<1>6. CASE Puts(m, o.srv, PutSensor(m.view, w, None))
  BY <1>2, <1>6, SettledKept DEF ReadingsSettled, Puts
<1>7. CASE store.kind # "postgresql" /\ Puts(m, o.srv, Without(m.view, w))
  BY <1>4, <1>7, SettledKept DEF ReadingsSettled, Puts
<1>8. CASE /\ store.kind # "postgresql"
           /\ o.srv.view = Without(m.view, w) /\ o.srv.disk = Without(m.disk, w)
  BY <1>4, <1>8, SettledKept DEF ReadingsSettled
<1>. QED BY <1>5, <1>6, <1>7, <1>8 DEF Removes

LEMMA SensorActionKept ==
    ASSUME SensorsInv, NEW u \in Uuids, NEW w \in Uuids,
           \/ \E s \in Definitions[w] : AddSensor(w, s) \/ UpdateSensor(w, s)
           \/ RemoveSensor(w) /\ (u # w \/ store.kind = "postgresql")
    PROVE  ReadingsKept(srv, srv', u)
<1> DEFINE m == Started(srv).srv
<1>1. store \in Stores /\ srv \in Media /\ m \in Media /\ Started(srv).ok \in BOOLEAN
  BY StartedIs DEF SensorsInv, HandlersInv, BackendTypeOK
<1>2. ASSUME NEW o \in Outcomes, srv' = Ended(o.srv, Started(srv).ok, o.ok),
             ReadingsKept(m, o.srv, u)
      PROVE  ReadingsKept(srv, srv', u)
  BY <1>1, <1>2, CallKept DEF Outcomes
<1>3. ASSUME NEW s \in Definitions[w], AddSensor(w, s) \/ UpdateSensor(w, s)
      PROVE  ReadingsKept(srv, srv', u)
  <2>1. PICK o \in AddSensorRecord(m, w, s) \cup UpdateSensorRecord(m, w, s) :
           o \in Outcomes /\ srv' = Ended(o.srv, Started(srv).ok, o.ok)
    BY <1>1, <1>3, AddSensorIs, UpdateSensorIs
  <2>2. s \in Sensors
    BY DefinitionIs
  <2>. HIDE DEF m
  <2>3. Defines(m, o, w, AsStored(s))
    BY <1>1, <2>2, DefinesSensor
  <2>. QED BY <1>1, <1>2, <2>1, <2>3, DefinesKept
<1>4. CASE RemoveSensor(w) /\ (u # w \/ store.kind = "postgresql")
  <2>1. PICK o \in RemoveSensorRecord(m, w) :
           o \in Outcomes /\ srv' = Ended(o.srv, Started(srv).ok, o.ok)
    BY <1>1, <1>4, RemoveSensorIs
  <2>. HIDE DEF m
  <2>2. Removes(m, o, w)
    BY <1>1, RemovesSensor
  <2>. QED BY <1>1, <1>2, <1>4, <2>1, <2>2, RemovesKept
<1>. QED BY <1>3, <1>4

LEMMA TransactionKept ==
    ASSUME SensorsInv, NEW u \in Uuids, store.kind = "postgresql" => ~Updating(u),
           StartTransaction \/ CommitTransaction \/ RollbackTransaction
    PROVE  ReadingsKept(srv, srv', u)
<1>1. /\ store \in Stores /\ srv \in Media /\ buf \in Buffers /\ pending \in BOOLEAN
      /\ ~store.auto /\ HasHandler
  BY StoresAssumption
  DEF SensorsInv, HandlersInv, BackendTypeOK, StartTransaction, CommitTransaction,
      RollbackTransaction, HasHandler
<1>2. CASE StartTransaction
  BY <1>1, <1>2, BeginIs, SettledKept DEF StartTransaction, ReadingsSettled
<1>3. CASE CommitTransaction
  <2>1. PICK o \in FlushAll(srv, buf, TRUE) :
           srv' = (IF o.ok /\ pending THEN Commit(o.srv)
                   ELSE [srv |-> o.srv, ok |-> ~pending]).srv
    BY <1>3 DEF CommitTransaction
  <2>2. Calm(buf, u)
    BY <1>1 DEF Calm, Updating
  <2>3. ReadingsKept(srv, o.srv, u) /\ o.srv \in Media
    BY <1>1, <2>2, FlushAllKept, FlushAllEffect DEF FlushOutcomes
  <2>4. srv' = o.srv \/ srv' = Commit(o.srv).srv
    BY <2>1
  <2>5. ReadingsKept(o.srv, Commit(o.srv).srv, u)
    BY <2>3, CommitIs, SettledKept DEF ReadingsSettled
  <2>. QED BY <2>3, <2>4, <2>5, ReadingsKeptTransitive
<1>4. CASE RollbackTransaction
  <2> DEFINE n == (IF pending THEN Rollback(srv) ELSE [srv |-> srv, ok |-> TRUE]).srv
  <2>1. PICK p \in Prepares(n) : srv' = p.srv
    BY <1>4 DEF RollbackTransaction
  <2>2. pending = TRUE => n = Rollback(srv).srv
    OBVIOUS
  <2>3. pending = FALSE => n = srv
    OBVIOUS
  <2>. HIDE DEF n
  <2>4. n \in Media /\ n.txn = "none" /\ n.view \in {srv.view, srv.disk} /\ n.disk = srv.disk
    BY <1>1, <2>2, <2>3, RollbackIs DEF SensorsInv, HandlersInv
  <2>5. p.srv.view = n.view /\ p.srv.disk = n.disk
    BY <1>1, <2>4, PreparesIs DEF PreparedFrom
  <2>. QED BY <2>1, <2>4, <2>5, SettledKept DEF ReadingsSettled
<1>. QED BY <1>2, <1>3, <1>4

LEMMA BufferedCalm ==
    ASSUME NEW b \in Buffers, NEW w \in Uuids, b.ops[w] # None, NEW rs \in Readings, NEW kind,
           NEW u \in Uuids, Calm(b, u), u # w \/ kind = "INSERT"
    PROVE  Calm(BufferReadings(b, w, rs, kind), u)
<1> DEFINE x == [ins |-> IF kind = "INSERT" THEN KeepFirst(b.ops[w].ins, rs) ELSE b.ops[w].ins,
                 upd |-> IF kind = "UPDATE" THEN KeepFirst(b.ops[w].upd, rs) ELSE b.ops[w].upd]
<1> DEFINE c == BufferReadings(b, w, rs, kind)
<1>1. c.ops = With(b.ops, w, x)
  BY DEF BufferReadings, With, Buffers
<1>2. kind = "INSERT" => x.upd = b.ops[w].upd
  OBVIOUS
<1>3. b.ops \in [Uuids -> Operations \cup {None}]
  BY DEF Buffers
<1>. HIDE DEF x, c
<1>4. Calm(c, u)
  BY <1>1, <1>2, <1>3 DEF Calm, With
<1>. QED BY <1>4 DEF c

LEMMA ReadingsActionKept ==
    ASSUME SensorsInv, NEW u \in Uuids, store.kind = "postgresql" => ~Updating(u),
           \/ \E w \in Uuids : \E rs \in Batches[w], kind \in {"INSERT", "UPDATE"} :
                 AddReadings(w, rs, kind)
           \/ \E ignore \in BOOLEAN : Flush(ignore)
           \/ BeatAndFlush
           \/ \E w \in Uuids : Query(w)
    PROVE  ReadingsKept(srv, srv', u)
<1>1. /\ store \in Stores /\ srv \in Media /\ buf \in Buffers /\ due \in BOOLEAN
      /\ Started(srv).srv \in Media /\ Started(srv).ok \in BOOLEAN
  BY StartedIs DEF SensorsInv, HandlersInv, BackendTypeOK
<1>2. Calm(buf, u)
  BY DEF Calm, Updating
<1>3. ASSUME NEW w \in Uuids, NEW rs \in Batches[w], NEW kind \in {"INSERT", "UPDATE"},
             AddReadings(w, rs, kind)
      PROVE  ReadingsKept(srv, srv', u)
  <2> DEFINE b == BufferReadings(buf, w, rs, kind)
  <2>1. rs \in Readings /\ buf.ops[w] # None
    BY <1>3, ClientsAssumption DEF AddReadings
  <2>2. b \in Buffers
    BY <1>1, <2>1, BufferReadingsType
  <2>3. Calm(b, u)
    <3>1. CASE store.kind = "postgresql"
      <4>1. u # w \/ kind = "INSERT"
        BY <1>3, <3>1 DEF Updating
      <4>. QED BY <1>1, <1>2, <2>1, <4>1, BufferedCalm
    <3>2. CASE store.kind # "postgresql"
      BY <3>2 DEF Calm
    <3>. QED BY <3>1, <3>2
  <2>4. PICK o \in FlushIfDue(srv, b, MayWrite) : srv' = o.srv
    BY <1>3 DEF AddReadings
  <2>5. MayWrite \in BOOLEAN
    BY DEF MayWrite, Idle
  <2>. HIDE DEF b
  <2>. QED BY <1>1, <2>2, <2>3, <2>4, <2>5, FlushIfDueKept
<1>4. ASSUME NEW ignore \in BOOLEAN, Flush(ignore)
      PROVE  ReadingsKept(srv, srv', u)
  <2>1. PICK o \in FlushAll(Started(srv).srv, buf, ignore) :
           o \in FlushOutcomes /\ srv' = Ended(o.srv, Started(srv).ok, o.ok)
    BY <1>1, <1>4, FlushIs
  <2>2. ReadingsKept(Started(srv).srv, o.srv, u)
    BY <1>1, <1>2, FlushAllKept
  <2>. QED BY <1>1, <2>1, <2>2, CallKept DEF FlushOutcomes
<1>5. CASE BeatAndFlush
  <2>1. PICK o \in FlushAll(srv, buf, TRUE) : srv' = o.srv \/ srv' = srv
    <3>1. PICK through \in MS!Heartbeats(beat), o \in FlushAll(srv, buf, TRUE) :
             srv' = IF through THEN o.srv ELSE srv
      BY <1>5 DEF BeatAndFlush
    <3>. QED BY <3>1
  <2>. QED BY <1>1, <1>2, <2>1, FlushAllKept, ReadingsKeptReflexive
<1>6. ASSUME NEW w \in Uuids, Query(w)
      PROVE  ReadingsKept(srv, srv', u)
  <2>1. PICK o \in FlushSensor(srv, buf, w, TRUE) :
           srv' = IF store.kind = "redis" THEN RD!Queried(o.srv) ELSE o.srv
    BY <1>6 DEF Query
  <2>2. o \in FlushOutcomes /\ ReadingsKept(srv, o.srv, u)
    BY <1>1, <1>2, FlushSensorEffect, FlushSensorKept
  <2>3. RD!Queried(o.srv) = RD!Noise(o.srv) /\ o.srv \in Media
    BY <2>2 DEF RD!Queried, FlushOutcomes
  <2>4. srv'.view = o.srv.view /\ srv'.disk = o.srv.disk
    BY <2>1, <2>3, NoiseIs
  <2>. QED BY <2>2, <2>4 DEF ReadingsKept
<1>. QED BY <1>3, <1>4, <1>5, <1>6

LEMMA SyncGoesOnKept ==
    ASSUME SensorsInv, NEW w, NEW m \in Media, NEW ok \in BOOLEAN, SyncGoesOn(w, m, ok),
           NEW u, ReadingsKept(srv, m, u)
    PROVE  ReadingsKept(srv, srv', u)
<1> DEFINE isPending == store.auto /\ pending
<1>1. isPending \in BOOLEAN
  BY StoresAssumption DEF SensorsInv, HandlersInv, BackendTypeOK
<1>2. ok = TRUE => srv' = m
  BY DEF SyncGoesOn
<1>3. ok = FALSE => srv' = Ended(m, isPending, FALSE)
  BY DEF SyncGoesOn
<1>. HIDE DEF isPending
<1>4. ReadingsKept(m, Ended(m, isPending, FALSE), u)
  BY <1>1, EndedKept
<1>5. ok = TRUE \/ ok = FALSE
  OBVIOUS
<1>. QED BY <1>2, <1>3, <1>4, <1>5, ReadingsKeptTransitive

\* What a sync writes of a sensor, and leaves of the operations of the others.
LEMMA SyncRecordsKept ==
    ASSUME SensorsInv, NEW w \in Uuids, syncing # None, syncing.todo[w] # None,
           NEW r \in SyncRecords(w), NEW u \in Uuids
    PROVE  ReadingsKept(srv, r.srv, u)
<1>1. store \in Stores /\ srv \in Media
  BY DEF SensorsInv, HandlersInv, BackendTypeOK
<1>2. SyncedSensor(w) \in Definitions[w] /\ LocalSensor(w) = w
  BY SyncedLocally
<1>3. SyncedSensor(w) \in Sensors
  BY <1>2, DefinitionIs
<1>4. \/ r \in AddSensorRecord(srv, w, SyncedSensor(w))
      \/ r \in UpdateSensorRecord(srv, w, SyncedSensor(w))
      \/ r \in Done(srv)
  BY <1>2 DEF SyncRecords
<1>5. CASE r \in Done(srv)
  BY <1>5, ReadingsKeptReflexive DEF Done
<1>6. CASE \/ r \in AddSensorRecord(srv, w, SyncedSensor(w))
           \/ r \in UpdateSensorRecord(srv, w, SyncedSensor(w))
  <2>1. Defines(srv, r, w, AsStored(SyncedSensor(w)))
    BY <1>1, <1>3, <1>6, DefinesSensor
  <2>. QED BY <1>1, <2>1, DefinesKept
<1>. QED BY <1>4, <1>5, <1>6

LEMMA SyncedCalm ==
    ASSUME SensorsInv, NEW w \in Uuids, syncing # None, syncing.todo[w] # None,
           NEW u \in Uuids, Calm(buf, u), store.kind = "postgresql" => u # w
    PROVE  Calm(SyncBuffered(w), u)
<1> DEFINE s == SyncedSensor(w)
           b == SetBuffers(buf, w, s)
<1>1. BackendTypeOK /\ buf \in Buffers /\ BufferInv(buf)
  BY DEF SensorsInv, HandlersInv, BackendTypeOK
<1>2. /\ s \in Definitions[w] /\ LocalSensor(w) = w
      /\ syncing.todo[w].readings \in Readings
  BY <1>1, SyncedLocally, SyncTypes
<1>3. b \in Buffers /\ b.ops[w] # None
  BY <1>1, <1>2, DefinitionIs, SetBuffersType
<1>4. SyncBuffered(w) = BufferReadings(b, w, syncing.todo[w].readings, "UPDATE")
  BY <1>2 DEF SyncBuffered, SyncBuffers
<1>5. b.ops = With(buf.ops, w, NoOperations)
  BY <1>1, <1>2, SetBuffersInv
<1>. HIDE DEF s, b
<1>6. CASE store.kind = "postgresql"
  <2>1. b.ops[u] = buf.ops[u]
    BY <1>1, <1>5, <1>6 DEF With, Buffers
  <2>2. Calm(b, u)
    BY <2>1 DEF Calm
  <2>. QED BY <1>2, <1>3, <1>4, <1>6, <2>2, BufferedCalm
<1>7. CASE store.kind # "postgresql"
  BY <1>7 DEF Calm
<1>. QED BY <1>6, <1>7

LEMMA SyncActionKept ==
    ASSUME SensorsInv, NEW u \in Uuids, store.kind = "postgresql" => ~Updating(u),
           \/ \E w \in Uuids : SyncSensor(w) \/ SyncSourceFails(w)
           \/ SyncEnd
           \/ \E src \in Sources, readings \in BOOLEAN : SyncBegin(src, readings)
    PROVE  ReadingsKept(srv, srv', u)
<1>1. /\ store \in Stores /\ srv \in Media /\ buf \in Buffers /\ due \in BOOLEAN
      /\ pending \in BOOLEAN /\ store.auto \in BOOLEAN /\ BackendTypeOK
  BY KindType DEF SensorsInv, HandlersInv, BackendTypeOK
<1>2. ASSUME NEW w \in Uuids, SyncSensor(w)
      PROVE  ReadingsKept(srv, srv', u)
  <2>1. PICK r \in SyncRecords(w) :
           \/ ~r.ok /\ SyncGoesOn(w, r.srv, FALSE) /\ UNCHANGED <<buf, due>>
           \/ /\ r.ok /\ ~Copying(w) /\ SyncGoesOn(w, r.srv, TRUE)
              /\ buf' = SyncBuffers(w) /\ due' = due
           \/ /\ r.ok /\ Copying(w)
              /\ \E o \in FlushIfDue(r.srv, SyncBuffered(w), TRUE) :
                    SyncGoesOn(w, o.srv, o.ok) /\ buf' = o.buf /\ due' = o.due
    BY <1>2, SyncSensorIs
  <2>2. syncing # None /\ syncing.todo[w] # None
    BY <1>2, SyncSensorIs
  <2>3. r.srv \in Media /\ SyncBuffered(w) \in Buffers
    BY <1>1, <2>2, SyncTypes DEF Effective, Outcomes
  <2>4. ReadingsKept(srv, r.srv, u)
    BY <2>2, SyncRecordsKept
  <2>5. Calm(SyncBuffered(w), u)
    BY <1>2, <2>2, SyncedCalm DEF Calm, Updating
  <2>6. CASE SyncGoesOn(w, r.srv, FALSE) \/ SyncGoesOn(w, r.srv, TRUE)
    BY <2>3, <2>4, <2>6, SyncGoesOnKept
  <2>7. ASSUME NEW o \in FlushIfDue(r.srv, SyncBuffered(w), TRUE), SyncGoesOn(w, o.srv, o.ok)
        PROVE  ReadingsKept(srv, srv', u)
    <3>1. ReadingsKept(r.srv, o.srv, u) /\ o.srv \in Media /\ o.ok \in BOOLEAN
      BY <1>1, <2>3, <2>5, FlushIfDueKept, FlushIfDueEffect
    <3>2. ReadingsKept(srv, o.srv, u)
      BY <2>4, <3>1, ReadingsKeptTransitive
    <3>. QED BY <2>7, <3>1, <3>2, SyncGoesOnKept
  <2>. QED BY <2>1, <2>6, <2>7
<1>3. ASSUME NEW w \in Uuids, SyncSourceFails(w)
      PROVE  ReadingsKept(srv, srv', u)
  BY <1>1, <1>3, SyncGoesOnKept, ReadingsKeptReflexive DEF SyncSourceFails
<1>4. CASE SyncEnd
  <2> DEFINE isPending == store.auto /\ pending
  <2>1. srv' = Ended(srv, isPending, TRUE) /\ isPending \in BOOLEAN
    BY <1>1, <1>4 DEF SyncEnd
  <2>. HIDE DEF isPending
  <2>. QED BY <1>1, <2>1, EndedKept
<1>5. CASE \E src \in Sources, readings \in BOOLEAN : SyncBegin(src, readings)
  BY <1>1, <1>5, StartedKept DEF SyncBegin
<1>. QED BY <1>2, <1>3, <1>4, <1>5

LEMMA PreparedKept ==
    ASSUME NEW m \in Media, store \in Stores, m.txn = "none", NEW beats, Prepared(m, beats), NEW u
    PROVE  ReadingsKept(m, srv', u)
<1>1. PICK p \in Prepares(m) :
         srv' = IF p.ok THEN p.srv ELSE Disconnected(p.srv.disk)
  BY DEF Prepared
<1>2. p.srv.view = m.view /\ p.srv.disk = m.disk
  BY PreparesIs DEF PreparedFrom
<1>3. srv'.disk = m.disk /\ srv'.view \in {m.view, m.disk}
  BY <1>1, <1>2 DEF Disconnected
<1>. QED BY <1>3, SettledKept DEF ReadingsSettled

LEMMA LifeCycleKept ==
    ASSUME SensorsInv, NEW u \in Uuids,
           \/ Create /\ store.kind \notin {"rocksdb", "txt"}
           \/ Open \/ Close \/ Crash
    PROVE  ReadingsKept(srv, srv', u)
<1>1. store \in Stores /\ srv \in Media /\ (status # "open" => srv.txn = "none")
  BY DEF SensorsInv, HandlersInv, BackendTypeOK
<1>2. CASE Create /\ store.kind \notin {"rocksdb", "txt"}
  <2>1. PICK i \in Initializations(srv) : Prepared(i.srv, TRUE)
    BY <1>2 DEF Create
  <2>2. i.srv = srv
    BY <1>1, <1>2, <2>1, LifeCycleForms
  <2>. QED BY <1>1, <1>2, <2>1, <2>2, PreparedKept DEF Create
<1>3. CASE Open
  BY <1>1, <1>3, PreparedKept DEF Open
<1>4. CASE Close \/ Crash
  <2>1. srv' = srv \/ srv' = Disconnected(srv.disk) \/ srv' = Disconnected(srv.view)
    BY <1>1, <1>4, LifeCycleForms DEF Close, Crash
  <2>. QED BY <2>1, SettledKept DEF ReadingsSettled, Disconnected
<1>. QED BY <1>2, <1>3, <1>4

LEMMA OtherKept ==
    ASSUME SensorsInv, NEW u \in Uuids,
           (\E w \in Uuids : PersistReadings(w)) \/ TimeoutElapses \/ UNCHANGED vars
    PROVE  ReadingsKept(srv, srv', u)
<1>1. ASSUME NEW w \in Uuids, PersistReadings(w)
      PROVE  ReadingsKept(srv, srv', u)
  <2>1. srv \in Media
    BY DEF SensorsInv, HandlersInv, BackendTypeOK
  <2>2. /\ RO!Persist(srv, w).view = srv.view
        /\ RO!Persist(srv, w).disk.readings[u] \in {srv.view.readings[u], srv.disk.readings[u]}
    BY <2>1 DEF RO!Persist, Media, Contents
  <2>. QED BY <1>1, <2>2, SettledKept DEF PersistReadings, ReadingsSettled
<1>2. CASE TimeoutElapses \/ UNCHANGED vars
  BY <1>2, ReadingsKeptReflexive DEF TimeoutElapses, vars
<1>. QED BY <1>1, <1>2

\* What a step may do to the readings of a sensor on disk.
LEMMA ReadingsOnDiskStep ==
    ASSUME SensorsInv, [Next]_vars, NEW u \in Uuids,
           ~(RemoveSensor(u) /\ store.kind # "postgresql"), ~Dispose,
           ~(Create /\ store.kind \in {"rocksdb", "txt"}),
           store.kind = "postgresql" => ~Updating(u)
    PROVE  ReadingsKept(srv, srv', u)
<1>1. CASE StartTransaction \/ CommitTransaction \/ RollbackTransaction
  BY <1>1, TransactionKept
<1>2. ASSUME NEW w \in Uuids,
             (\E s \in Definitions[w] : AddSensor(w, s) \/ UpdateSensor(w, s)) \/ RemoveSensor(w)
      PROVE  ReadingsKept(srv, srv', u)
  BY <1>2, SensorActionKept
<1>3. CASE \/ \E w \in Uuids : \E rs \in Batches[w], kind \in {"INSERT", "UPDATE"} :
                 AddReadings(w, rs, kind)
           \/ \E ignore \in BOOLEAN : Flush(ignore)
           \/ BeatAndFlush
           \/ \E w \in Uuids : Query(w)
  BY <1>3, ReadingsActionKept
<1>4. CASE \/ \E w \in Uuids : SyncSensor(w) \/ SyncSourceFails(w)
           \/ SyncEnd
           \/ \E src \in Sources, readings \in BOOLEAN : SyncBegin(src, readings)
  BY <1>4, SyncActionKept
<1>5. CASE Create \/ Open \/ Close \/ Crash
  BY <1>5, LifeCycleKept
<1>6. CASE (\E w \in Uuids : PersistReadings(w)) \/ TimeoutElapses \/ UNCHANGED vars
  BY <1>6, OtherKept
<1>. QED BY <1>1, <1>2, <1>3, <1>4, <1>5, <1>6 DEF Next

\* A reading on disk that the connection sees is only replaced by a later one,
\* in the kinds of store that do that, or goes with its sensor, with the store
\* or by an update of a PostgreSQL store: whatever call fails, and whenever the
\* process ends.
THEOREM ReadingsOutliveFailures == Spec => DiskKeepsReadings
<1>1. SensorsInv /\ [Next]_vars =>
         [\A u \in Uuids, t \in Times :
             srv.disk.readings[u][t] \notin {None, srv'.disk.readings[u][t]} =>
                 \/ srv.view.readings[u][t] # srv.disk.readings[u][t]
                 \/ srv'.disk.readings[u][t] # None /\ store.kind \in {"redis", "rocksdb", "msg"}
                 \/ RemoveSensor(u) /\ store.kind # "postgresql"
                 \/ Dispose
                 \/ Create /\ store.kind \in {"rocksdb", "txt"}
                 \/ store.kind = "postgresql" /\ Updating(u)]_vars
  BY ReadingsOnDiskStep DEF ReadingsKept, StillThere, Replaces
<1>. QED BY <1>1, SensorsInvariant, PTL DEF Spec, DiskKeepsReadings

-----------------------------------------------------------------------------
(***************************************************************************)
(* What becomes of readings in memory.  A flush takes a reading out of     *)
(* memory once the medium has it, if the mSG server answers and has the    *)
(* sensor, and PostgreSQL has nothing to refuse.                           *)
(***************************************************************************)

Held(m, b, u, t) ==
    \/ b.ops[u] # None /\ (b.ops[u].ins[t] # None \/ b.ops[u].upd[t] # None)
    \/ m.view.readings[u][t] # None

\* What the medium makes of readings that it cannot refuse.
Placed(m, n, w, rs, ok) ==
    /\ \/ n = m /\ (ok = TRUE => rs = NoReadings)
       \/ \E new \in {KeepFirst(m.view.readings[w], rs), KeepFirst(rs, m.view.readings[w])} :
             \/ n = Write(m, PutReadings(m.view, w, new))
             \/ store.kind = "rocksdb" /\ n = Remember(m, w, new)
    /\ store.kind = "postgresql" => ok = TRUE /\ n.txn = m.txn

Unwelcome(m, w, rs) ==
    m.txn = "aborted" \/ Recorded(m.view.readings[w]) \cap Recorded(rs) # {}

Answers(m, w) == store.kind = "msg" => ~store.faulty /\ m.view.sensors[w] # None

\* By kind of store; PostgreSQL's updates are not taken so.
TakenBy(m, w, rs, ignore, o) ==
    CASE store.kind = "postgresql" -> o \in PG!InsertReadings(m, w, rs, ignore) /\ ~Unwelcome(m, w, rs)
      [] store.kind = "redis"      -> o \in RD!InsertReadings(m, w, rs) \cup RD!UpdateReadings(m, w, rs)
      [] store.kind = "rocksdb"    -> o \in RO!InsertReadings(m, w, rs) \cup RO!UpdateReadings(m, w, rs)
      [] store.kind = "txt"        -> o \in TX!InsertReadings(m, w, rs) \cup TX!UpdateReadings(m, w, rs)
      [] store.kind = "msg"        -> o \in MS!InsertReadings(m, w, rs, ignore)
                                            \cup MS!UpdateReadings(m, w, rs, ignore)

LEMMA TakenByIs ==
    ASSUME store \in Stores, NEW m \in Media, NEW w \in Uuids, NEW rs \in Readings,
           NEW ignore \in BOOLEAN, Answers(m, w), NEW o, TakenBy(m, w, rs, ignore, o)
    PROVE  Placed(m, o.srv, w, rs, o.ok)
<1>1. CASE store.kind = "postgresql"
  <2>1. o \in PG!InsertReadings(m, w, rs, ignore) /\ ~Unwelcome(m, w, rs)
    BY <1>1 DEF TakenBy
  <2>2. o.ok = TRUE /\ o.srv = Write(m, PutReadings(m.view, w, KeepFirst(m.view.readings[w], rs)))
    BY <1>1, <2>1, PGInsertForms DEF Unwelcome
  <2>. QED BY <2>2, WriteIs DEF Placed
<1>2. CASE store.kind = "redis"
  <2>1. o \in RD!InsertReadings(m, w, rs) \cup RD!UpdateReadings(m, w, rs)
    BY <1>2 DEF TakenBy
  <2>. QED BY <1>2, <2>1, RDForms DEF Placed
<1>3. CASE store.kind = "rocksdb"
  <2>1. o \in RO!InsertReadings(m, w, rs) \cup RO!UpdateReadings(m, w, rs)
    BY <1>3 DEF TakenBy
  <2>. QED BY <1>3, <2>1, ROForms DEF Placed
<1>4. CASE store.kind = "txt"
  <2>1. o \in TX!InsertReadings(m, w, rs) \cup TX!UpdateReadings(m, w, rs)
    BY <1>4 DEF TakenBy
  <2> DEFINE new == KeepFirst(m.view.readings[w], rs)
  <2>2. \/ o.srv = m /\ (o.ok = TRUE => rs = NoReadings)
        \/ o.srv = Write(m, PutReadings(m.view, w, new))
    BY <2>1, TXForms
  <2>3. new \in {KeepFirst(m.view.readings[w], rs), KeepFirst(rs, m.view.readings[w])}
    OBVIOUS
  <2>. HIDE DEF new
  <2>. QED BY <1>4, <2>2, <2>3 DEF Placed
<1>5. CASE store.kind = "msg"
  <2>1. o \in MS!InsertReadings(m, w, rs, ignore) \cup MS!UpdateReadings(m, w, rs, ignore)
    BY <1>5 DEF TakenBy
  <2>. QED BY <1>5, <2>1, MSForms DEF Placed, Answers
<1>. QED BY <1>1, <1>2, <1>3, <1>4, <1>5, KindType DEF Kinds

LEMMA ReadingsTakenBy ==
    ASSUME store \in Stores, NEW m, NEW w, NEW rs, NEW ignore, NEW o
    PROVE  /\ o \in InsertReadings(m, w, rs, ignore)
                 /\ (store.kind = "postgresql" => ~Unwelcome(m, w, rs))
                 => TakenBy(m, w, rs, ignore, o)
           /\ o \in UpdateReadingRecords(m, w, rs, ignore) /\ store.kind # "postgresql"
                 => TakenBy(m, w, rs, ignore, o)
BY KindType DEF Kinds, TakenBy, InsertReadings, UpdateReadingRecords

Absorbed(m, n, w, rs, ok) ==
    /\ \A t \in Times : m.view.readings[w][t] # None => n.view.readings[w][t] # None
    /\ ok = TRUE => \A t \in Times : rs[t] # None => n.view.readings[w][t] # None
    /\ \A v \in Uuids : v # w => n.view.readings[v] = m.view.readings[v]

LEMMA TakenHolds ==
    ASSUME NEW m \in Media, NEW n, NEW w \in Uuids, NEW rs \in Readings, NEW ok,
           Placed(m, n, w, rs, ok)
    PROVE  Absorbed(m, n, w, rs, ok)
<1>1. m.view \in Contents /\ m.view.readings \in [Uuids -> Readings]
  BY MediaContents DEF Contents
<1>2. CASE n = m /\ (ok = TRUE => rs = NoReadings)
  BY <1>2 DEF NoReadings, Absorbed
<1>3. ASSUME NEW new \in {KeepFirst(m.view.readings[w], rs), KeepFirst(rs, m.view.readings[w])},
             \/ n = Write(m, PutReadings(m.view, w, new))
             \/ n = Remember(m, w, new)
      PROVE  /\ \A t \in Times : m.view.readings[w][t] # None => n.view.readings[w][t] # None
             /\ \A t \in Times : rs[t] # None => n.view.readings[w][t] # None
             /\ \A v \in Uuids : v # w => n.view.readings[v] = m.view.readings[v]
  <2>1. \A t \in Times : m.view.readings[w][t] # None \/ rs[t] # None => new[t] # None
    BY <1>3 DEF KeepFirst
  <2> DEFINE c == PutReadings(m.view, w, new)
  <2>2. c.readings = With(m.view.readings, w, new)
    BY <1>1, PutReadingsIs
  <2>3. n = Write(m, c) => n.view = c
    BY WriteIs
  <2>4. n = Remember(m, w, new) => n.view.readings = With(m.view.readings, w, new)
    BY DEF Remember, With, Media, Contents
  <2>5. n = Write(m, c) \/ n = Remember(m, w, new)
    BY <1>3
  <2>. HIDE DEF c
  <2>6. n.view.readings = With(m.view.readings, w, new)
    BY <2>2, <2>3, <2>4, <2>5
  <2>. QED BY <1>1, <2>1, <2>6 DEF With
<1>. QED BY <1>2, <1>3 DEF Placed, Absorbed

Receptive(m, b) ==
    /\ store.kind = "msg" => ~store.faulty
    /\ store.kind = "postgresql" => m.txn # "aborted"
    /\ \A w \in Uuids : b.ops[w] # None =>
          /\ store.kind = "msg" => m.view.sensors[w] # None
          /\ store.kind = "postgresql" =>
                /\ b.ops[w].upd = NoReadings
                /\ Recorded(m.view.readings[w]) \cap Recorded(b.ops[w].ins) = {}

HoldsOn(m, b, n, c) ==
    /\ Receptive(n, c)
    /\ \A u \in Uuids, t \in Times : Held(m, b, u, t) => Held(n, c, u, t)
    /\ store.kind = "postgresql" => n.txn = m.txn

LEMMA HoldsOnTransitive ==
    ASSUME NEW m, NEW b, NEW n, NEW c, NEW k, NEW d, HoldsOn(m, b, n, c), HoldsOn(n, c, k, d)
    PROVE  HoldsOn(m, b, k, d)
BY DEF HoldsOn

\* A flush of one sensor leaves it operations x.
Leaves(m, b, w, n, c, x) ==
    /\ c.ops = With(b.ops, w, x)
    /\ store.kind # "postgresql" => n.view.sensors = m.view.sensors
    /\ store.kind = "postgresql" => n.txn = m.txn /\ x = NoOperations
    /\ \A v \in Uuids : v # w => n.view.readings[v] = m.view.readings[v]
    /\ \A t \in Times : m.view.readings[w][t] # None => n.view.readings[w][t] # None
    /\ \A t \in Times : \/ n.view.readings[w][t] # None
                        \/ x # None /\ x.ins[t] # None
                        \/ x # None /\ x.upd[t] # None
                        \/ b.ops[w].ins[t] = None /\ b.ops[w].upd[t] = None

LEMMA OperationsLeft ==
    ASSUME NEW m, NEW b \in Buffers, NEW w \in Uuids, b.ops[w] # None, NEW n, NEW c, NEW x,
           Receptive(m, b), Leaves(m, b, w, n, c, x)
    PROVE  HoldsOn(m, b, n, c)
<1>. USE DEF Leaves
<1>1. b.ops \in [Uuids -> Operations \cup {None}]
  BY DEF Buffers
<1>2. c.ops[w] = x /\ \A v \in Uuids : v # w => c.ops[v] = b.ops[v]
  BY <1>1 DEF With
<1>3. ASSUME NEW u \in Uuids, NEW t \in Times, Held(m, b, u, t)
      PROVE  Held(n, c, u, t)
  BY <1>2, <1>3 DEF Held
<1>4. ASSUME NEW u \in Uuids, c.ops[u] # None
      PROVE  /\ store.kind = "msg" => n.view.sensors[u] # None
             /\ store.kind = "postgresql" =>
                   /\ c.ops[u].upd = NoReadings
                   /\ Recorded(n.view.readings[u]) \cap Recorded(c.ops[u].ins) = {}
  <2>1. CASE u = w
    <3>1. Recorded(NoReadings) = {}
      BY DEF Recorded, NoReadings
    <3>. QED BY <1>2, <2>1, <3>1 DEF Receptive, NoOperations
  <2>2. CASE u # w
    BY <1>2, <1>4, <2>2 DEF Receptive
  <2>. QED BY <2>1, <2>2
<1>. QED BY <1>3, <1>4 DEF HoldsOn, Receptive

LEMMA FlushSensorHolds ==
    ASSUME store \in Stores, NEW m \in Media, NEW b \in Buffers, NEW w \in Uuids,
           NEW ignore \in BOOLEAN, NEW o \in FlushSensor(m, b, w, ignore),
           b.ops[w] # None, Receptive(m, b)
    PROVE  HoldsOn(m, b, o.srv, o.buf) /\ (store.kind = "postgresql" => o.ok = TRUE)
<1> DEFINE rs == b.ops[w].ins
           us == b.ops[w].upd
<1>1. rs \in Readings /\ us \in Readings /\ b.ops[w] \in Operations
  BY OperationsType
<1>2. b.ops \in [Uuids -> Operations \cup {None}] /\ With(b.ops, w, b.ops[w]) = b.ops
  BY DEF Buffers, With
<1>3. Answers(m, w) /\ (store.kind = "postgresql" => ~Unwelcome(m, w, rs) /\ us = NoReadings)
  BY DEF Receptive, Answers, Unwelcome
<1>4. \A n : SensorsKept(m, n) /\ store.kind # "postgresql" => n.view.sensors = m.view.sensors
  BY DEF SensorsKept
<1>5. /\ ClearOperations(b, {w}).ops = With(b.ops, w, NoOperations)
      /\ [b EXCEPT !.ops[w].ins = NoReadings].ops =
            With(b.ops, w, [ins |-> NoReadings, upd |-> us])
  BY FlushedOperations
<1> DEFINE cleared == ClearOperations(b, {w})
           half == [b EXCEPT !.ops[w].ins = NoReadings]
<1>. HIDE DEF rs, us, cleared, half
<1>6. \A i \in InsertReadings(m, w, rs, ignore) :
         Placed(m, i.srv, w, rs, i.ok) /\ SensorsKept(m, i.srv)
  <2>1. ASSUME NEW i \in InsertReadings(m, w, rs, ignore)
        PROVE  Placed(m, i.srv, w, rs, i.ok) /\ SensorsKept(m, i.srv)
    <3>1. ReadingsWritten(m, i.srv, w, TRUE)
      BY <1>1, ReadingsForms
    <3>2. SensorsKept(m, i.srv)
      BY <3>1, WrittenSensors
    <3>3. Answers(m, w) /\ TakenBy(m, w, rs, ignore, i)
      BY <1>3, ReadingsTakenBy
    <3>4. Placed(m, i.srv, w, rs, i.ok)
      BY <1>1, <3>3, TakenByIs
    <3>. QED BY <3>2, <3>4
  <2>. QED BY <2>1
<1>7. NoOperations # None /\ NoOperations.ins = NoReadings /\ NoOperations.upd = NoReadings
      /\ \A t \in Times : NoReadings[t] = None
  BY NoOperationsType, AbsentAssumption DEF NoOperations, NoReadings
<1>8. CASE InsertionFailed(m, b, w, ignore, o)
  <2>1. PICK i \in InsertReadings(m, w, rs, ignore) :
           i.srv \in Media /\ i.ok = FALSE /\ o.srv = i.srv /\ o.buf = b
    BY <1>8 DEF InsertionFailed, rs
  <2>2. /\ Placed(m, o.srv, w, rs, FALSE) /\ store.kind # "postgresql"
        /\ o.srv.view.sensors = m.view.sensors
    BY <1>4, <1>6, <2>1 DEF Placed
  <2>3. Absorbed(m, o.srv, w, rs, FALSE)
    BY <1>1, <2>1, <2>2, TakenHolds
  <2>4. b.ops = With(b.ops, w, b.ops[w])
    BY <1>2
  <2>5. HoldsOn(m, b, o.srv, b)
    <3>1. /\ \A t \in Times : m.view.readings[w][t] # None => o.srv.view.readings[w][t] # None
          /\ \A v \in Uuids : v # w => o.srv.view.readings[v] = m.view.readings[v]
      BY <2>3 DEF Absorbed
    <3>2. Leaves(m, b, w, o.srv, b, b.ops[w])
      BY <2>2, <2>4, <3>1 DEF Leaves
    <3>. QED BY <3>2, OperationsLeft
  <2>. QED BY <2>1, <2>2, <2>5
<1>9. CASE InsertionsOnly(m, b, w, ignore, o)
  <2>1. us = NoReadings
    BY <1>9 DEF InsertionsOnly, us
  <2>2. PICK i \in InsertReadings(m, w, rs, ignore) :
           i.srv \in Media /\ i.ok = TRUE /\ o.srv = i.srv /\ o.buf = cleared /\ o.ok = TRUE
    BY <1>9 DEF InsertionsOnly, rs, cleared
  <2>3. /\ Placed(m, o.srv, w, rs, TRUE)
        /\ store.kind = "postgresql" => o.srv.txn = m.txn
        /\ store.kind # "postgresql" => o.srv.view.sensors = m.view.sensors
    BY <1>4, <1>6, <2>2 DEF Placed
  <2>4. /\ \A t \in Times : m.view.readings[w][t] # None => o.srv.view.readings[w][t] # None
        /\ \A t \in Times : rs[t] # None => o.srv.view.readings[w][t] # None
        /\ \A v \in Uuids : v # w => o.srv.view.readings[v] = m.view.readings[v]
    <3>1. Absorbed(m, o.srv, w, rs, TRUE)
      BY <1>1, <2>3, TakenHolds
    <3>. QED BY <3>1 DEF Absorbed
  <2>5. \A t \in Times : o.srv.view.readings[w][t] # None \/ (rs[t] = None /\ us[t] = None)
    BY <1>7, <2>1, <2>4
  <2>6. Leaves(m, b, w, o.srv, cleared, NoOperations)
    BY <1>5, <2>3, <2>4, <2>5 DEF Leaves, rs, us, cleared
  <2>7. HoldsOn(m, b, o.srv, cleared)
    BY <2>6, OperationsLeft
  <2>. QED BY <2>2, <2>7
<1>10. CASE InsertionsAndUpdates(m, b, w, ignore, o)
  <2>1. us # NoReadings
    BY <1>10 DEF InsertionsAndUpdates, us
  <2>2. store.kind # "postgresql"
    BY <1>3, <2>1
  <2>3. PICK i \in InsertReadings(m, w, rs, ignore) :
           \E r \in UpdateReadingRecords(i.srv, w, us, ignore) :
              /\ i.srv \in Media /\ i.ok = TRUE
              /\ r.srv \in Media /\ r.ok \in BOOLEAN
              /\ o.srv = r.srv /\ o.ok = r.ok
              /\ o.buf = IF r.ok THEN cleared ELSE half
    BY <1>10 DEF InsertionsAndUpdates, rs, us, cleared, half
  <2>4. PICK r \in UpdateReadingRecords(i.srv, w, us, ignore) :
              /\ i.srv \in Media /\ i.ok = TRUE
              /\ r.srv \in Media /\ r.ok \in BOOLEAN
              /\ o.srv = r.srv /\ o.ok = r.ok
              /\ o.buf = IF r.ok THEN cleared ELSE half
    BY <2>3
  <2>5. Placed(m, i.srv, w, rs, TRUE) /\ i.srv.view.sensors = m.view.sensors
    BY <1>4, <1>6, <2>2, <2>4
  <2>6. Answers(i.srv, w)
    BY <1>3, <2>5 DEF Answers
  <2>7. Placed(i.srv, r.srv, w, us, r.ok)
    <3>1. TakenBy(i.srv, w, us, ignore, r)
      BY <2>2, <2>4, ReadingsTakenBy
    <3>. QED BY <1>1, <2>4, <2>6, <3>1, TakenByIs
  <2>8. r.srv.view.sensors = m.view.sensors
    <3>1. ReadingsWritten(i.srv, r.srv, w, FALSE)
      BY <1>1, <2>4, ReadingsForms
    <3>2. SensorsKept(i.srv, r.srv)
      BY <2>4, <3>1, WrittenSensors
    <3>. QED BY <2>2, <2>5, <3>2 DEF SensorsKept
  <2>9. /\ \A t \in Times : m.view.readings[w][t] # None => i.srv.view.readings[w][t] # None
        /\ \A t \in Times : rs[t] # None => i.srv.view.readings[w][t] # None
        /\ \A v \in Uuids : v # w => i.srv.view.readings[v] = m.view.readings[v]
    <3>1. Absorbed(m, i.srv, w, rs, TRUE)
      BY <1>1, <2>5, TakenHolds
    <3>. QED BY <3>1 DEF Absorbed
  <2>10. /\ \A t \in Times : i.srv.view.readings[w][t] # None => r.srv.view.readings[w][t] # None
         /\ r.ok = TRUE => \A t \in Times : us[t] # None => r.srv.view.readings[w][t] # None
         /\ \A v \in Uuids : v # w => r.srv.view.readings[v] = i.srv.view.readings[v]
    <3>1. Absorbed(i.srv, r.srv, w, us, r.ok)
      BY <1>1, <2>4, <2>7, TakenHolds
    <3>. QED BY <3>1 DEF Absorbed
  <2>11. CASE r.ok = TRUE
    <3>1. /\ \A v \in Uuids : v # w => r.srv.view.readings[v] = m.view.readings[v]
          /\ \A t \in Times : m.view.readings[w][t] # None => r.srv.view.readings[w][t] # None
          /\ \A t \in Times : r.srv.view.readings[w][t] # None \/ (rs[t] = None /\ us[t] = None)
      BY <2>9, <2>10, <2>11
    <3>2. Leaves(m, b, w, r.srv, cleared, NoOperations)
      BY <1>5, <2>2, <2>8, <3>1 DEF Leaves, rs, us, cleared
    <3>3. HoldsOn(m, b, r.srv, cleared)
      BY <3>2, OperationsLeft
    <3>4. o.srv = r.srv /\ o.buf = cleared
      BY <2>4, <2>11
    <3>. QED BY <2>2, <3>3, <3>4
  <2>12. CASE r.ok = FALSE
    <3> DEFINE x == [ins |-> NoReadings, upd |-> us]
    <3>1. x # None /\ x.upd = us
      BY <1>1, NoOperationsType, AbsentAssumption DEF Operations
    <3>2. half.ops = With(b.ops, w, x)
      BY <1>5 DEF half
    <3>. HIDE DEF x
    <3>3. /\ \A v \in Uuids : v # w => r.srv.view.readings[v] = m.view.readings[v]
          /\ \A t \in Times : m.view.readings[w][t] # None => r.srv.view.readings[w][t] # None
      BY <2>9, <2>10
    <3>4. \A t \in Times : \/ r.srv.view.readings[w][t] # None
                           \/ x # None /\ x.ins[t] # None
                           \/ x # None /\ x.upd[t] # None
                           \/ b.ops[w].ins[t] = None /\ b.ops[w].upd[t] = None
      BY <2>9, <2>10, <3>1 DEF rs, us
    <3>5. o.srv = r.srv /\ o.buf = half
      BY <2>4, <2>12
    <3>. HIDE DEF half, rs, us
    <3>6. Leaves(m, b, w, r.srv, half, x)
      <4>1. /\ half.ops = With(b.ops, w, x)
            /\ store.kind # "postgresql"
            /\ r.srv.view.sensors = m.view.sensors
        BY <2>2, <2>8, <3>2
      <4>. QED BY <3>3, <3>4, <4>1 DEF Leaves
    <3>7. HoldsOn(m, b, r.srv, half)
      BY <3>6, OperationsLeft
    <3>. QED BY <2>2, <3>5, <3>7
  <2>. QED BY <2>4, <2>11, <2>12
<1>. QED BY <1>8, <1>9, <1>10, FlushSensorIs

LEMMA FlushAllHolds ==
    ASSUME store \in Stores, NEW m \in Media, NEW b \in Buffers, BufferInv(b), Receptive(m, b),
           NEW ignore \in BOOLEAN, NEW o \in FlushAll(m, b, ignore)
    PROVE  HoldsOn(m, b, o.srv, o.buf) /\ (store.kind = "postgresql" => o.ok = TRUE)
<1> DEFINE R == {p \in FlushOutcomes :
                    /\ SameSensors(b, p.buf) /\ HoldsOn(m, b, p.srv, p.buf)
                    /\ store.kind = "postgresql" => p.ok = TRUE}
<1>1. FlushStart(m, b) \subseteq R
  <2>1. [srv |-> m, buf |-> b, ok |-> TRUE] \in FlushOutcomes
    BY DEF FlushOutcomes
  <2>2. HoldsOn(m, b, m, b)
    BY DEF HoldsOn
  <2>. QED BY <2>1, <2>2, SameReflexive DEF FlushStart
<1>2. ASSUME NEW p \in R, NEW w \in Buffered(b), NEW q \in FlushSensor(p.srv, p.buf, w, ignore)
      PROVE  q \in R
  <2>1. p.srv \in Media /\ p.buf \in Buffers /\ w \in Uuids
    BY DEF FlushOutcomes, Buffered
  <2>2. q \in FlushOutcomes /\ SameSensors(p.buf, q.buf)
    BY <2>1, FlushSensorEffect
  <2>3. SameSensors(b, q.buf)
    BY <2>2, SameTransitive
  <2>4. b.ops[w] # None
    BY <1>2, <2>1 DEF BufferInv, Buffered
  <2>5. p.buf.ops[w] # None /\ Receptive(p.srv, p.buf)
    BY <2>1, <2>4 DEF SameSensors, HoldsOn
  <2>6. HoldsOn(p.srv, p.buf, q.srv, q.buf) /\ (store.kind = "postgresql" => q.ok = TRUE)
    BY <2>1, <2>5, FlushSensorHolds
  <2>7. HoldsOn(m, b, q.srv, q.buf)
    BY <2>6, HoldsOnTransitive
  <2>. QED BY <2>2, <2>3, <2>6, <2>7
<1>. HIDE DEF R
<1>3. FlushAll(m, b, ignore) \subseteq R
  BY <1>1, <1>2, FlushAllStaysIn
<1>. QED BY <1>3 DEF R

LEMMA StartedReceptive ==
    ASSUME NEW m \in Media, NEW b, Receptive(m, b)
    PROVE  Receptive(Started(m).srv, b)
<1> DEFINE h == Started(m)
<1>1. h.srv.view = m.view
  BY StartedIs
<1>2. store.kind = "postgresql" /\ m.txn # "aborted" => h.srv.txn # "aborted"
  BY DEF Started, Begin, PG!Begin, Media
<1>. HIDE DEF h
<1>3. Receptive(h.srv, b)
  BY <1>1, <1>2 DEF Receptive
<1>. QED BY <1>3 DEF h

\* A transaction that is committed, aborted by nothing, leaves what was to be seen.
LEMMA EndedView ==
    ASSUME NEW m \in Media, NEW isPending \in BOOLEAN, NEW returned \in BOOLEAN,
           isPending => HasHandler /\ returned = TRUE,
           store.kind = "postgresql" => m.txn # "aborted"
    PROVE  Ended(m, isPending, returned).view = m.view
<1>1. CASE isPending = FALSE
  BY <1>1, EndedIs
<1>2. CASE isPending = TRUE
  <2> DEFINE c == Commit(m)
  <2>1. c.srv \in Media /\ c.ok \in BOOLEAN
    BY CommitIs
  <2>2. c.srv.view = m.view /\ c.srv.disk = m.view
    BY <1>2, CommitSensors DEF HasHandler, WithTransactions
  <2>3. /\ c.ok = TRUE => Ended(m, isPending, returned) = c.srv
        /\ c.ok = FALSE => Ended(m, isPending, returned) = Rollback(c.srv).srv
    BY <1>2 DEF Ended
  <2>. HIDE DEF c
  <2>4. Rollback(c.srv).srv.view = c.srv.disk
    BY <2>1, RollbackIs
  <2>. QED BY <2>1, <2>2, <2>3, <2>4
<1>. QED BY <1>1, <1>2

LEMMA HeldView ==
    ASSUME NEW m, NEW b, NEW n, NEW u, NEW t, Held(m, b, u, t), n.view = m.view
    PROVE  Held(n, b, u, t)
BY DEF Held

\* A call that flushes the buffers, and its transaction.
LEMMA FlushCallHolds ==
    ASSUME store \in Stores, NEW m \in Media, NEW b \in Buffers, BufferInv(b), Receptive(m, b),
           NEW ignore \in BOOLEAN, NEW q \in FlushAll(Started(m).srv, b, ignore),
           NEW u \in Uuids, NEW t \in Times, Held(m, b, u, t)
    PROVE  Held(Ended(q.srv, Started(m).ok, q.ok), q.buf, u, t)
<1> DEFINE h == Started(m)
<1>1. /\ h.srv \in Media /\ h.ok \in BOOLEAN /\ h.srv.view = m.view
      /\ h.ok => HasHandler
  BY StartedIs
<1>2. Receptive(h.srv, b)
  BY StartedReceptive
<1>. HIDE DEF h
<1>3. q \in FlushAll(h.srv, b, ignore)
  BY DEF h
<1>4. HoldsOn(h.srv, b, q.srv, q.buf) /\ (store.kind = "postgresql" => q.ok = TRUE)
  BY <1>1, <1>2, <1>3, FlushAllHolds
<1>5. q.srv \in Media /\ q.ok \in BOOLEAN /\ (store.kind = "redis" => q.ok = TRUE)
  BY <1>1, <1>3, FlushAllSound
<1>6. Held(q.srv, q.buf, u, t)
  <2>1. Held(h.srv, b, u, t)
    BY <1>1, HeldView
  <2>. QED BY <1>4, <2>1 DEF HoldsOn
<1>7. Ended(q.srv, h.ok, q.ok).view = q.srv.view
  <2>1. h.ok => HasHandler /\ q.ok = TRUE
    BY <1>1, <1>4, <1>5 DEF HasHandler, WithTransactions
  <2>2. store.kind = "postgresql" => q.srv.txn # "aborted"
    BY <1>4 DEF HoldsOn, Receptive
  <2>. QED BY <1>1, <1>5, <2>1, <2>2, EndedView
<1>. QED BY <1>6, <1>7, HeldView DEF h

LEMMA FlushIfDueHolds ==
    ASSUME store \in Stores, due \in BOOLEAN, NEW m \in Media, NEW b \in Buffers, BufferInv(b),
           Receptive(m, b), NEW mayWrite \in BOOLEAN, NEW o \in FlushIfDue(m, b, mayWrite),
           NEW u \in Uuids, NEW t \in Times, Held(m, b, u, t)
    PROVE  Held(o.srv, o.buf, u, t)
<1>1. CASE ~due
  <2>1. o.srv = m /\ o.buf = b
    BY <1>1 DEF FlushIfDue
  <2>. QED BY <2>1
<1>2. CASE due /\ mayWrite = FALSE
  <2>1. o.srv = m /\ o.buf = b
    BY <1>2 DEF FlushIfDue
  <2>. QED BY <2>1
<1>3. CASE due /\ mayWrite = TRUE
  <2> DEFINE h == Started(m)
  <2>1. h.srv \in Media /\ h.ok \in BOOLEAN
    BY StartedIs
  <2>2. PICK p \in Call(m, LAMBDA n : FlushAll(n, b, TRUE)) : o.srv = p.srv /\ o.buf = p.buf
    <3>1. PICK p \in Call(m, LAMBDA n : FlushAll(n, b, TRUE)) :
             o = [srv |-> p.srv, buf |-> p.buf, ok |-> p.ok,
                  due |-> store.kind = "txt" \/ ~p.ok]
      BY <1>3 DEF FlushIfDue
    <3>. QED BY <3>1
  <2>3. PICK q \in FlushAll(h.srv, b, TRUE) : p = [q EXCEPT !.srv = Ended(q.srv, h.ok, q.ok)]
    BY <2>2 DEF Call
  <2>4. q \in FlushOutcomes
    BY <2>1, FlushAllEffect
  <2>5. p.srv = Ended(q.srv, h.ok, q.ok) /\ p.buf = q.buf
    BY <2>3, <2>4 DEF FlushOutcomes
  <2>6. Held(Ended(q.srv, h.ok, q.ok), q.buf, u, t)
    BY FlushCallHolds
  <2>. QED BY <2>2, <2>5, <2>6
<1>. QED BY <1>1, <1>2, <1>3

\* A store that is not open has nothing in memory.
ClosedIsEmpty == status # "open" => buf = EmptyBuffers

LEMMA ClosedStepEmpty ==
    ASSUME ClosedIsEmpty, [Next]_vars
    PROVE  ClosedIsEmpty'
<1>1. ASSUME status = "open", status' = status PROVE ClosedIsEmpty'
  BY <1>1 DEF ClosedIsEmpty
<1>2. CASE StartTransaction \/ CommitTransaction \/ RollbackTransaction
  BY <1>1, <1>2 DEF StartTransaction, CommitTransaction, RollbackTransaction, Idle
<1>3. ASSUME NEW u \in Uuids,
             \/ \E s \in Definitions[u] : AddSensor(u, s) \/ UpdateSensor(u, s)
             \/ RemoveSensor(u)
      PROVE  ClosedIsEmpty'
  BY <1>1, <1>3 DEF AddSensor, UpdateSensor, RemoveSensor, SensorCall, MayWrite, Idle
<1>4. ASSUME \/ \E u \in Uuids : \E rs \in Batches[u], kind \in {"INSERT", "UPDATE"} :
                   AddReadings(u, rs, kind)
             \/ \E ignore \in BOOLEAN : Flush(ignore)
             \/ BeatAndFlush
             \/ \E u \in Uuids : Query(u)
      PROVE  ClosedIsEmpty'
  BY <1>1, <1>4 DEF AddReadings, Flush, BeatAndFlush, Query, MayWrite, Idle
<1>5. ASSUME NEW u \in Uuids, SyncSensor(u)
      PROVE  ClosedIsEmpty'
  BY <1>1, <1>5, SyncSensorIs
<1>6. ASSUME \/ \E u \in Uuids : SyncSourceFails(u)
             \/ SyncEnd
             \/ \E src \in Sources, readings \in BOOLEAN : SyncBegin(src, readings)
      PROVE  ClosedIsEmpty'
  BY <1>1, <1>6 DEF SyncSourceFails, SyncEnd, SyncBegin, MayWrite, Idle
<1>7. ASSUME NEW m, NEW beats, Prepared(m, beats)
      PROVE  ClosedIsEmpty'
  <2>1. PICK p \in Prepares(m) :
           /\ buf' = IF p.ok THEN LoadBuffers(p.sensors) ELSE EmptyBuffers
           /\ status' = IF p.ok THEN "open" ELSE "closed"
    BY <1>7 DEF Prepared
  <2>. QED BY <2>1 DEF ClosedIsEmpty
<1>8. CASE Create \/ Open
  BY <1>7, <1>8 DEF Create, Open
<1>9. CASE Close \/ Dispose \/ Crash
  BY <1>9 DEF Close, Dispose, Crash, ClosedIsEmpty
<1>10. CASE (\E u \in Uuids : PersistReadings(u)) \/ TimeoutElapses \/ UNCHANGED vars
  BY <1>10 DEF PersistReadings, TimeoutElapses, vars, ClosedIsEmpty
<1>. QED BY <1>2, <1>3, <1>4, <1>5, <1>6, <1>8, <1>9, <1>10 DEF Next

LEMMA ClosedEmpty == Spec => []ClosedIsEmpty
<1>1. Init => ClosedIsEmpty
  BY DEF Init, ClosedIsEmpty
<1>2. ClosedIsEmpty /\ [Next]_vars => ClosedIsEmpty'
  BY ClosedStepEmpty
<1>. QED BY <1>1, <1>2, PTL DEF Spec

\* The stores that refuse no reading of a sensor they know.
Safe == store.kind \in {"redis", "rocksdb", "txt"} \/ (store.kind = "msg" /\ ~store.faulty)

LEMMA SafeReceptive ==
    ASSUME Safe, NEW m, NEW b, Sound(m, b)
    PROVE  Receptive(m, b)
BY DEF Safe, Sound, Known, AnswersFor, BufferInv, Receptive

LEMMA WelcomeReceptive ==
    ASSUME store.kind = "postgresql", Welcome, BufferInv(buf)
    PROVE  Receptive(srv, buf)
<1>1. \A w \in Uuids : buf.ops[w] # None => w \in Buffered(buf)
  BY DEF BufferInv, Buffered
<1>2. \A r, q \in Readings : Recorded(r) \cap Recorded(q) = Recorded(q) \cap Recorded(r)
  OBVIOUS
<1>. QED BY <1>1, <1>2 DEF Welcome, Receptive

LEMMA FlushStepHolds ==
    ASSUME SensorsInv, Receptive(srv, buf), FlushStep,
           NEW u \in Uuids, NEW t \in Times, Held(srv, buf, u, t)
    PROVE  Held(srv', buf', u, t)
<1>1. /\ store \in Stores /\ srv \in Media /\ buf \in Buffers /\ pending \in BOOLEAN
      /\ BufferInv(buf) /\ Started(srv).srv \in Media
  BY StartedIs DEF SensorsInv, HandlersInv, BackendTypeOK
<1>2. ASSUME NEW o \in FlushAll(srv, buf, TRUE)
      PROVE  Held(o.srv, o.buf, u, t) /\ HoldsOn(srv, buf, o.srv, o.buf) /\ o.srv \in Media
  <2>1. HoldsOn(srv, buf, o.srv, o.buf)
    BY <1>1, FlushAllHolds
  <2>2. o.srv \in Media
    BY <1>1, FlushAllSound
  <2>. QED BY <2>1, <2>2 DEF HoldsOn
<1>3. CASE BeatAndFlush
  <2>1. PICK through \in MS!Heartbeats(beat), o \in FlushAll(srv, buf, TRUE) :
           /\ srv' = IF through THEN o.srv ELSE srv
           /\ buf' = IF through THEN o.buf ELSE buf
    BY <1>3 DEF BeatAndFlush
  <2>2. through = TRUE => srv' = o.srv /\ buf' = o.buf
    BY <2>1
  <2>3. through = FALSE => srv' = srv /\ buf' = buf
    BY <2>1
  <2>4. through = TRUE \/ through = FALSE
    BY DEF MS!Heartbeats
  <2>. QED BY <1>2, <2>2, <2>3, <2>4
<1>4. CASE CommitTransaction
  <2>1. PICK o \in FlushAll(srv, buf, TRUE) :
           /\ srv' = (IF o.ok /\ pending THEN Commit(o.srv)
                      ELSE [srv |-> o.srv, ok |-> ~pending]).srv
           /\ buf' = o.buf
    BY <1>4 DEF CommitTransaction
  <2>2. srv' = o.srv \/ srv' = Commit(o.srv).srv
    BY <2>1
  <2>3. HasHandler
    BY <1>1, <1>4, StoresAssumption DEF CommitTransaction, HasHandler
  <2>4. store.kind = "postgresql" => o.srv.txn # "aborted"
    BY <1>2 DEF HoldsOn, Receptive
  <2>5. Commit(o.srv).srv.view = o.srv.view
    BY <1>2, <2>3, <2>4, CommitSensors DEF HasHandler, WithTransactions
  <2>. QED BY <1>2, <2>1, <2>2, <2>5, HeldView
<1>5. ASSUME NEW ignore \in BOOLEAN, Flush(ignore)
      PROVE  Held(srv', buf', u, t)
  <2>1. PICK o \in FlushAll(Started(srv).srv, buf, ignore) :
           srv' = Ended(o.srv, Started(srv).ok, o.ok) /\ buf' = o.buf
    BY <1>1, <1>5, FlushIs
  <2>2. Held(Ended(o.srv, Started(srv).ok, o.ok), o.buf, u, t)
    BY <1>1, FlushCallHolds
  <2>. QED BY <2>1, <2>2
<1>6. ASSUME NEW w \in Uuids, Query(w)
      PROVE  Held(srv', buf', u, t)
  <2>1. PICK o \in FlushSensor(srv, buf, w, TRUE) :
           /\ srv' = IF store.kind = "redis" THEN RD!Queried(o.srv) ELSE o.srv
           /\ buf' = o.buf
    BY <1>6 DEF Query
  <2>2. buf.ops[w] # None
    BY <1>6 DEF Query
  <2>3. o \in FlushOutcomes
    BY <1>1, FlushSensorEffect
  <2>4. Held(o.srv, o.buf, u, t)
    BY <1>1, <2>2, FlushSensorHolds DEF HoldsOn
  <2>5. RD!Queried(o.srv) = RD!Noise(o.srv) /\ o.srv \in Media
    BY <2>3 DEF RD!Queried, FlushOutcomes
  <2>6. srv'.view = o.srv.view
    BY <2>1, <2>5, NoiseIs
  <2>. QED BY <2>1, <2>4, <2>6, HeldView
<1>. QED BY <1>3, <1>4, <1>5, <1>6 DEF FlushStep

\* Operations in memory that a step leaves alone stay pending.
LEMMA SameOperations ==
    ASSUME NEW u \in Uuids, NEW t \in Times, Pending(u, t), buf'.ops[u] = buf.ops[u]
    PROVE  Pending(u, t)'
BY DEF Pending

LEMMA HeldIs ==
    ASSUME NEW u \in Uuids, NEW t \in Times
    PROVE  /\ Pending(u, t) => Held(srv, buf, u, t)
           /\ Held(srv', buf', u, t) => Pending(u, t)' \/ Stored(u, t)'
BY DEF Pending, Stored, Held

LEMMA BufferReadingsPending ==
    ASSUME NEW m, NEW b \in Buffers, NEW w \in Uuids, b.ops[w] # None, NEW rs \in Readings, NEW kind,
           NEW u \in Uuids, NEW t \in Times, Held(m, b, u, t)
    PROVE  Held(m, BufferReadings(b, w, rs, kind), u, t)
<1> DEFINE x == [ins |-> IF kind = "INSERT" THEN KeepFirst(b.ops[w].ins, rs) ELSE b.ops[w].ins,
                 upd |-> IF kind = "UPDATE" THEN KeepFirst(b.ops[w].upd, rs) ELSE b.ops[w].upd]
<1> DEFINE c == BufferReadings(b, w, rs, kind)
<1>1. c.ops = With(b.ops, w, x)
  BY DEF BufferReadings, With, Buffers
<1>2. /\ b.ops[w].ins[t] # None => x.ins[t] # None
      /\ b.ops[w].upd[t] # None => x.upd[t] # None
  BY DEF KeepFirst
<1>3. x # None
  <2>1. x \in Operations
    BY OperationsType, KeepFirstType DEF Operations
  <2>. QED BY <2>1, AbsentAssumption
<1>4. b.ops \in [Uuids -> Operations \cup {None}]
  BY DEF Buffers
<1>. HIDE DEF x, c
<1>5. Held(m, c, u, t)
  BY <1>1, <1>2, <1>3, <1>4 DEF Held, With
<1>. QED BY <1>5 DEF c

LEMMA AddReadingsHolds ==
    ASSUME SensorsInv, Safe, NEW w \in Uuids, NEW rs \in Batches[w], NEW kind,
           AddReadings(w, rs, kind), NEW u \in Uuids, NEW t \in Times, Pending(u, t)
    PROVE  Held(srv', buf', u, t)
<1> DEFINE b == BufferReadings(buf, w, rs, kind)
<1>1. /\ status = "open" /\ buf.ops[w] # None /\ rs \in Readings
      /\ store \in Stores /\ srv \in Media /\ buf \in Buffers /\ due \in BOOLEAN
      /\ Sound(srv, buf)
  BY ClientsAssumption, IdleIs DEF AddReadings, Idle
<1>2. SameSensors(buf, b)
  BY <1>1, BufferReadingsSame
<1>3. Held(srv, b, u, t)
  BY <1>1, HeldIs, BufferReadingsPending
<1>4. PICK o \in FlushIfDue(srv, b, MayWrite) : srv' = o.srv /\ buf' = o.buf
  BY DEF AddReadings
<1>5. MayWrite \in BOOLEAN
  BY DEF MayWrite, Idle
<1>. HIDE DEF b
<1>6. b \in Buffers /\ Sound(srv, b)
  BY <1>1, <1>2, SoundKept, SensorsKeptReflexive DEF SameSensors
<1>7. Receptive(srv, b) /\ BufferInv(b)
  BY <1>6, SafeReceptive DEF Sound
<1>8. Held(o.srv, o.buf, u, t)
  BY <1>1, <1>3, <1>4, <1>5, <1>6, <1>7, FlushIfDueHolds
<1>. QED BY <1>4, <1>8

\* A sync leaves what is in memory of the other sensors.
LEMMA SyncedPending ==
    ASSUME SensorsInv, NEW w \in Uuids, syncing # None, syncing.todo[w] # None,
           NEW u \in Uuids, u # w
    PROVE  SyncBuffers(w).ops[u] = buf.ops[u] /\ SyncBuffered(w).ops[u] = buf.ops[u]
<1> DEFINE s == SyncedSensor(w)
           b == SetBuffers(buf, w, s)
<1>1. BackendTypeOK /\ buf \in Buffers /\ BufferInv(buf)
  BY DEF SensorsInv, HandlersInv, BackendTypeOK
<1>2. s \in Definitions[w] /\ LocalSensor(w) = w
  BY SyncedLocally
<1>3. b.ops = With(buf.ops, w, NoOperations)
  BY <1>1, <1>2, SetBuffersInv
<1>4. SyncBuffered(w) = BufferReadings(b, w, syncing.todo[w].readings, "UPDATE")
      /\ SyncBuffers(w) = b
  BY <1>2 DEF SyncBuffered, SyncBuffers
<1>5. b \in Buffers
  BY <1>1, <1>2, DefinitionIs, SetBuffersType
<1>. HIDE DEF s, b
<1>6. b.ops[u] = buf.ops[u]
  BY <1>1, <1>3 DEF With, Buffers
<1>7. \A rs, kind : BufferReadings(b, w, rs, kind).ops[u] = b.ops[u]
  BY <1>5 DEF BufferReadings, Buffers
<1>. QED BY <1>4, <1>6, <1>7

LEMMA SyncSensorHolds ==
    ASSUME SensorsInv, Safe, NEW w \in Uuids, SyncSensor(w),
           NEW u \in Uuids, u # w, NEW t \in Times, Pending(u, t)
    PROVE  Held(srv', buf', u, t)
<1>1. PICK r \in SyncRecords(w) :
         \/ ~r.ok /\ SyncGoesOn(w, r.srv, FALSE) /\ UNCHANGED <<buf, due>>
         \/ /\ r.ok /\ ~Copying(w) /\ SyncGoesOn(w, r.srv, TRUE)
            /\ buf' = SyncBuffers(w) /\ due' = due
         \/ /\ r.ok /\ Copying(w)
            /\ \E o \in FlushIfDue(r.srv, SyncBuffered(w), TRUE) :
                  SyncGoesOn(w, o.srv, o.ok) /\ buf' = o.buf /\ due' = o.due
  BY SyncSensorIs
<1>2. /\ syncing # None /\ syncing.todo[w] # None /\ status = "open"
      /\ buf.ids[syncing.todo[w].ext] # None =>
            buf.sensors[buf.ids[syncing.todo[w].ext]] # None
  BY SyncSensorIs
<1>3. SyncBuffers(w).ops[u] = buf.ops[u] /\ SyncBuffered(w).ops[u] = buf.ops[u]
  BY <1>2, SyncedPending
<1>4. /\ r.srv \in Media /\ r.ok \in BOOLEAN
      /\ r.ok = TRUE => Sound(r.srv, SyncBuffers(w))
  BY <1>2, SyncRecordsSound
<1>5. /\ store \in Stores /\ due \in BOOLEAN /\ BackendTypeOK /\ pending \in BOOLEAN
      /\ pending => HasHandler
  BY DEF SensorsInv, HandlersInv, BackendTypeOK
<1>6. CASE buf' = buf \/ buf' = SyncBuffers(w)
  BY <1>3, <1>6, SameOperations, HeldIs DEF Pending, Held
<1>7. ASSUME r.ok = TRUE, NEW o \in FlushIfDue(r.srv, SyncBuffered(w), TRUE),
             SyncGoesOn(w, o.srv, o.ok), buf' = o.buf
      PROVE  Held(srv', buf', u, t)
  <2>1. /\ SyncBuffers(w) \in Buffers /\ LocalSensor(w) \in Uuids
        /\ syncing.todo[w].readings \in Readings /\ SyncedSensor(w) \in Sensors
        /\ buf \in Buffers
    BY <1>2, <1>5, SyncTypes DEF BackendTypeOK
  <2>2. SyncBuffers(w).ops[LocalSensor(w)] # None
    BY <2>1, SetBuffersType DEF SyncBuffers
  <2>3. SameSensors(SyncBuffers(w), SyncBuffered(w))
    BY <2>1, <2>2, BufferReadingsSame DEF SyncBuffered
  <2>4. Sound(r.srv, SyncBuffered(w)) /\ SyncBuffered(w) \in Buffers
    BY <1>4, <1>7, <2>3, SoundKept, SensorsKeptReflexive DEF SameSensors
  <2>5. Receptive(r.srv, SyncBuffered(w)) /\ BufferInv(SyncBuffered(w))
    BY <2>4, SafeReceptive DEF Sound
  <2>6. Held(r.srv, SyncBuffered(w), u, t)
    BY <1>3 DEF Pending, Held
  <2>7. Held(o.srv, o.buf, u, t)
    BY <1>4, <1>5, <1>7, <2>4, <2>5, <2>6, FlushIfDueHolds
  <2>8. /\ o.srv \in Media /\ o.ok \in BOOLEAN /\ (store.kind = "redis" => o.ok = TRUE)
    BY <1>4, <1>5, <1>7, <2>4, <2>5, FlushIfDueSensors
  <2> DEFINE isPending == store.auto /\ pending
  <2>9. /\ o.ok = TRUE => srv' = o.srv
        /\ o.ok = FALSE => srv' = Ended(o.srv, isPending, FALSE)
    BY <1>7 DEF SyncGoesOn
  <2>10. o.ok = FALSE => isPending = FALSE
    BY <1>5, <2>8 DEF Safe, HasHandler, WithTransactions
  <2>. HIDE DEF isPending
  <2>11. srv' = o.srv
    BY <2>8, <2>9, <2>10, EndedIs
  <2>. QED BY <1>7, <2>7, <2>11
<1>. QED BY <1>1, <1>4, <1>6, <1>7

\* What no step besides a flush, an addition, the iteration of a sync, a
\* rollback or the end of the store does to the operations of a sensor.
LEMMA OperationsStay ==
    ASSUME SensorsInv, ClosedIsEmpty, [Next]_vars, NEW u \in Uuids, NEW t \in Times,
           Pending(u, t), ~Pending(u, t)'
    PROVE  \/ status' # "open" \/ RollbackTransaction \/ RemoveSensor(u) \/ FlushStep
           \/ \E s \in Definitions[u] : AddSensor(u, s) \/ UpdateSensor(u, s)
           \/ \E w \in Uuids : SyncSensor(w)
           \/ \E w \in Uuids : \E rs \in Batches[w], kind \in {"INSERT", "UPDATE"} :
                 AddReadings(w, rs, kind)
<1>1. buf'.ops[u] # buf.ops[u]
  BY SameOperations
<1>2. /\ store \in Stores /\ srv \in Media /\ buf \in Buffers /\ BufferInv(buf)
      /\ buf.ops \in [Uuids -> Operations \cup {None}]
  BY DEF SensorsInv, HandlersInv, BackendTypeOK, Buffers
<1>3. ASSUME NEW w \in Uuids, w # u, NEW s \in Definitions[w], AddSensor(w, s) \/ UpdateSensor(w, s)
      PROVE  FALSE
  <2>1. PICK o \in Outcomes : buf' = IF o.ok THEN SetBuffers(buf, w, s) ELSE buf
    BY <1>2, <1>3, AddSensorIs, UpdateSensorIs
  <2>2. SetBuffers(buf, w, s).ops = With(buf.ops, w, NoOperations)
    BY <1>2, SetBuffersInv
  <2>3. SetBuffers(buf, w, s).ops[u] = buf.ops[u]
    BY <1>2, <1>3, <2>2 DEF With
  <2>. QED BY <1>1, <2>1, <2>3
<1>4. ASSUME NEW w \in Uuids, w # u, RemoveSensor(w)
      PROVE  FALSE
  <2>1. PICK o \in Outcomes :
           buf' = IF o.ok THEN ClearSensor(buf, w, buf.sensors[w].ext) ELSE buf
    BY <1>2, <1>4, RemoveSensorIs
  <2>2. ClearSensor(buf, w, buf.sensors[w].ext).ops[u] = buf.ops[u]
    BY <1>2, <1>4 DEF ClearSensor
  <2>. QED BY <1>1, <2>1, <2>2
<1>5. ASSUME Create \/ Open
      PROVE  FALSE
  <2>1. buf = EmptyBuffers
    BY <1>5 DEF Create, Open, ClosedIsEmpty
  <2>. QED BY <2>1 DEF Pending, EmptyBuffers
<1>6. ASSUME \/ StartTransaction \/ SyncEnd \/ TimeoutElapses \/ UNCHANGED vars
             \/ \E w \in Uuids : SyncSourceFails(w) \/ PersistReadings(w)
             \/ \E src \in Sources, readings \in BOOLEAN : SyncBegin(src, readings)
      PROVE  FALSE
  BY <1>1, <1>6
  DEF StartTransaction, SyncEnd, TimeoutElapses, SyncSourceFails, PersistReadings, SyncBegin, vars
<1>7. CASE Close \/ Dispose \/ Crash
  BY <1>7 DEF Close, Dispose, Crash
<1>. QED BY <1>3, <1>4, <1>5, <1>6, <1>7 DEF Next, FlushStep

LEMMA FlushStoresStep ==
    ASSUME SensorsInv, ClosedIsEmpty, [Next]_vars, NEW u \in Uuids, NEW t \in Times,
           Pending(u, t), ~Pending(u, t)', ~Stored(u, t)'
    PROVE  /\ Safe => \/ status' # "open"
                      \/ syncing # None /\ syncing.todo[u] # None
                      \/ RollbackTransaction
                      \/ RemoveSensor(u)
                      \/ \E s \in Definitions[u] : AddSensor(u, s) \/ UpdateSensor(u, s)
           /\ store.kind = "postgresql" /\ Welcome => ~FlushStep
           /\ store.kind = "msg" /\ beat /\ beat' => ~BeatAndFlush
<1>1. ~Held(srv', buf', u, t) /\ Held(srv, buf, u, t) /\ BufferInv(buf)
  BY HeldIs DEF SensorsInv
<1>2. Receptive(srv, buf) => ~FlushStep
  BY <1>1, FlushStepHolds
<1>3. ASSUME Safe
      PROVE  \/ status' # "open"
             \/ syncing # None /\ syncing.todo[u] # None
             \/ RollbackTransaction
             \/ RemoveSensor(u)
             \/ \E s \in Definitions[u] : AddSensor(u, s) \/ UpdateSensor(u, s)
  <2>1. status = "open"
    <3>1. status # "open" => ~Pending(u, t)
      BY DEF ClosedIsEmpty, Pending, EmptyBuffers
    <3>. QED BY <3>1
  <2>2. ~FlushStep
    BY <1>2, <1>3, <2>1, IdleIs, SafeReceptive
  <2>3. ~\E w \in Uuids : \E rs \in Batches[w], kind \in {"INSERT", "UPDATE"} :
            AddReadings(w, rs, kind)
    BY <1>1, <1>3, AddReadingsHolds
  <2>4. ASSUME NEW w \in Uuids, SyncSensor(w)
        PROVE  syncing # None /\ syncing.todo[u] # None
    <3>1. w = u
      BY <1>1, <1>3, <2>4, SyncSensorHolds
    <3>. QED BY <2>4, <3>1, SyncSensorIs
  <2>. QED BY <2>2, <2>3, <2>4, OperationsStay
<1>4. store.kind = "postgresql" /\ Welcome => ~FlushStep
  BY <1>1, <1>2, WelcomeReceptive
<1>5. store.kind = "msg" /\ beat /\ beat' => ~BeatAndFlush
  <2>1. ASSUME BeatAndFlush, beat, beat'
        PROVE  FALSE
    <3>1. PICK through \in MS!Heartbeats(beat) :
             /\ beat' = (beat /\ ~through)
             /\ through = FALSE => buf' = buf
      BY <2>1 DEF BeatAndFlush
    <3>2. through \in BOOLEAN
      BY DEF MS!Heartbeats
    <3>3. buf' = buf
      BY <2>1, <3>1, <3>2
    <3>. QED BY <3>3, SameOperations
  <2>. QED BY <2>1
<1>. QED BY <1>3, <1>4, <1>5

\* A reading leaves memory only for the medium, or with its sensor, with its
\* definition, in a rollback or with the end of the store, as far as the kind of
\* the store can be relied on; and a heartbeat that fails takes none.
THEOREM FlushesStore == Spec => FlushStores
<1>1. SensorsInv /\ ClosedIsEmpty /\ [Next]_vars =>
         [\A u \in Uuids, t \in Times :
             Pending(u, t) /\ ~Pending(u, t)' /\ ~Stored(u, t)' =>
                 LET safe == \/ store.kind \in {"redis", "rocksdb", "txt"}
                             \/ store.kind = "msg" /\ ~store.faulty
                 IN /\ safe => \/ status' # "open"
                               \/ syncing # None /\ syncing.todo[u] # None
                               \/ RollbackTransaction
                               \/ RemoveSensor(u)
                               \/ \E s \in Definitions[u] : AddSensor(u, s) \/ UpdateSensor(u, s)
                    /\ store.kind = "postgresql" /\ Welcome => ~FlushStep
                    /\ store.kind = "msg" /\ beat /\ beat' => ~BeatAndFlush]_vars
  BY FlushStoresStep DEF Safe
<1>. QED BY <1>1, SensorsInvariant, ClosedEmpty, PTL DEF Spec, FlushStores

-----------------------------------------------------------------------------
(***************************************************************************)
(* No readings without a sensor.  Outside PostgreSQL, and while no sync of *)
(* Redis fails, the medium keeps no readings of a sensor it does not have, *)
(* and the mSG server none of a sensor its store does not know.            *)
(***************************************************************************)

Owning == store.kind # "postgresql" /\ (store.kind = "redis" => ~store.faulty)

Owned(c) == \A u \in Uuids : c.sensors[u] = None => c.readings[u] = NoReadings

OrphanFree(m) ==
    Owning => /\ Owned(m.view) /\ Owned(m.disk)
              /\ store.kind = "rocksdb" => m.view.sensors = m.disk.sensors

Unread(m, b) ==
    store.kind = "msg" =>
        \A u \in Uuids : b.sensors[u] = None => m.view.readings[u] = NoReadings

Tidy(m, b) == OrphanFree(m) /\ Unread(m, b)

TidyInv == OrphanFree(srv) /\ (status = "open" => Unread(srv, buf))

LEMMA OwnedNothing == Owned(Nothing)
BY DEF Owned, Nothing

LEMMA OwnedPut ==
    ASSUME NEW c \in Contents, Owned(c), NEW w \in Uuids, c.sensors[w] # None, NEW rs
    PROVE  Owned(PutReadings(c, w, rs))
<1> DEFINE d == PutReadings(c, w, rs)
<1>1. d.readings = With(c.readings, w, rs) /\ d.sensors = c.sensors
  BY PutReadingsIs
<1>2. c.readings \in [Uuids -> Readings]
  BY DEF Contents
<1>. HIDE DEF d
<1>3. Owned(d)
  BY <1>1, <1>2 DEF Owned, With
<1>. QED BY <1>3 DEF d

\* The step takes the contents of both sides from what was there.
Settled(m, n) ==
    /\ {n.view, n.disk} \subseteq {m.view, m.disk}
    /\ store.kind = "msg" => n.view = m.view

LEMMA SettledTidy ==
    ASSUME NEW m, NEW n, Settled(m, n)
    PROVE  /\ OrphanFree(m) => OrphanFree(n)
           /\ \A b : Unread(m, b) => Unread(n, b)
BY DEF Settled, OrphanFree, Unread

LEMMA StartedSettled ==
    ASSUME NEW m \in Media
    PROVE  Settled(m, Started(m).srv)
BY StartedIs DEF Settled

LEMMA EndedSettled ==
    ASSUME NEW m \in Media, NEW isPending \in BOOLEAN, NEW returned \in BOOLEAN,
           isPending => HasHandler
    PROVE  Settled(m, Ended(m, isPending, returned))
<1> DEFINE n == Ended(m, isPending, returned)
<1>1. /\ isPending = FALSE => n = m
      /\ isPending = TRUE => n.view = n.disk /\ n.disk \in {m.disk, m.view}
  BY EndedIs
<1>. HIDE DEF n
<1>2. isPending = TRUE => store.kind # "msg"
  BY DEF HasHandler, WithTransactions
<1>3. Settled(m, n)
  BY <1>1, <1>2 DEF Settled
<1>. QED BY <1>3 DEF n

\* Memory that knows at least as many sensors.
LEMMA UnreadGrows ==
    ASSUME NEW m, NEW b, NEW c, Unread(m, b),
           \A u \in Uuids : b.sensors[u] # None => c.sensors[u] # None
    PROVE  Unread(m, c)
BY DEF Unread

\* Readings are written to a sensor that is there.
LEMMA WrittenTidy ==
    ASSUME store \in Stores, NEW m \in Media, NEW b, NEW w \in Uuids, b.sensors[w] # None,
           Known(m, b), Tidy(m, b), NEW n, NEW inserting, ReadingsWritten(m, n, w, inserting)
    PROVE  Tidy(n, b)
<1>1. m.view \in Contents /\ m.view.readings \in [Uuids -> Readings]
  BY MediaContents DEF Contents
<1>2. CASE n = m
  BY <1>2
<1>3. CASE store.kind = "postgresql"
  BY <1>3 DEF Tidy, OrphanFree, Unread, Owning
<1>4. CASE /\ store.kind \notin {"postgresql", "rocksdb"}
           /\ store.kind \in {"txt", "msg"} => m.view.sensors[w] # None
           /\ \E new \in Readings : n = Write(m, PutReadings(m.view, w, new))
  <2>1. PICK new \in Readings : n = Write(m, PutReadings(m.view, w, new))
    BY <1>4
  <2> DEFINE c == PutReadings(m.view, w, new)
  <2>2. c.readings = With(m.view.readings, w, new) /\ c.sensors = m.view.sensors
    BY <1>1, PutReadingsIs
  <2>3. n.view = c /\ n.disk \in {c, m.disk}
    BY <2>1, WriteIs
  <2>4. Owning => m.view.sensors[w] # None
    BY <1>4, KindType DEF Owning, Known, AnswersFor, Kinds
  <2>5. Owning => Owned(c)
    BY <1>1, <2>4, OwnedPut DEF Tidy, OrphanFree
  <2>. HIDE DEF c
  <2>6. OrphanFree(n)
    BY <1>4, <2>3, <2>5 DEF Tidy, OrphanFree
  <2>7. Unread(n, b)
    BY <1>1, <2>2, <2>3 DEF Tidy, Unread, With
  <2>. QED BY <2>6, <2>7 DEF Tidy
<1>5. CASE store.kind = "rocksdb" /\ \E new \in Readings : n = Remember(m, w, new)
  <2>1. PICK new \in Readings : n = Remember(m, w, new)
    BY <1>5
  <2>2. /\ n.disk = m.disk /\ n.view.readings = With(m.view.readings, w, new)
        /\ n.view.sensors = m.view.sensors
    BY <2>1 DEF Remember, Media, Contents, With
  <2>3. m.view.sensors[w] # None
    BY <1>5 DEF Known, AnswersFor
  <2>4. Owning => Owned(n.view)
    BY <1>1, <2>2, <2>3 DEF Tidy, OrphanFree, Owned, With
  <2>. QED BY <1>5, <2>2, <2>4 DEF Tidy, OrphanFree, Unread
<1>. QED BY <1>2, <1>3, <1>4, <1>5 DEF ReadingsWritten

LEMMA SameUnread ==
    ASSUME NEW m, NEW b, NEW c, c.sensors = b.sensors
    PROVE  Tidy(m, b) <=> Tidy(m, c)
BY DEF Tidy, Unread

LEMMA FlushSensorTidy ==
    ASSUME store \in Stores, NEW m \in Media, NEW b \in Buffers, NEW w \in Uuids,
           NEW ignore \in BOOLEAN, NEW o \in FlushSensor(m, b, w, ignore),
           BufferInv(b), Known(m, b), Tidy(m, b)
    PROVE  Tidy(o.srv, o.buf)
<1>1. CASE b.ops[w] = None
  BY <1>1, FlushSensorIs
<1>2. CASE b.ops[w] # None
  <2>1. b.ops[w].ins \in Readings /\ b.ops[w].upd \in Readings /\ b.sensors[w] # None
    BY <1>2, OperationsType DEF BufferInv
  <2>2. SameSensors(b, o.buf)
    BY FlushSensorEffect
  <2>3. ASSUME NEW i \in InsertReadings(m, w, b.ops[w].ins, ignore)
        PROVE  Tidy(i.srv, b) /\ Known(i.srv, b)
    <3>1. ReadingsWritten(m, i.srv, w, TRUE)
      BY <2>1, ReadingsForms
    <3>2. Tidy(i.srv, b)
      BY <2>1, <3>1, WrittenTidy
    <3>3. SensorsKept(m, i.srv)
      BY <3>1, WrittenSensors
    <3>. QED BY <3>2, <3>3, KnownKept
  <2>4. ASSUME NEW n \in Media, NEW r \in UpdateReadingRecords(n, w, b.ops[w].upd, ignore),
               Tidy(n, b), Known(n, b)
        PROVE  Tidy(r.srv, b)
    <3>1. ReadingsWritten(n, r.srv, w, FALSE)
      BY <2>1, <2>4, ReadingsForms
    <3>. QED BY <2>1, <2>4, <3>1, WrittenTidy
  <2>5. Tidy(o.srv, b)
    <3>1. CASE InsertionFailed(m, b, w, ignore, o)
      BY <2>3, <3>1 DEF InsertionFailed
    <3>2. CASE InsertionsOnly(m, b, w, ignore, o)
      BY <2>3, <3>2 DEF InsertionsOnly
    <3>3. CASE InsertionsAndUpdates(m, b, w, ignore, o)
      BY <2>3, <2>4, <3>3 DEF InsertionsAndUpdates
    <3>. QED BY <1>2, <3>1, <3>2, <3>3, FlushSensorIs
  <2>. QED BY <2>2, <2>5, SameUnread DEF SameSensors
<1>. QED BY <1>1, <1>2

LEMMA FlushAllTidy ==
    ASSUME store \in Stores, NEW m \in Media, NEW b \in Buffers, NEW ignore \in BOOLEAN,
           NEW o \in FlushAll(m, b, ignore), BufferInv(b), Known(m, b), Tidy(m, b)
    PROVE  Tidy(o.srv, o.buf)
<1> DEFINE R == {p \in FlushOutcomes : /\ BufferInv(p.buf) /\ Known(p.srv, p.buf)
                                       /\ Tidy(p.srv, p.buf)}
<1>1. FlushStart(m, b) \subseteq R
  <2>1. [srv |-> m, buf |-> b, ok |-> TRUE] \in FlushOutcomes
    BY DEF FlushOutcomes
  <2>. QED BY <2>1 DEF FlushStart
<1>2. ASSUME NEW p \in R, NEW w \in Buffered(b), NEW q \in FlushSensor(p.srv, p.buf, w, ignore)
      PROVE  q \in R
  <2>1. p.srv \in Media /\ p.buf \in Buffers /\ w \in Uuids
    BY DEF FlushOutcomes, Buffered
  <2>2. q \in FlushOutcomes /\ SameSensors(p.buf, q.buf) /\ SensorsKept(p.srv, q.srv)
    BY <2>1, FlushSensorEffect, FlushSensorSensors
  <2>3. BufferInv(q.buf)
    BY <2>2, SameBuffersInv
  <2>4. Known(q.srv, q.buf)
    BY <2>2, KnownKept DEF SameSensors
  <2>5. Tidy(q.srv, q.buf)
    BY <2>1, FlushSensorTidy
  <2>. QED BY <2>2, <2>3, <2>4, <2>5
<1>. HIDE DEF R
<1>3. FlushAll(m, b, ignore) \subseteq R
  BY <1>1, <1>2, FlushAllStaysIn
<1>. QED BY <1>3 DEF R

\* What starts and ends a call keeps what is tidy.
LEMMA CallTidy ==
    ASSUME NEW m \in Media, NEW n \in Media, NEW b, NEW returned \in BOOLEAN, Tidy(n, b)
    PROVE  Tidy(Ended(n, Started(m).ok, returned), b)
<1>1. Started(m).ok \in BOOLEAN /\ (Started(m).ok => HasHandler)
  BY StartedIs
<1>. QED BY <1>1, EndedSettled, SettledTidy DEF Tidy

LEMMA StartedTidy ==
    ASSUME NEW m \in Media, NEW b, Tidy(m, b), Known(m, b)
    PROVE  Tidy(Started(m).srv, b) /\ Known(Started(m).srv, b)
BY StartedSettled, SettledTidy, StartedSensors, KnownKept DEF Tidy

LEMMA FlushIfDueTidy ==
    ASSUME store \in Stores, due \in BOOLEAN, NEW m \in Media, NEW b \in Buffers,
           NEW mayWrite \in BOOLEAN, NEW o \in FlushIfDue(m, b, mayWrite),
           BufferInv(b), Known(m, b), Tidy(m, b)
    PROVE  Tidy(o.srv, o.buf)
<1>1. CASE ~due
  BY <1>1 DEF FlushIfDue
<1>2. CASE due /\ mayWrite = FALSE
  BY <1>2 DEF FlushIfDue
<1>3. CASE due /\ mayWrite = TRUE
  <2> DEFINE h == Started(m)
  <2>1. h.srv \in Media /\ h.ok \in BOOLEAN /\ Tidy(h.srv, b) /\ Known(h.srv, b)
    BY StartedIs, StartedTidy
  <2>2. PICK p \in Call(m, LAMBDA n : FlushAll(n, b, TRUE)) : o.srv = p.srv /\ o.buf = p.buf
    <3>1. PICK p \in Call(m, LAMBDA n : FlushAll(n, b, TRUE)) :
             o = [srv |-> p.srv, buf |-> p.buf, ok |-> p.ok,
                  due |-> store.kind = "txt" \/ ~p.ok]
      BY <1>3 DEF FlushIfDue
    <3>. QED BY <3>1
  <2>3. PICK q \in FlushAll(h.srv, b, TRUE) : p = [q EXCEPT !.srv = Ended(q.srv, h.ok, q.ok)]
    BY <2>2 DEF Call
  <2>4. q \in FlushOutcomes /\ Tidy(q.srv, q.buf)
    BY <2>1, FlushAllEffect, FlushAllTidy
  <2>5. /\ p.srv = Ended(q.srv, h.ok, q.ok) /\ p.buf = q.buf
        /\ q.srv \in Media /\ q.ok \in BOOLEAN
    BY <2>3, <2>4 DEF FlushOutcomes
  <2>6. Tidy(p.srv, p.buf)
    BY <2>4, <2>5, CallTidy
  <2>. QED BY <2>2, <2>6
<1>. QED BY <1>1, <1>2, <1>3

LEMMA DefinesTidy ==
    ASSUME store \in Stores, NEW m \in Media, NEW b, NEW o, NEW w \in Uuids, NEW s, s # None,
           Defines(m, o, w, s), Tidy(m, b)
    PROVE  Tidy(o.srv, b)
<1> DEFINE c == PutSensor(m.view, w, s)
<1>1. /\ m.view \in Contents /\ m.disk \in Contents
      /\ m.view.sensors \in [Uuids -> Sensors \cup {None}]
      /\ m.disk.sensors \in [Uuids -> Sensors \cup {None}]
  BY MediaContents DEF Contents
<1>2. c.readings = m.view.readings /\ c.sensors = With(m.view.sensors, w, s)
  BY <1>1, PutSensorIs
<1>. HIDE DEF c
<1>3. Owned(m.view) => Owned(c)
  BY <1>1, <1>2 DEF Owned, With
<1>4. CASE store.kind = "postgresql"
  BY <1>4 DEF Tidy, OrphanFree, Unread, Owning
<1>5. CASE o.srv = m
  BY <1>5
<1>6. CASE store.kind # "rocksdb" /\ Puts(m, o.srv, c)
  BY <1>2, <1>3, <1>6 DEF Tidy, OrphanFree, Unread, Puts
<1>7. CASE /\ store.kind = "rocksdb" /\ o.srv.view = c
           /\ o.srv.disk.sensors = o.srv.view.sensors /\ o.srv.disk.readings = m.disk.readings
  <2>1. Owning => Owned(o.srv.disk)
    BY <1>1, <1>2, <1>7 DEF Tidy, OrphanFree, Owned, With
  <2>. QED BY <1>3, <1>7, <2>1 DEF Tidy, OrphanFree, Unread
<1>. QED BY <1>4, <1>5, <1>6, <1>7 DEF Defines, c

LEMMA RemovesTidy ==
    ASSUME store \in Stores, NEW m \in Media, NEW b \in Buffers, NEW o, NEW w \in Uuids,
           Removes(m, o, w), Tidy(m, b)
    PROVE  /\ Tidy(o.srv, b)
           /\ \A c : o.ok = TRUE /\ c.sensors = With(b.sensors, w, None) => Tidy(o.srv, c)
<1> DEFINE v == Without(m.view, w)
           d == Without(m.disk, w)
<1>1. /\ m.view.sensors \in [Uuids -> Sensors \cup {None}]
      /\ m.disk.sensors \in [Uuids -> Sensors \cup {None}]
      /\ m.view.readings \in [Uuids -> Readings] /\ m.disk.readings \in [Uuids -> Readings]
  BY MediaContents DEF Contents
<1>2. /\ v.sensors = With(m.view.sensors, w, None) /\ v.readings = With(m.view.readings, w, NoReadings)
      /\ d.sensors = With(m.disk.sensors, w, None) /\ d.readings = With(m.disk.readings, w, NoReadings)
  BY WithoutIs
<1>3. b.sensors \in [Uuids -> Sensors \cup {None, NullPtr}]
  BY DEF Buffers
<1>. HIDE DEF v, d
<1>4. (Owned(m.view) => Owned(v)) /\ (Owned(m.disk) => Owned(d))
  BY <1>1, <1>2 DEF Owned, With
<1>5. ASSUME o.srv.view = v, Unread(m, b)
      PROVE  Unread(o.srv, b) /\ \A c : c.sensors = With(b.sensors, w, None) => Unread(o.srv, c)
  BY <1>1, <1>2, <1>3, <1>5 DEF Unread, With
<1>6. CASE store.kind = "postgresql"
  BY <1>6 DEF Tidy, OrphanFree, Unread, Owning
<1>7. CASE o.srv = m /\ o.ok = FALSE
  BY <1>7
<1>8. CASE store.kind \in {"redis", "txt", "msg"} /\ Puts(m, o.srv, v)
  <2>1. OrphanFree(o.srv) /\ o.srv.view = v
    BY <1>4, <1>8 DEF Tidy, OrphanFree, Puts
  <2>. QED BY <1>5, <2>1 DEF Tidy
<1>9. CASE store.kind = "rocksdb" /\ o.srv.view = v /\ o.srv.disk = d
  <2>1. OrphanFree(o.srv)
    BY <1>2, <1>4, <1>9 DEF Tidy, OrphanFree
  <2>. QED BY <1>9, <2>1 DEF Tidy, Unread
<1>. QED BY <1>6, <1>7, <1>8, <1>9 DEF Removes, v, d

LEMMA SensorActionTidy ==
    ASSUME SensorsInv, TidyInv, NEW u \in Uuids,
           (\E s \in Definitions[u] : AddSensor(u, s) \/ UpdateSensor(u, s)) \/ RemoveSensor(u)
    PROVE  TidyInv'
<1> DEFINE m == Started(srv).srv
<1>1. status = "open" /\ store' = store
  BY DEF AddSensor, UpdateSensor, RemoveSensor, SensorCall, MayWrite, Idle
<1>2. /\ store \in Stores /\ srv \in Media /\ buf \in Buffers /\ m \in Media
      /\ BufferInv(buf) /\ Known(srv, buf)
  BY <1>1, IdleIs DEF Sound
<1>3. Tidy(srv, buf)
  BY <1>1 DEF TidyInv, Tidy
<1>4. Tidy(m, buf)
  BY <1>2, <1>3, StartedTidy
<1>5. Tidy(srv', buf') => TidyInv'
  BY <1>1 DEF TidyInv, Tidy, OrphanFree, Unread, Owning, Owned
<1>6. ASSUME NEW s \in Definitions[u], AddSensor(u, s) \/ UpdateSensor(u, s)
      PROVE  TidyInv'
  <2>1. PICK o \in AddSensorRecord(m, u, s) \cup UpdateSensorRecord(m, u, s) :
           /\ o \in Outcomes
           /\ srv' = Ended(o.srv, Started(srv).ok, o.ok)
           /\ buf' = IF o.ok THEN SetBuffers(buf, u, s) ELSE buf
    BY <1>2, <1>6, AddSensorIs, UpdateSensorIs
  <2>2. s \in Sensors /\ s # None /\ o.srv \in Media /\ o.ok \in BOOLEAN
    BY <2>1, DefinitionIs DEF Outcomes
  <2>. HIDE DEF m
  <2>3. Defines(m, o, u, AsStored(s))
    BY <1>2, <2>2, DefinesSensor
  <2>4. Tidy(o.srv, buf)
    BY <1>2, <1>4, <2>2, <2>3, AsStoredIs, DefinesTidy
  <2>5. SetBuffers(buf, u, s).sensors = With(buf.sensors, u, s)
    BY <1>2, SetBuffersInv
  <2>6. \A w \in Uuids : buf.sensors[w] # None => SetBuffers(buf, u, s).sensors[w] # None
    BY <1>2, <2>2, <2>5 DEF With, Buffers
  <2>7. Tidy(o.srv, SetBuffers(buf, u, s))
    BY <2>4, <2>6, UnreadGrows DEF Tidy
  <2>8. Tidy(o.srv, buf')
    BY <2>1, <2>4, <2>7
  <2>9. Tidy(srv', buf')
    BY <1>2, <2>1, <2>2, <2>8, CallTidy
  <2>. QED BY <1>5, <2>9
<1>7. CASE RemoveSensor(u)
  <2> DEFINE c == ClearSensor(buf, u, buf.sensors[u].ext)
  <2>1. PICK o \in RemoveSensorRecord(m, u) :
           /\ o \in Outcomes
           /\ srv' = Ended(o.srv, Started(srv).ok, o.ok)
           /\ buf' = IF o.ok THEN c ELSE buf
    BY <1>2, <1>7, RemoveSensorIs
  <2>2. o.srv \in Media /\ o.ok \in BOOLEAN
    BY <2>1 DEF Outcomes
  <2>3. c.sensors = With(buf.sensors, u, None)
    BY DEF ClearSensor, With
  <2>. HIDE DEF m, c
  <2>4. Removes(m, o, u)
    BY <1>2, RemovesSensor
  <2>5. Tidy(o.srv, buf) /\ (o.ok = TRUE => Tidy(o.srv, c))
    BY <1>2, <1>4, <2>3, <2>4, RemovesTidy
  <2>6. Tidy(o.srv, buf')
    BY <2>1, <2>2, <2>5
  <2>7. Tidy(srv', buf')
    BY <1>2, <2>1, <2>2, <2>6, CallTidy
  <2>. QED BY <1>5, <2>7
<1>. QED BY <1>6, <1>7

LEMMA PreparedTidy ==
    ASSUME store \in Stores, NEW m \in Media, m.txn = "none", Defined(m), OrphanFree(m),
           NEW p \in Prepares(m)
    PROVE  /\ OrphanFree(p.srv) /\ OrphanFree(Disconnected(p.srv.disk))
           /\ Unread(p.srv, LoadBuffers(p.sensors))
           /\ store.kind \in {"postgresql", "redis"} => Unread(p.srv, EmptyBuffers)
<1>1. PreparedFrom(m, p)
  BY PreparesIs
<1>2. p.srv.view = m.view /\ p.srv.disk = m.disk
  BY <1>1 DEF PreparedFrom
<1>3. OrphanFree(p.srv) /\ OrphanFree(Disconnected(p.srv.disk))
  BY <1>2 DEF OrphanFree, Disconnected
<1>4. Unread(p.srv, LoadBuffers(p.sensors))
  <2>1. CASE store.kind = "msg"
    <3>1. p.sensors = m.view.sensors
      BY <1>1, <2>1 DEF PreparedFrom
    <3>2. /\ m.view.sensors \in [Uuids -> Sensors \cup {None}]
          /\ \A u \in Uuids : m.view.sensors[u] \in Storable(u) \cup {None}
      BY MediaContents DEF Contents, Defined
    <3>3. LoadBuffers(p.sensors).sensors = m.view.sensors
      BY <3>1, <3>2, StorableIs, LoadBuffersInv
    <3>. QED BY <1>2, <2>1, <3>3 DEF Unread, OrphanFree, Owning, Owned
  <2>2. CASE store.kind # "msg"
    BY <2>2 DEF Unread
  <2>. QED BY <2>1, <2>2
<1>. QED BY <1>3, <1>4 DEF Unread

LEMMA TransactionTidy ==
    ASSUME SensorsInv, TidyInv, StartTransaction \/ CommitTransaction \/ RollbackTransaction
    PROVE  TidyInv'
<1>1. /\ status = "open" /\ store' = store /\ store \in Stores /\ ~store.auto /\ HasHandler
  BY StoresAssumption
  DEF StartTransaction, CommitTransaction, RollbackTransaction, Idle, HasHandler,
      SensorsInv, HandlersInv, BackendTypeOK
<1>2. /\ srv \in Media /\ buf \in Buffers /\ pending \in BOOLEAN
      /\ BufferInv(buf) /\ Known(srv, buf) /\ Defined(srv)
  BY <1>1, IdleIs DEF Sound
<1>3. Tidy(srv, buf) /\ store.kind # "msg"
  BY <1>1 DEF TidyInv, Tidy, HasHandler, WithTransactions
<1>4. OrphanFree(srv') => TidyInv'
  BY <1>1, <1>3 DEF TidyInv, OrphanFree, Unread, Owning, Owned
<1>5. CASE StartTransaction
  <2>1. srv'.view = srv.view /\ srv'.disk = srv.disk
    BY <1>1, <1>2, <1>5, BeginIs DEF StartTransaction
  <2>. QED BY <1>3, <1>4, <2>1 DEF Tidy, OrphanFree
<1>6. CASE CommitTransaction
  <2>1. PICK o \in FlushAll(srv, buf, TRUE) :
           srv' = (IF o.ok /\ pending THEN Commit(o.srv)
                   ELSE [srv |-> o.srv, ok |-> ~pending]).srv
    BY <1>6 DEF CommitTransaction
  <2>2. o.srv \in Media /\ Tidy(o.srv, o.buf)
    BY <1>1, <1>2, <1>3, FlushAllTidy, FlushAllEffect DEF FlushOutcomes
  <2>3. srv' = o.srv \/ srv' = Commit(o.srv).srv
    BY <2>1
  <2>4. Settled(o.srv, Commit(o.srv).srv)
    BY <1>1, <1>3, <2>2, CommitIs DEF Settled
  <2>5. OrphanFree(srv')
    BY <2>2, <2>3, <2>4, SettledTidy DEF Tidy
  <2>. QED BY <1>4, <2>5
<1>7. CASE RollbackTransaction
  <2> DEFINE n == (IF pending THEN Rollback(srv) ELSE [srv |-> srv, ok |-> TRUE]).srv
  <2>1. PICK p \in Prepares(n) : srv' = p.srv
    BY <1>7 DEF RollbackTransaction
  <2>2. pending = TRUE => n = Rollback(srv).srv
    OBVIOUS
  <2>3. pending = FALSE => n = srv
    OBVIOUS
  <2>. HIDE DEF n
  <2>4. n \in Media /\ n.txn = "none" /\ n.view \in {srv.view, srv.disk} /\ n.disk = srv.disk
    BY <1>2, <2>2, <2>3, RollbackIs DEF SensorsInv, HandlersInv
  <2>5. Settled(srv, n) /\ Defined(n)
    BY <1>2, <1>3, <2>4 DEF Settled, Defined
  <2>6. OrphanFree(n)
    BY <1>3, <2>5, SettledTidy DEF Tidy
  <2>7. OrphanFree(p.srv)
    BY <1>1, <2>4, <2>5, <2>6, PreparedTidy
  <2>. QED BY <1>4, <2>1, <2>7
<1>. QED BY <1>5, <1>6, <1>7

LEMMA ReadingsActionTidy ==
    ASSUME SensorsInv, TidyInv,
           \/ \E u \in Uuids : \E rs \in Batches[u], kind \in {"INSERT", "UPDATE"} :
                 AddReadings(u, rs, kind)
           \/ \E ignore \in BOOLEAN : Flush(ignore)
           \/ BeatAndFlush
           \/ \E u \in Uuids : Query(u)
    PROVE  TidyInv'
<1>1. status = "open" /\ store' = store
  BY DEF AddReadings, Flush, BeatAndFlush, Query, MayWrite, Idle
<1>2. /\ store \in Stores /\ srv \in Media /\ buf \in Buffers /\ due \in BOOLEAN
      /\ Started(srv).srv \in Media /\ Started(srv).ok \in BOOLEAN
      /\ BufferInv(buf) /\ Known(srv, buf)
  BY <1>1, IdleIs DEF Sound
<1>3. Tidy(srv, buf)
  BY <1>1 DEF TidyInv, Tidy
<1>4. Tidy(srv', buf') => TidyInv'
  BY <1>1 DEF TidyInv, Tidy, OrphanFree, Unread, Owning, Owned
<1>5. ASSUME NEW u \in Uuids, NEW rs \in Batches[u], NEW kind \in {"INSERT", "UPDATE"},
             AddReadings(u, rs, kind)
      PROVE  TidyInv'
  <2> DEFINE b == BufferReadings(buf, u, rs, kind)
  <2>1. rs \in Readings /\ buf.ops[u] # None
    BY <1>5, ClientsAssumption DEF AddReadings
  <2>2. SameSensors(buf, b)
    BY <1>2, <2>1, BufferReadingsSame
  <2>3. PICK o \in FlushIfDue(srv, b, MayWrite) : srv' = o.srv /\ buf' = o.buf
    BY <1>5 DEF AddReadings
  <2>4. b \in Buffers /\ BufferInv(b) /\ MayWrite \in BOOLEAN
    BY <1>2, <2>2, SameBuffersInv DEF SameSensors, MayWrite, Idle
  <2>. HIDE DEF b
  <2>5. Tidy(srv, b) /\ Known(srv, b)
    BY <1>2, <1>3, <2>2, SameUnread, KnownKept, SensorsKeptReflexive DEF SameSensors
  <2>6. Tidy(srv', buf')
    BY <1>2, <2>3, <2>4, <2>5, FlushIfDueTidy
  <2>. QED BY <1>4, <2>6
<1>6. ASSUME NEW ignore \in BOOLEAN, Flush(ignore)
      PROVE  TidyInv'
  <2>1. PICK o \in FlushAll(Started(srv).srv, buf, ignore) :
           /\ o \in FlushOutcomes
           /\ srv' = Ended(o.srv, Started(srv).ok, o.ok)
           /\ buf' = o.buf
    BY <1>2, <1>6, FlushIs
  <2>2. Tidy(o.srv, o.buf)
    BY <1>2, <1>3, StartedTidy, FlushAllTidy
  <2>3. Tidy(srv', buf')
    BY <1>2, <2>1, <2>2, CallTidy DEF FlushOutcomes
  <2>. QED BY <1>4, <2>3
<1>7. ASSUME BeatAndFlush
      PROVE  TidyInv'
  <2>1. PICK o \in FlushAll(srv, buf, TRUE) :
           (srv' = o.srv /\ buf' = o.buf) \/ (srv' = srv /\ buf' = buf)
    <3>1. PICK through \in MS!Heartbeats(beat), o \in FlushAll(srv, buf, TRUE) :
             /\ srv' = IF through THEN o.srv ELSE srv
             /\ buf' = IF through THEN o.buf ELSE buf
      BY <1>7 DEF BeatAndFlush
    <3>2. through = TRUE => srv' = o.srv /\ buf' = o.buf
      BY <3>1
    <3>3. through = FALSE => srv' = srv /\ buf' = buf
      BY <3>1
    <3>4. through = TRUE \/ through = FALSE
      BY DEF MS!Heartbeats
    <3>. QED BY <3>2, <3>3, <3>4
  <2>2. Tidy(o.srv, o.buf)
    BY <1>2, <1>3, FlushAllTidy
  <2>. QED BY <1>3, <1>4, <2>1, <2>2
<1>8. ASSUME NEW u \in Uuids, Query(u)
      PROVE  TidyInv'
  <2>1. PICK o \in FlushSensor(srv, buf, u, TRUE) :
           /\ srv' = IF store.kind = "redis" THEN RD!Queried(o.srv) ELSE o.srv
           /\ buf' = o.buf
    BY <1>8 DEF Query
  <2>2. o \in FlushOutcomes /\ Tidy(o.srv, o.buf)
    BY <1>2, <1>3, FlushSensorEffect, FlushSensorTidy
  <2>3. RD!Queried(o.srv) = RD!Noise(o.srv) /\ o.srv \in Media
    BY <2>2 DEF RD!Queried, FlushOutcomes
  <2>4. srv'.view = o.srv.view /\ srv'.disk = o.srv.disk
    BY <2>1, <2>3, NoiseIs
  <2>5. Settled(o.srv, srv')
    BY <2>4 DEF Settled
  <2>6. Tidy(srv', buf')
    BY <2>1, <2>2, <2>5, SettledTidy DEF Tidy
  <2>. QED BY <1>4, <2>6
<1>. QED BY <1>5, <1>6, <1>7, <1>8

LEMMA SyncGoesOnTidy ==
    ASSUME SensorsInv, NEW u, NEW m \in Media, NEW ok \in BOOLEAN, SyncGoesOn(u, m, ok),
           UNCHANGED store, Tidy(m, buf')
    PROVE  TidyInv'
<1> DEFINE isPending == store.auto /\ pending
<1>1. isPending \in BOOLEAN /\ (isPending => HasHandler)
  BY StoresAssumption DEF SensorsInv, HandlersInv, BackendTypeOK
<1>2. ok = TRUE => srv' = m
  BY DEF SyncGoesOn
<1>3. ok = FALSE => srv' = Ended(m, isPending, FALSE)
  BY DEF SyncGoesOn
<1>. HIDE DEF isPending
<1>4. Settled(m, Ended(m, isPending, FALSE))
  BY <1>1, EndedSettled
<1>5. Tidy(srv', buf')
  BY <1>2, <1>3, <1>4, SettledTidy DEF Tidy
<1>. QED BY <1>5 DEF TidyInv, Tidy, OrphanFree, Unread, Owning, Owned

LEMMA SyncActionTidy ==
    ASSUME SensorsInv, TidyInv,
           \/ \E u \in Uuids : SyncSensor(u) \/ SyncSourceFails(u)
           \/ SyncEnd
           \/ \E src \in Sources, readings \in BOOLEAN : SyncBegin(src, readings)
    PROVE  TidyInv'
<1>1. status = "open" /\ UNCHANGED <<store, status>>
  <2>1. \A u \in Uuids : SyncSensor(u) => status = "open" /\ UNCHANGED <<store, status>>
    BY SyncSensorIs
  <2>. QED BY <2>1 DEF SyncSourceFails, SyncEnd, SyncBegin, MayWrite, Idle
<1>2. /\ store \in Stores /\ srv \in Media /\ buf \in Buffers /\ due \in BOOLEAN
      /\ BufferInv(buf) /\ Known(srv, buf) /\ pending \in BOOLEAN /\ BackendTypeOK
  BY <1>1, IdleIs DEF Sound, SensorsInv, HandlersInv
<1>3. Tidy(srv, buf)
  BY <1>1 DEF TidyInv, Tidy
<1>4. Tidy(srv', buf') => TidyInv'
  BY <1>1 DEF TidyInv, Tidy, OrphanFree, Unread, Owning, Owned
<1>5. ASSUME NEW u \in Uuids, SyncSensor(u)
      PROVE  TidyInv'
  <2> DEFINE s == SyncedSensor(u)
  <2>1. PICK r \in SyncRecords(u) :
           \/ ~r.ok /\ SyncGoesOn(u, r.srv, FALSE) /\ UNCHANGED <<buf, due>>
           \/ /\ r.ok /\ ~Copying(u) /\ SyncGoesOn(u, r.srv, TRUE)
              /\ buf' = SyncBuffers(u) /\ due' = due
           \/ /\ r.ok /\ Copying(u)
              /\ \E o \in FlushIfDue(r.srv, SyncBuffered(u), TRUE) :
                    SyncGoesOn(u, o.srv, o.ok) /\ buf' = o.buf /\ due' = o.due
    BY <1>5, SyncSensorIs
  <2>2. /\ syncing # None /\ syncing.todo[u] # None
        /\ buf.ids[syncing.todo[u].ext] # None =>
              buf.sensors[buf.ids[syncing.todo[u].ext]] # None
    BY <1>5, SyncSensorIs
  <2>3. /\ r.srv \in Media /\ r.ok \in BOOLEAN
        /\ r.ok = TRUE => Sound(r.srv, SyncBuffers(u))
    BY <1>1, <2>2, SyncRecordsSound
  <2>4. s \in Definitions[u] /\ LocalSensor(u) = u
    BY <2>2, SyncedLocally
  <2>5. s \in Sensors /\ s # None
    BY <2>4, DefinitionIs
  <2>6. Tidy(r.srv, buf)
    <3>1. \/ r \in AddSensorRecord(srv, u, s)
          \/ r \in UpdateSensorRecord(srv, u, s)
          \/ r \in Done(srv)
      BY <2>4 DEF SyncRecords
    <3>2. CASE r \in Done(srv)
      BY <1>3, <3>2 DEF Done
    <3>3. CASE r \in AddSensorRecord(srv, u, s) \cup UpdateSensorRecord(srv, u, s)
      <4>. HIDE DEF s
      <4>1. Defines(srv, r, u, AsStored(s))
        BY <1>2, <2>5, <3>3, DefinesSensor
      <4>. QED BY <1>2, <1>3, <2>5, <4>1, AsStoredIs, DefinesTidy
    <3>. QED BY <3>1, <3>2, <3>3
  <2>7. Tidy(r.srv, SyncBuffers(u))
    <3>1. SyncBuffers(u).sensors = With(buf.sensors, u, s)
      BY <1>2, <2>4, SetBuffersInv DEF SyncBuffers
    <3>2. \A w \in Uuids : buf.sensors[w] # None => SyncBuffers(u).sensors[w] # None
      BY <1>2, <2>5, <3>1 DEF With, Buffers
    <3>. QED BY <2>6, <3>2, UnreadGrows DEF Tidy
  <2>8. CASE ~r.ok /\ SyncGoesOn(u, r.srv, FALSE) /\ UNCHANGED <<buf, due>>
    BY <1>1, <2>3, <2>6, <2>8, SyncGoesOnTidy
  <2>9. CASE r.ok /\ SyncGoesOn(u, r.srv, TRUE) /\ buf' = SyncBuffers(u)
    BY <1>1, <2>3, <2>7, <2>9, SyncGoesOnTidy
  <2>10. ASSUME r.ok = TRUE, NEW o \in FlushIfDue(r.srv, SyncBuffered(u), TRUE),
                SyncGoesOn(u, o.srv, o.ok), buf' = o.buf
         PROVE  TidyInv'
    <3>1. /\ SyncBuffers(u) \in Buffers /\ LocalSensor(u) \in Uuids
          /\ syncing.todo[u].readings \in Readings
      BY <1>2, <2>2, SyncTypes
    <3>2. SyncBuffers(u).ops[LocalSensor(u)] # None
      BY <1>2, <2>4, <2>5, SetBuffersType DEF SyncBuffers
    <3>3. SameSensors(SyncBuffers(u), SyncBuffered(u))
      BY <3>1, <3>2, BufferReadingsSame DEF SyncBuffered
    <3>4. Sound(r.srv, SyncBuffered(u)) /\ SyncBuffered(u) \in Buffers
      BY <2>3, <2>10, <3>3, SoundKept, SensorsKeptReflexive DEF SameSensors
    <3>5. Tidy(r.srv, SyncBuffered(u))
      BY <2>7, <3>3, SameUnread DEF SameSensors
    <3>6. o.srv \in Media /\ o.ok \in BOOLEAN
      BY <1>2, <2>3, <3>4, FlushIfDueEffect
    <3>7. Tidy(o.srv, o.buf)
      BY <1>2, <2>3, <3>4, <3>5, FlushIfDueTidy DEF Sound
    <3>. QED BY <1>1, <2>10, <3>6, <3>7, SyncGoesOnTidy
  <2>. QED BY <2>1, <2>3, <2>8, <2>9, <2>10
<1>6. ASSUME NEW u \in Uuids, SyncSourceFails(u)
      PROVE  TidyInv'
  BY <1>1, <1>2, <1>3, <1>6, SyncGoesOnTidy DEF SyncSourceFails
<1>7. CASE SyncEnd
  <2> DEFINE isPending == store.auto /\ pending
  <2>1. srv' = Ended(srv, isPending, TRUE) /\ buf' = buf
    BY <1>7 DEF SyncEnd
  <2>2. isPending \in BOOLEAN /\ (isPending => HasHandler)
    BY <1>2, StoresAssumption DEF SensorsInv, HandlersInv
  <2>. HIDE DEF isPending
  <2>3. Tidy(srv', buf')
    BY <1>2, <1>3, <2>1, <2>2, EndedSettled, SettledTidy DEF Tidy
  <2>. QED BY <1>4, <2>3
<1>8. ASSUME NEW src \in Sources, NEW readings \in BOOLEAN, SyncBegin(src, readings)
      PROVE  TidyInv'
  <2>1. srv' = Started(srv).srv /\ buf' = buf
    BY <1>8 DEF SyncBegin
  <2>. QED BY <1>2, <1>3, <1>4, <2>1, StartedTidy
<1>. QED BY <1>5, <1>6, <1>7, <1>8

LEMMA LifeCycleTidy ==
    ASSUME SensorsInv, TidyInv, Create \/ Open \/ Close \/ Dispose \/ Crash
    PROVE  TidyInv'
<1>1. /\ store \in Stores /\ srv \in Media /\ Kept(srv) /\ Defined(srv) /\ OrphanFree(srv)
      /\ status # "open" => srv.txn = "none"
  BY DEF SensorsInv, HandlersInv, BackendTypeOK, TidyInv
<1>2. ASSUME NEW m \in Media, m.txn = "none", Defined(m), OrphanFree(m), NEW beats,
             Prepared(m, beats)
      PROVE  TidyInv'
  <2>1. PICK p \in Prepares(m) :
           /\ srv' = IF p.ok THEN p.srv ELSE Disconnected(p.srv.disk)
           /\ buf' = IF p.ok THEN LoadBuffers(p.sensors) ELSE EmptyBuffers
           /\ status' = IF p.ok THEN "open" ELSE "closed"
           /\ UNCHANGED <<store, pending, syncing>>
    BY <1>2 DEF Prepared
  <2>2. /\ OrphanFree(p.srv) /\ OrphanFree(Disconnected(p.srv.disk))
        /\ Unread(p.srv, LoadBuffers(p.sensors))
    BY <1>1, <1>2, PreparedTidy
  <2>3. /\ OrphanFree(srv')
        /\ status' = "open" => Unread(srv', buf')
    BY <2>1, <2>2
  <2>. QED BY <2>1, <2>3 DEF TidyInv, OrphanFree, Unread, Owning, Owned
<1>3. OrphanFree(Disconnected(Nothing))
  BY OwnedNothing DEF OrphanFree, Disconnected
<1>4. CASE Create
  <2>1. PICK i \in Initializations(srv) : Prepared(i.srv, TRUE)
    BY <1>4 DEF Create
  <2>2. i.srv \in Media /\ i.srv.txn = "none"
    BY <1>1, <1>4, <2>1, LifeCycleEffect DEF Create, Outcomes
  <2>3. Defined(i.srv) /\ OrphanFree(i.srv)
    BY <1>1, <1>3, <2>1, LifeCycleDefined, LifeCycleForms
  <2>. QED BY <1>2, <2>1, <2>2, <2>3
<1>5. CASE Open
  BY <1>1, <1>2, <1>5 DEF Open
<1>6. CASE Close \/ Dispose \/ Crash
  <2>1. OrphanFree(Disconnected(srv.disk)) /\ OrphanFree(Disconnected(srv.view))
    BY <1>1 DEF OrphanFree, Disconnected
  <2>2. OrphanFree(Write(srv, Nothing)) \/ store.kind = "rocksdb"
    BY <1>1, WriteIs, OwnedNothing DEF OrphanFree
  <2>3. OrphanFree(Disconnected(Write(srv, Nothing).disk))
    BY <1>1, WriteIs, OwnedNothing DEF OrphanFree, Disconnected
  <2>4. OrphanFree(srv')
    BY <1>1, <1>3, <1>6, <2>1, <2>2, <2>3, LifeCycleForms DEF Close, Dispose, Crash
  <2>5. status' # "open" /\ store' = store
    BY <1>6 DEF Close, Dispose, Crash
  <2>. QED BY <2>4, <2>5 DEF TidyInv, OrphanFree, Owning, Owned
<1>. QED BY <1>4, <1>5, <1>6

LEMMA OtherTidy ==
    ASSUME SensorsInv, TidyInv,
           (\E u \in Uuids : PersistReadings(u)) \/ TimeoutElapses \/ UNCHANGED vars
    PROVE  TidyInv'
<1>1. ASSUME NEW u \in Uuids, PersistReadings(u)
      PROVE  TidyInv'
  <2>1. srv \in Media
    BY DEF SensorsInv, HandlersInv, BackendTypeOK
  <2>2. /\ RO!Persist(srv, u).view = srv.view
        /\ RO!Persist(srv, u).disk.sensors = srv.disk.sensors
        /\ RO!Persist(srv, u).disk.readings = With(srv.disk.readings, u, srv.view.readings[u])
    BY <2>1 DEF RO!Persist, Media, Contents, With
  <2>3. srv.disk.readings \in [Uuids -> Readings]
    BY <2>1 DEF Media, Contents
  <2>4. /\ srv'.view = srv.view /\ srv'.disk.sensors = srv.disk.sensors
        /\ srv'.disk.readings = With(srv.disk.readings, u, srv.view.readings[u])
        /\ store.kind = "rocksdb" /\ UNCHANGED <<store, buf, status>>
    BY <1>1, <2>2 DEF PersistReadings
  <2>5. Owning => Owned(srv'.disk)
    BY <2>3, <2>4 DEF TidyInv, OrphanFree, Owned, With
  <2>. QED BY <2>4, <2>5 DEF TidyInv, OrphanFree, Unread, Owning, Owned
<1>2. CASE TimeoutElapses \/ UNCHANGED vars
  <2>1. UNCHANGED <<store, srv, buf, status>>
    BY <1>2 DEF TimeoutElapses, vars
  <2>. QED BY <2>1 DEF TidyInv, OrphanFree, Unread, Owning, Owned
<1>. QED BY <1>1, <1>2

\* Readings always have a sensor, where NewSensorStartsEmpty counts on it.
THEOREM ReadingsHaveSensors == Spec => []TidyInv
<1>1. Init => TidyInv
  <2>1. Init => srv.view = Nothing /\ srv.disk = Nothing
    BY DEF Init, Disconnected
  <2>2. \A u \in Uuids : Nothing.readings[u] = NoReadings
    BY DEF Nothing
  <2>. QED BY <2>1, <2>2, OwnedNothing DEF TidyInv, OrphanFree, Unread
<1>2. SensorsInv /\ TidyInv /\ [Next]_vars => TidyInv'
  BY TransactionTidy, SensorActionTidy, ReadingsActionTidy, SyncActionTidy, LifeCycleTidy,
     OtherTidy
  DEF Next
<1>. QED BY <1>1, <1>2, SensorsInvariant, PTL DEF Spec

\* What add_sensor makes of a sensor that the store did not know.
LEMMA AddedStartsEmpty ==
    ASSUME SensorsInv, TidyInv, NEW u \in Uuids, NEW s \in Definitions[u], AddSensor(u, s),
           Owning, buf.sensors[u] = None, buf'.sensors[u] # None
    PROVE  buf'.ops[u] = NoOperations /\ srv'.view.readings[u] = NoReadings
<1> DEFINE m == Started(srv).srv
<1>1. status = "open" /\ syncing = None /\ store' = store
  BY DEF AddSensor, SensorCall, MayWrite, Idle
<1>2. /\ store \in Stores /\ srv \in Media /\ buf \in Buffers /\ m \in Media
      /\ BufferInv(buf) /\ Known(srv, buf) /\ Started(srv).ok \in BOOLEAN
      /\ m.view = srv.view /\ m.disk = srv.disk
      /\ store.kind = "redis" /\ Started(srv).ok => srv.view.sensors = srv.disk.sensors
      /\ Started(srv).ok => HasHandler
  BY <1>1, IdleIs, StartedIs DEF Sound
<1>3. PICK o \in AddSensorRecord(m, u, s) :
         /\ o \in Outcomes
         /\ srv' = Ended(o.srv, Started(srv).ok, o.ok)
         /\ buf' = IF o.ok THEN SetBuffers(buf, u, s) ELSE buf
  BY <1>2, AddSensorIs
<1>4. o.ok = TRUE /\ o.srv \in Media /\ s \in Sensors
  BY <1>3, DefinitionIs DEF Outcomes
<1>. HIDE DEF m
<1>5. buf'.ops[u] = NoOperations
  <2>1. SetBuffers(buf, u, s).ops = With(buf.ops, u, NoOperations)
    BY <1>2, SetBuffersInv
  <2>. QED BY <1>2, <1>3, <1>4, <2>1 DEF With, Buffers
<1>6. store.kind = "txt" => m.view.sensors[u] = None
  BY <1>3, <1>4 DEF AddSensorRecord, TX!AddSensorRecord, TX!FileExists, TX!Thrown
<1>7. m.view.readings[u] = NoReadings
  BY <1>1, <1>2, <1>6, KindType DEF TidyInv, OrphanFree, Unread, Owned, Owning, Known, AnswersFor, Kinds
<1>8. store.kind = "redis" /\ Started(srv).ok => m.disk.readings[u] = NoReadings
  BY <1>2 DEF TidyInv, OrphanFree, Owned, Owning, Known, AnswersFor
<1>9. Defines(m, o, u, AsStored(s))
  BY <1>2, <1>3, <1>4, DefinesSensor
<1>10. /\ o.srv.view.readings = m.view.readings
       /\ o.srv.disk.readings \in {m.view.readings, m.disk.readings}
  <2>1. PutSensor(m.view, u, AsStored(s)).readings = m.view.readings
    BY <1>2, MediaContents, PutSensorIs
  <2>. QED BY <1>9, <2>1 DEF Defines, Puts, Owning
<1>11. Settled(o.srv, srv') /\ (Started(srv).ok = FALSE => srv' = o.srv)
  BY <1>2, <1>3, <1>4, EndedSettled, EndedIs
<1>12. Started(srv).ok = TRUE => store.kind = "redis"
  BY <1>2 DEF HasHandler, WithTransactions, Owning
<1>. QED BY <1>2, <1>5, <1>7, <1>8, <1>10, <1>11, <1>12 DEF Settled

\* A sensor the store did not know starts without readings, even if its uuid
\* was in use before.
THEOREM SensorsStartEmpty == Spec => NewSensorStartsEmpty
<1>1. SensorsInv /\ TidyInv /\ [Next]_vars =>
         [\A u \in Uuids :
             /\ store.kind # "postgresql" /\ (store.kind = "redis" => ~store.faulty)
             /\ buf.sensors[u] = None /\ buf'.sensors[u] # None
             /\ \E s \in Definitions[u] : AddSensor(u, s)
             => \A t \in Times : ~Pending(u, t)' /\ ~Stored(u, t)']_vars
  <2>1. \A t \in Times : NoReadings[t] = None
    BY DEF NoReadings
  <2>2. ASSUME SensorsInv, TidyInv, NEW u \in Uuids, NEW s \in Definitions[u], AddSensor(u, s),
               Owning, buf.sensors[u] = None, buf'.sensors[u] # None, NEW t \in Times
        PROVE  ~Pending(u, t)' /\ ~Stored(u, t)'
    <3>1. buf'.ops[u] = NoOperations /\ srv'.view.readings[u] = NoReadings
      BY <2>2, AddedStartsEmpty
    <3>. QED BY <2>1, <3>1 DEF Pending, Stored, NoOperations
  <2>. QED BY <2>2 DEF Owning
<1>. QED BY <1>1, SensorsInvariant, ReadingsHaveSensors, PTL DEF Spec, NewSensorStartsEmpty

-----------------------------------------------------------------------------
(***************************************************************************)
(* What the iteration of a sync leaves: the definition of the source, and  *)
(* its readings in memory or where the flush that fell due put them.       *)
(***************************************************************************)

LEMMA SynchronisedIs ==
    ASSUME SensorsInv, [Next]_vars, NEW u \in Uuids, Synchronised(u)
    PROVE  SyncSensor(u)
<1>1. syncing # None /\ syncing' # None /\ syncing.todo[u] # None /\ syncing'.todo[u] = None
  BY DEF Synchronised
<1>2. syncing \in Syncs /\ syncing.todo \in [Uuids -> Rows \cup {None}]
  BY <1>1 DEF SensorsInv, HandlersInv, BackendTypeOK, Syncs, WholeDatabases, Databases, HasTable
<1>3. ASSUME NEW w \in Uuids, SyncSensor(w)
      PROVE  w = u
  <2>1. \E m, ok : SyncGoesOn(w, m, ok)
    BY <1>3, SyncSensorIs
  <2>2. syncing' = [syncing EXCEPT !.todo[w] = None]
    BY <1>1, <2>1 DEF SyncGoesOn
  <2>3. w # u => [syncing EXCEPT !.todo[w] = None].todo[u] = syncing.todo[u]
    BY <1>2 DEF Syncs
  <2>. QED BY <1>1, <2>2, <2>3
<1>4. ASSUME NEW w \in Uuids, SyncSourceFails(w)
      PROVE  FALSE
  BY <1>1, <1>4 DEF SyncSourceFails, SyncGoesOn
<1>5. ~SyncEnd /\ ~Crash /\ ~\E src \in Sources, readings \in BOOLEAN : SyncBegin(src, readings)
  BY <1>1 DEF SyncEnd, Crash, SyncBegin, MayWrite, Idle
<1>6. ~(StartTransaction \/ CommitTransaction \/ RollbackTransaction \/ TimeoutElapses
        \/ Create \/ Open \/ Close \/ Dispose \/ BeatAndFlush \/ UNCHANGED vars)
  BY <1>1 DEF StartTransaction, CommitTransaction, RollbackTransaction, TimeoutElapses, Create,
              Open, Close, Dispose, BeatAndFlush, vars, Prepared
<1>7. /\ \A ignore \in BOOLEAN : ~Flush(ignore)
      /\ \A w \in Uuids : /\ \A s \in Definitions[w] : ~AddSensor(w, s) /\ ~UpdateSensor(w, s)
                          /\ ~RemoveSensor(w) /\ ~Query(w) /\ ~PersistReadings(w)
                          /\ \A rs \in Batches[w], kind \in {"INSERT", "UPDATE"} :
                                ~AddReadings(w, rs, kind)
  BY <1>1 DEF Flush, AddSensor, UpdateSensor, RemoveSensor, SensorCall, Query, PersistReadings,
              AddReadings, MayWrite, Idle
<1>. QED BY <1>3, <1>4, <1>5, <1>6, <1>7 DEF Next

\* An iteration that returns, without and with a flush that may be due.
OnlyDefined(u, r) == ~Copying(u) /\ srv' = r.srv /\ buf' = SyncBuffers(u)

Copied(u, r) ==
    /\ Copying(u)
    /\ \E o \in FlushIfDue(r.srv, SyncBuffered(u), TRUE) :
          o.ok = TRUE /\ srv' = o.srv /\ buf' = o.buf

LEMMA IterationIs ==
    ASSUME SensorsInv, NEW u \in Uuids, SyncSensor(u), syncing' # None
    PROVE  /\ syncing # None /\ syncing.todo[u] # None /\ status = "open"
           /\ buf.ids[syncing.todo[u].ext] # None =>
                 buf.sensors[buf.ids[syncing.todo[u].ext]] # None
           /\ store' = store
           /\ \E r \in SyncRecords(u) : r.ok = TRUE /\ (OnlyDefined(u, r) \/ Copied(u, r))
<1>1. /\ syncing # None /\ syncing.todo[u] # None /\ status = "open" /\ store' = store
      /\ buf.ids[syncing.todo[u].ext] # None =>
            buf.sensors[buf.ids[syncing.todo[u].ext]] # None
  BY SyncSensorIs
<1>2. PICK r \in SyncRecords(u) :
         \/ ~r.ok /\ SyncGoesOn(u, r.srv, FALSE) /\ UNCHANGED <<buf, due>>
         \/ /\ r.ok /\ ~Copying(u) /\ SyncGoesOn(u, r.srv, TRUE)
            /\ buf' = SyncBuffers(u) /\ due' = due
         \/ /\ r.ok /\ Copying(u)
            /\ \E o \in FlushIfDue(r.srv, SyncBuffered(u), TRUE) :
                  SyncGoesOn(u, o.srv, o.ok) /\ buf' = o.buf /\ due' = o.due
  BY SyncSensorIs
<1>3. r.srv \in Media /\ r.ok \in BOOLEAN /\ store \in Stores /\ due \in BOOLEAN
      /\ SyncBuffered(u) \in Buffers
  BY <1>1, SyncTypes DEF SensorsInv, HandlersInv, BackendTypeOK, Effective, Outcomes
<1>4. \A m : ~SyncGoesOn(u, m, FALSE)
  BY DEF SyncGoesOn
<1>5. \A m : SyncGoesOn(u, m, TRUE) => srv' = m
  BY DEF SyncGoesOn
<1>6. ASSUME NEW o \in FlushIfDue(r.srv, SyncBuffered(u), TRUE), SyncGoesOn(u, o.srv, o.ok)
      PROVE  o.ok = TRUE /\ srv' = o.srv
  <2>1. o.ok \in BOOLEAN
    BY <1>3, <1>6, FlushIfDueEffect
  <2>2. o.ok # FALSE
    BY <1>4, <1>6
  <2>3. o.ok = TRUE
    BY <2>1, <2>2
  <2>. QED BY <1>5, <1>6, <2>3
<1>7. r.ok = TRUE /\ (OnlyDefined(u, r) \/ Copied(u, r))
  BY <1>2, <1>3, <1>4, <1>5, <1>6 DEF OnlyDefined, Copied
<1>. QED BY <1>1, <1>7

\* The stores in which an iteration leaves the source's definition, unless a
\* flush of updates follows in PostgreSQL.
Redefining ==
    \/ store.kind \in {"redis", "rocksdb", "msg"} /\ ~store.faulty
    \/ store.kind = "postgresql" /\ buf.sensors = srv.view.sensors

LEMMA PGRedefines ==
    ASSUME store.kind = "postgresql", NEW m \in Media, NEW u \in Uuids, NEW s,
           NEW r, r.ok = TRUE,
           \/ r \in PG!AddSensorRecord(m, u, s)
           \/ r \in PG!UpdateSensorRecord(m, u, s) /\ m.view.sensors[u] # None
    PROVE  r.srv.view = PutSensor(m.view, u, s)
<1> DEFINE n == Write(m, PutSensor(m.view, u, s))
<1>1. r \in PG!Done(PG!Write(m, PG!PutSensor(m.view, u, s)))
  BY DEF PG!AddSensorRecord, PG!UpdateSensorRecord, PG!Thrown
<1>2. r.srv = n
  BY <1>1, SameOutcomes, SamePutSensor DEF Done
<1>. QED BY <1>2, WriteIs

LEMMA RecordsRedefine ==
    ASSUME SensorsInv, status = "open", NEW u \in Uuids, syncing # None, syncing.todo[u] # None,
           buf.ids[syncing.todo[u].ext] # None =>
              buf.sensors[buf.ids[syncing.todo[u].ext]] # None,
           NEW r \in SyncRecords(u), r.ok = TRUE, Redefining
    PROVE  r.srv.view.sensors[u] = AsStored(SyncedSensor(u))
<1> DEFINE s == SyncedSensor(u)
           ext == syncing.todo[u].ext
<1>1. /\ store \in Stores /\ srv \in Media /\ buf \in Buffers /\ Known(srv, buf) /\ BufferInv(buf)
  BY IdleIs DEF Sound
<1>2. /\ s \in Definitions[u] /\ LocalSensor(u) = u /\ s.ext = ext
      /\ buf.ids[ext] = None => buf.sensors[u] = None
  BY SyncedLocally
<1>3. s \in Sensors /\ s # None /\ s.props = syncing.todo[u].props
  BY <1>2, DefinitionIs DEF SyncedSensor
<1>4. /\ srv.view \in Contents /\ srv.view.sensors \in [Uuids -> Sensors \cup {None}]
  BY <1>1, MediaContents DEF Contents
<1>5. ASSUME NEW d
      PROVE  PutSensor(srv.view, u, d).sensors[u] = d
  <2>1. PutSensor(srv.view, u, d).sensors = With(srv.view.sensors, u, d)
    BY <1>4, PutSensorIs
  <2>. QED BY <1>4, <2>1 DEF With
<1>6. /\ srv.view.sensors[u] = None <=> buf.sensors[u] = None
      /\ buf.sensors[u] # None => srv.view.sensors[u] = AsStored(buf.sensors[u])
  BY <1>1, AsStoredByKind DEF Redefining, Known, AnswersFor
<1>7. buf.ids[ext] # None => buf.sensors[u] # None
  <2>1. buf.ids[ext] # None => buf.ids[ext] = u
    BY <1>2 DEF LocalSensor
  <2>. QED BY <2>1
<1>8. CASE r \in Done(srv) /\ buf.ids[ext] # None /\ buf.sensors[u].props = s.props
  <2>1. buf.sensors[u] \in Own(u) /\ s \in Own(u)
    BY <1>1, <1>2, <1>7, <1>8, DefinitionIs DEF BufferInv
  <2>2. buf.sensors[u] \in Sensors /\ buf.sensors[u].ext = s.ext
    BY <2>1, OwnIs
  <2>3. buf.sensors[u] = s
    BY <1>3, <1>8, <2>2 DEF Sensors
  <2>4. r.srv = srv
    BY <1>8 DEF Done
  <2>. QED BY <1>3, <1>6, <2>3, <2>4
<1>9. CASE \/ r \in AddSensorRecord(srv, u, s) /\ buf.sensors[u] = None
           \/ r \in UpdateSensorRecord(srv, u, s) /\ buf.sensors[u] # None
  <2>1. CASE store.kind = "postgresql"
    <3>1. \/ r \in PG!AddSensorRecord(srv, u, s)
          \/ r \in PG!UpdateSensorRecord(srv, u, s) /\ srv.view.sensors[u] # None
      BY <1>6, <1>9, <2>1 DEF AddSensorRecord, UpdateSensorRecord
    <3>. HIDE DEF s
    <3>2. r.srv.view = PutSensor(srv.view, u, s)
      BY <1>1, <2>1, <3>1, PGRedefines
    <3>. QED BY <1>5, <2>1, <3>2, AsStoredByKind DEF s
  <2>2. CASE store.kind # "postgresql"
    <3>. HIDE DEF s
    <3>1. Defines(srv, r, u, AsStored(s))
      BY <1>1, <1>3, <1>9, DefinesSensor
    <3>2. r.srv.view = PutSensor(srv.view, u, AsStored(s))
      BY <1>6, <2>2, <3>1 DEF Defines, Puts, Redefining
    <3>. QED BY <1>5, <3>2 DEF s
  <2>. QED BY <2>1, <2>2
<1>10. \/ r \in AddSensorRecord(srv, u, s) /\ buf.ids[ext] = None
       \/ /\ r \in UpdateSensorRecord(srv, u, s) \/ (r \in Done(srv) /\ buf.sensors[u].props = s.props)
          /\ buf.ids[ext] # None
  BY <1>2, <1>3 DEF SyncRecords
<1>. QED BY <1>2, <1>7, <1>8, <1>9, <1>10

\* What a sync puts in memory.
LEMMA SyncedBuffers ==
    ASSUME SensorsInv, NEW u \in Uuids, syncing # None, syncing.todo[u] # None
    PROVE  /\ SyncBuffers(u) \in Buffers /\ SyncBuffered(u) \in Buffers
           /\ SyncBuffers(u).ids[syncing.todo[u].ext] = u
           /\ SameSensors(SyncBuffers(u), SyncBuffered(u))
           /\ SyncBuffered(u).ops[u] = [ins |-> NoReadings, upd |-> syncing.todo[u].readings]
           /\ SyncBuffered(u).ops[u] # None
<1> DEFINE s == SyncedSensor(u)
           b == SetBuffers(buf, u, s)
           rs == syncing.todo[u].readings
<1>1. BackendTypeOK /\ buf \in Buffers /\ BufferInv(buf)
  BY DEF SensorsInv, HandlersInv, BackendTypeOK
<1>2. /\ s \in Definitions[u] /\ LocalSensor(u) = u /\ s.ext = syncing.todo[u].ext
      /\ rs \in Readings
  BY <1>1, SyncedLocally, SyncTypes
<1>3. b.ops = With(buf.ops, u, NoOperations) /\ b.ids = With(buf.ids, s.ext, u)
  BY <1>1, <1>2, SetBuffersInv
<1>4. b \in Buffers /\ b.ops[u] # None /\ s.ext \in ExtIds
  BY <1>1, <1>2, DefinitionIs, SetBuffersType
<1>5. SyncBuffered(u) = BufferReadings(b, u, rs, "UPDATE") /\ SyncBuffers(u) = b
  BY <1>2 DEF SyncBuffered, SyncBuffers
<1>. HIDE DEF s, b
<1>6. b.ops[u] = NoOperations /\ b.ids[s.ext] = u
  BY <1>1, <1>3, <1>4 DEF With, Buffers
<1>7. BufferReadings(b, u, rs, "UPDATE").ops[u] = [ins |-> b.ops[u].ins, upd |-> KeepFirst(b.ops[u].upd, rs)]
  BY <1>4 DEF BufferReadings, Buffers
<1>8. KeepFirst(NoReadings, rs) = rs
  BY <1>2 DEF KeepFirst, NoReadings, Readings
<1>9. SameSensors(b, BufferReadings(b, u, rs, "UPDATE"))
  BY <1>2, <1>4, BufferReadingsSame
<1>10. BufferReadings(b, u, rs, "UPDATE").ops[u] # None
  BY <1>4, <1>9 DEF SameSensors
<1>. QED BY <1>2, <1>4, <1>5, <1>6, <1>7, <1>8, <1>9, <1>10 DEF NoOperations, SameSensors

\* The value x of a sensor's reading that Redis and RocksDB stores would answer.
Replies(m, b, u, t, x) ==
    /\ b.ops[u] # None /\ b.ops[u].ins[t] = None
    /\ b.ops[u].upd[t] = x \/ (b.ops[u].upd[t] = None /\ m.view.readings[u][t] = x)

LEMMA OverwritesIs ==
    ASSUME store.kind \in {"redis", "rocksdb"}, NEW m \in Media, NEW w \in Uuids, NEW rs,
           NEW ignore,
           NEW o \in InsertReadings(m, w, rs, ignore) \cup UpdateReadingRecords(m, w, rs, ignore)
    PROVE  /\ o.srv.view.readings = With(m.view.readings, w, KeepFirst(rs, m.view.readings[w]))
           /\ o.ok = TRUE
<1> DEFINE new == KeepFirst(rs, m.view.readings[w])
           c == PutReadings(m.view, w, new)
<1>1. c.readings = With(m.view.readings, w, new)
  BY MediaContents, PutReadingsIs
<1>2. Write(m, c).view = c
  BY WriteIs
<1>3. Remember(m, w, new).view.readings = With(m.view.readings, w, new)
  BY DEF Remember, With, Media, Contents
<1>4. \/ o.srv = Write(m, c) /\ o.ok = TRUE
      \/ o.srv = Remember(m, w, new) /\ o.ok = TRUE
  BY RDForms, ROForms DEF InsertReadings, UpdateReadingRecords
<1>. HIDE DEF c, new
<1>5. o.srv.view.readings = With(m.view.readings, w, new) /\ o.ok = TRUE
  BY <1>1, <1>2, <1>3, <1>4
<1>. QED BY <1>5 DEF new

LEMMA FlushSensorReplies ==
    ASSUME store \in Stores, store.kind \in {"redis", "rocksdb"},
           NEW m \in Media, NEW b \in Buffers, NEW w \in Uuids, NEW ignore \in BOOLEAN,
           NEW o \in FlushSensor(m, b, w, ignore), NEW u \in Uuids, NEW t \in Times,
           NEW x, x # None, Replies(m, b, u, t, x)
    PROVE  Replies(o.srv, o.buf, u, t, x)
<1>1. CASE b.ops[w] = None
  BY <1>1, FlushSensorIs
<1>2. CASE b.ops[w] # None
  <2> DEFINE ins == b.ops[w].ins
             upd == b.ops[w].upd
  <2>1. b.ops \in [Uuids -> Operations \cup {None}] /\ ins \in Readings /\ upd \in Readings
    BY <1>2, OperationsType DEF Buffers
  <2>2. \A i \in InsertReadings(m, w, ins, ignore) :
           /\ i.srv.view.readings = With(m.view.readings, w, KeepFirst(ins, m.view.readings[w]))
           /\ i.ok = TRUE
    BY OverwritesIs
  <2>3. ASSUME NEW n \in Media, NEW r \in UpdateReadingRecords(n, w, upd, ignore)
        PROVE  /\ r.srv.view.readings = With(n.view.readings, w, KeepFirst(upd, n.view.readings[w]))
               /\ r.ok = TRUE
    BY <2>3, OverwritesIs
  <2>4. ClearOperations(b, {w}).ops = With(b.ops, w, NoOperations)
    BY <1>2, FlushedOperations
  <2>5. m.view.readings \in [Uuids -> Readings] /\ NoOperations # None
        /\ \A n \in Media : n.view.readings \in [Uuids -> Readings]
    BY MediaContents, NoOperationsType, AbsentAssumption DEF Contents
  <2>6. NoOperations.ins[t] = None /\ NoOperations.upd[t] = None
    BY DEF NoOperations, NoReadings
  <2>7. ~InsertionFailed(m, b, w, ignore, o)
    BY <2>2 DEF InsertionFailed
  <2>8. \A new, old : KeepFirst(new, old)[t] = IF new[t] # None THEN new[t] ELSE old[t]
    BY DEF KeepFirst
  <2>9. CASE InsertionsOnly(m, b, w, ignore, o)
    <3>1. /\ o.srv.view.readings = With(m.view.readings, w, KeepFirst(ins, m.view.readings[w]))
          /\ o.buf.ops = With(b.ops, w, NoOperations) /\ upd = NoReadings
      BY <2>2, <2>4, <2>9 DEF InsertionsOnly
    <3>2. upd[t] = None
      BY <3>1 DEF NoReadings
    <3>. HIDE DEF ins, upd
    <3>3. CASE u = w
      <4>1. ins[t] = None /\ m.view.readings[w][t] = x
        BY <3>2, <3>3 DEF Replies, ins, upd
      <4>2. o.srv.view.readings[u][t] = x
        BY <2>5, <2>8, <3>1, <3>3, <4>1 DEF With
      <4>3. o.buf.ops[u] = NoOperations
        BY <2>1, <3>1, <3>3 DEF With
      <4>. QED BY <2>5, <2>6, <4>2, <4>3 DEF Replies
    <3>4. CASE u # w
      <4>1. o.srv.view.readings[u] = m.view.readings[u] /\ o.buf.ops[u] = b.ops[u]
        BY <2>1, <2>5, <3>1, <3>4 DEF With
      <4>. QED BY <4>1 DEF Replies
    <3>. QED BY <3>3, <3>4
  <2>10. CASE InsertionsAndUpdates(m, b, w, ignore, o)
    <3>1. PICK i \in InsertReadings(m, w, ins, ignore) :
          \E r \in UpdateReadingRecords(i.srv, w, upd, ignore) :
             /\ i.srv \in Media /\ o.srv = r.srv
             /\ o.buf = IF r.ok THEN ClearOperations(b, {w})
                        ELSE [b EXCEPT !.ops[w].ins = NoReadings]
      BY <2>10 DEF InsertionsAndUpdates
    <3>2. PICK r \in UpdateReadingRecords(i.srv, w, upd, ignore) :
             /\ i.srv \in Media /\ o.srv = r.srv
             /\ o.buf = IF r.ok THEN ClearOperations(b, {w})
                        ELSE [b EXCEPT !.ops[w].ins = NoReadings]
      BY <3>1
    <3>3. /\ i.srv.view.readings = With(m.view.readings, w, KeepFirst(ins, m.view.readings[w]))
          /\ r.srv.view.readings = With(i.srv.view.readings, w, KeepFirst(upd, i.srv.view.readings[w]))
          /\ o.buf.ops = With(b.ops, w, NoOperations)
      BY <2>2, <2>3, <2>4, <3>2
    <3>. HIDE DEF ins, upd
    <3>4. i.srv.view.readings \in [Uuids -> Readings]
      BY <2>5, <3>2
    <3>5. CASE u = w
      <4>1. ins[t] = None /\ (upd[t] = x \/ (upd[t] = None /\ m.view.readings[w][t] = x))
        BY <3>5 DEF Replies, ins, upd
      <4>2. i.srv.view.readings[w] = KeepFirst(ins, m.view.readings[w])
        BY <2>5, <3>3 DEF With
      <4>3. r.srv.view.readings[w] = KeepFirst(upd, i.srv.view.readings[w])
        BY <3>3, <3>4 DEF With
      <4>4. r.srv.view.readings[w][t] = x
        BY <2>8, <4>1, <4>2, <4>3
      <4>5. o.buf.ops[u] = NoOperations
        BY <2>1, <3>3, <3>5 DEF With
      <4>. QED BY <2>5, <2>6, <3>2, <3>5, <4>4, <4>5 DEF Replies
    <3>6. CASE u # w
      <4>1. r.srv.view.readings[u] = m.view.readings[u] /\ o.buf.ops[u] = b.ops[u]
        BY <2>1, <2>5, <3>3, <3>4, <3>6 DEF With
      <4>. QED BY <3>2, <4>1 DEF Replies
    <3>. QED BY <3>5, <3>6
  <2>. QED BY <1>2, <2>7, <2>9, <2>10, FlushSensorIs
<1>. QED BY <1>1, <1>2

LEMMA FlushAllReplies ==
    ASSUME store \in Stores, store.kind \in {"redis", "rocksdb"},
           NEW m \in Media, NEW b \in Buffers, NEW ignore \in BOOLEAN,
           NEW o \in FlushAll(m, b, ignore), NEW u \in Uuids, NEW t \in Times,
           NEW x, x # None, Replies(m, b, u, t, x)
    PROVE  Replies(o.srv, o.buf, u, t, x)
<1> DEFINE R == {p \in FlushOutcomes : Replies(p.srv, p.buf, u, t, x)}
<1>1. FlushStart(m, b) \subseteq R
  BY DEF FlushStart, FlushOutcomes
<1>2. ASSUME NEW p \in R, NEW w \in Buffered(b), NEW q \in FlushSensor(p.srv, p.buf, w, ignore)
      PROVE  q \in R
  <2>1. p.srv \in Media /\ p.buf \in Buffers /\ w \in Uuids /\ Replies(p.srv, p.buf, u, t, x)
    BY DEF FlushOutcomes, Buffered
  <2>2. q \in FlushOutcomes
    BY <2>1, FlushSensorEffect
  <2>3. Replies(q.srv, q.buf, u, t, x)
    BY <2>1, FlushSensorReplies
  <2>. QED BY <2>2, <2>3
<1>. HIDE DEF R
<1>3. FlushAll(m, b, ignore) \subseteq R
  BY <1>1, <1>2, FlushAllStaysIn
<1>. QED BY <1>3 DEF R

LEMMA RepliesView ==
    ASSUME NEW m, NEW b, NEW n, NEW u, NEW t, NEW x, Replies(m, b, u, t, x), n.view = m.view
    PROVE  Replies(n, b, u, t, x)
BY DEF Replies

LEMMA FlushIfDueReplies ==
    ASSUME store \in Stores, store.kind \in {"redis", "rocksdb"}, due \in BOOLEAN,
           NEW m \in Media, NEW b \in Buffers, BufferInv(b), NEW o \in FlushIfDue(m, b, TRUE),
           NEW u \in Uuids, NEW t \in Times, NEW x, x # None, Replies(m, b, u, t, x)
    PROVE  Replies(o.srv, o.buf, u, t, x)
<1>1. CASE ~due
  <2>1. o.srv = m /\ o.buf = b
    BY <1>1 DEF FlushIfDue
  <2>. QED BY <2>1
<1>2. CASE due
  <2> DEFINE h == Started(m)
  <2>1. /\ h.srv \in Media /\ h.ok \in BOOLEAN /\ h.srv.view = m.view
        /\ h.ok => HasHandler
    BY StartedIs
  <2>2. PICK p \in Call(m, LAMBDA n : FlushAll(n, b, TRUE)) : o.srv = p.srv /\ o.buf = p.buf
    <3>1. PICK p \in Call(m, LAMBDA n : FlushAll(n, b, TRUE)) :
             o = [srv |-> p.srv, buf |-> p.buf, ok |-> p.ok,
                  due |-> store.kind = "txt" \/ ~p.ok]
      BY <1>2 DEF FlushIfDue
    <3>. QED BY <3>1
  <2>3. PICK q \in FlushAll(h.srv, b, TRUE) : p = [q EXCEPT !.srv = Ended(q.srv, h.ok, q.ok)]
    BY <2>2 DEF Call
  <2>4. q \in FlushOutcomes
    BY <2>1, FlushAllEffect
  <2>5. p.srv = Ended(q.srv, h.ok, q.ok) /\ p.buf = q.buf
    BY <2>3, <2>4 DEF FlushOutcomes
  <2>6. q.srv \in Media /\ q.ok \in BOOLEAN /\ (store.kind = "redis" => q.ok = TRUE)
    BY <2>1, FlushAllSound
  <2>. HIDE DEF h
  <2>7. Replies(h.srv, b, u, t, x)
    BY <2>1, RepliesView
  <2>8. Replies(q.srv, q.buf, u, t, x)
    BY <2>1, <2>7, FlushAllReplies
  <2>9. h.ok => HasHandler /\ q.ok = TRUE
    BY <2>1, <2>6 DEF HasHandler, WithTransactions
  <2>10. Ended(q.srv, h.ok, q.ok).view = q.srv.view
    BY <2>1, <2>6, <2>9, EndedView
  <2>. QED BY <2>2, <2>5, <2>8, <2>10, RepliesView
<1>. QED BY <1>1, <1>2

\* What an iteration leaves of the sensor and its definition.
LEMMA IterationDefines ==
    ASSUME SensorsInv, NEW u \in Uuids, SyncSensor(u), syncing' # None
    PROVE  /\ buf'.ids[syncing.todo[u].ext] = u
           /\ Redefining /\ (store.kind = "postgresql" => ~syncing.readings) =>
                 srv'.view.sensors[u] = AsStored(SyncedSensor(u))
<1>1. /\ syncing # None /\ syncing.todo[u] # None /\ status = "open"
      /\ buf.ids[syncing.todo[u].ext] # None =>
            buf.sensors[buf.ids[syncing.todo[u].ext]] # None
  BY IterationIs
<1>2. PICK r \in SyncRecords(u) : r.ok = TRUE /\ (OnlyDefined(u, r) \/ Copied(u, r))
  BY IterationIs
<1>3. /\ SyncBuffers(u).ids[syncing.todo[u].ext] = u
      /\ SyncBuffered(u).ids[syncing.todo[u].ext] = u
      /\ SyncBuffered(u) \in Buffers
      /\ SameSensors(SyncBuffers(u), SyncBuffered(u))
  BY <1>1, SyncedBuffers DEF SameSensors
<1>4. r.srv \in Media /\ Sound(r.srv, SyncBuffers(u)) /\ store \in Stores /\ due \in BOOLEAN
  BY <1>1, <1>2, SyncRecordsSound DEF SensorsInv, HandlersInv, BackendTypeOK
<1>5. BufferInv(SyncBuffered(u))
  BY <1>3, <1>4, SameBuffersInv DEF Sound
<1>6. Redefining => r.srv.view.sensors[u] = AsStored(SyncedSensor(u))
  BY <1>1, <1>2, RecordsRedefine
<1>7. CASE OnlyDefined(u, r)
  BY <1>3, <1>6, <1>7 DEF OnlyDefined
<1>8. CASE Copied(u, r)
  <2>1. PICK o \in FlushIfDue(r.srv, SyncBuffered(u), TRUE) : srv' = o.srv /\ buf' = o.buf
    BY <1>8 DEF Copied
  <2>2. SensorsKept(r.srv, o.srv) /\ SameSensors(SyncBuffered(u), o.buf)
    BY <1>3, <1>4, <1>5, FlushIfDueSensors
  <2>3. syncing.readings
    BY <1>8 DEF Copied, Copying
  <2>. QED BY <1>3, <1>6, <2>1, <2>2, <2>3 DEF SensorsKept, SameSensors
<1>. QED BY <1>2, <1>7, <1>8

\* What it leaves of the readings, in a store that can refuse none.
LEMMA IterationCopies ==
    ASSUME SensorsInv, NEW u \in Uuids, SyncSensor(u), syncing' # None, Safe, syncing.readings,
           NEW t \in Times, syncing.todo[u].readings[t] # None
    PROVE  /\ Held(srv', buf', u, t)
           /\ store.kind \in {"redis", "rocksdb"} =>
                 Replies(srv', buf', u, t, syncing.todo[u].readings[t])
<1> DEFINE x == syncing.todo[u].readings[t]
<1>1. /\ syncing # None /\ syncing.todo[u] # None /\ status = "open"
      /\ buf.ids[syncing.todo[u].ext] # None =>
            buf.sensors[buf.ids[syncing.todo[u].ext]] # None
  BY IterationIs
<1>2. PICK r \in SyncRecords(u) : r.ok = TRUE /\ (OnlyDefined(u, r) \/ Copied(u, r))
  BY IterationIs
<1>3. Copying(u)
  <2>1. NoReadings[t] = None
    BY DEF NoReadings
  <2>. QED BY <2>1 DEF Copying
<1>4. PICK o \in FlushIfDue(r.srv, SyncBuffered(u), TRUE) : srv' = o.srv /\ buf' = o.buf
  BY <1>2, <1>3 DEF OnlyDefined, Copied
<1>5. /\ SyncBuffers(u) \in Buffers /\ SyncBuffered(u) \in Buffers
      /\ SameSensors(SyncBuffers(u), SyncBuffered(u))
      /\ SyncBuffered(u).ops[u] = [ins |-> NoReadings, upd |-> syncing.todo[u].readings]
      /\ SyncBuffered(u).ops[u] # None
  BY <1>1, SyncedBuffers
<1>6. r.srv \in Media /\ Sound(r.srv, SyncBuffers(u)) /\ store \in Stores /\ due \in BOOLEAN
  BY <1>1, <1>2, SyncRecordsSound DEF SensorsInv, HandlersInv, BackendTypeOK
<1>7. Sound(r.srv, SyncBuffered(u))
  BY <1>5, <1>6, SoundKept, SensorsKeptReflexive
<1>8. Receptive(r.srv, SyncBuffered(u)) /\ BufferInv(SyncBuffered(u))
  BY <1>7, SafeReceptive DEF Sound
<1>9. Held(r.srv, SyncBuffered(u), u, t)
  BY <1>5 DEF Held
<1>10. Replies(r.srv, SyncBuffered(u), u, t, x)
  BY <1>5 DEF Replies, NoReadings
<1>11. Held(o.srv, o.buf, u, t)
  BY <1>4, <1>5, <1>6, <1>8, <1>9, FlushIfDueHolds
<1>12. x # None
  OBVIOUS
<1>. HIDE DEF x
<1>13. CASE store.kind \in {"redis", "rocksdb"}
  <2>1. Replies(o.srv, o.buf, u, t, x)
    BY <1>4, <1>5, <1>6, <1>8, <1>10, <1>12, <1>13, FlushIfDueReplies
  <2>. QED BY <1>4, <1>11, <2>1 DEF x
<1>14. CASE store.kind \notin {"redis", "rocksdb"}
  BY <1>4, <1>11, <1>14
<1>. QED BY <1>13, <1>14

LEMMA RepliesSynced ==
    ASSUME NEW u \in Uuids, NEW t \in Times, NEW x, x # None, Replies(srv', buf', u, t, x)
    PROVE  Synced(u)'[t] = x
BY DEF Replies, Synced, KeepFirst

\* The external id, the definition and the readings of a sensor are in the
\* store once a sync has been at it, whether or not a flush fell due on the
\* way (sync of store.cpp).
THEOREM SyncsCopySensors == Spec => SyncCopiesSensor
<1>1. SensorsInv /\ [Next]_vars =>
         [\A u \in Uuids :
            Synchronised(u) =>
              LET row == syncing.todo[u] IN
              \E w \in Uuids :
                 /\ buf'.ids[row.ext] = w
                 /\ ~store.faulty /\ (\/ store.kind \in {"redis", "rocksdb", "msg"}
                                       \/ /\ store.kind = "postgresql"
                                          /\ store.auto /\ ~syncing.readings
                                          /\ buf.sensors = srv.view.sensors)
                    => srv'.view.sensors[w] = AsStored([ext |-> row.ext, props |-> row.props])
                 /\ syncing.readings /\ store.kind # "postgresql" /\ ~store.faulty =>
                       \A t \in Recorded(row.readings) :
                          /\ Pending(w, t)' \/ Stored(w, t)'
                          /\ store.kind \in {"redis", "rocksdb"} =>
                                Synced(w)'[t] = row.readings[t]]_vars
  <2>1. ASSUME SensorsInv, [Next]_vars, NEW u \in Uuids, Synchronised(u)
        PROVE  /\ buf'.ids[syncing.todo[u].ext] = u
               /\ ~store.faulty /\ (\/ store.kind \in {"redis", "rocksdb", "msg"}
                                     \/ /\ store.kind = "postgresql"
                                        /\ store.auto /\ ~syncing.readings
                                        /\ buf.sensors = srv.view.sensors)
                  => srv'.view.sensors[u] = AsStored(SyncedSensor(u))
               /\ syncing.readings /\ store.kind # "postgresql" /\ ~store.faulty =>
                     \A t \in Recorded(syncing.todo[u].readings) :
                        /\ Pending(u, t)' \/ Stored(u, t)'
                        /\ store.kind \in {"redis", "rocksdb"} =>
                              Synced(u)'[t] = syncing.todo[u].readings[t]
    <3>1. SyncSensor(u) /\ syncing' # None
      BY <2>1, SynchronisedIs DEF Synchronised
    <3>2. /\ buf'.ids[syncing.todo[u].ext] = u
          /\ Redefining /\ (store.kind = "postgresql" => ~syncing.readings) =>
                srv'.view.sensors[u] = AsStored(SyncedSensor(u))
      BY <2>1, <3>1, IterationDefines
    <3>3. ASSUME syncing.readings, store.kind # "postgresql", ~store.faulty,
                 NEW t \in Recorded(syncing.todo[u].readings)
          PROVE  /\ Pending(u, t)' \/ Stored(u, t)'
                 /\ store.kind \in {"redis", "rocksdb"} =>
                       Synced(u)'[t] = syncing.todo[u].readings[t]
      <4>1. t \in Times /\ syncing.todo[u].readings[t] # None
        BY DEF Recorded
      <4>2. Safe
        BY <2>1, <3>3, StoresAssumption DEF SensorsInv, HandlersInv, BackendTypeOK, Safe, Kinds
      <4>3. /\ Held(srv', buf', u, t)
            /\ store.kind \in {"redis", "rocksdb"} =>
                  Replies(srv', buf', u, t, syncing.todo[u].readings[t])
        BY <2>1, <3>1, <3>3, <4>1, <4>2, IterationCopies
      <4>. QED BY <4>1, <4>3, HeldIs, RepliesSynced
    <3>. QED BY <3>2, <3>3 DEF Redefining
  <2>. QED BY <2>1 DEF SyncedSensor
<1>. QED BY <1>1, SensorsInvariant, PTL DEF Spec, SyncCopiesSensor
=============================================================================
