---------------------------- MODULE StoreBuffers ----------------------------
(***************************************************************************)
(* The data a klio::Store works on and the pure functions its methods are  *)
(* built from (libklio/store.cpp), over the SQLite3 tables of              *)
(* libklio/sqlite3/sqlite3-store.cpp.                                      *)
(*                                                                         *)
(* A std::map or unordered_map is a total function whose absent entries    *)
(* are None.  A sensor's uuid is the key it is filed under; its external   *)
(* id is kept, and name, description, unit, timezone and device type are   *)
(* one opaque value, its props: the code compares and copies them as one.  *)
(***************************************************************************)
EXTENDS Integers

CONSTANTS
    Uuids,      \* Sensor::uuid_t
    ExtIds,     \* external ids
    Props,      \* the other properties of a sensor
    Times,      \* timestamps; their order is the order of a readings_t
    Values,     \* reading values
    None,       \* an absent map entry or table row
    NullPtr     \* a Sensor::Ptr that holds no sensor

Readings == [Times -> Values \cup {None}]

Sensors == [ext : ExtIds, props : Props]

\* A row of table sensors, and the contents of the sensor's own table: None if
\* there is no such table.
Rows == [ext : ExtIds, props : Props, readings : Readings \cup {None}]

Databases == [Uuids -> Rows \cup {None}]

\* The two readings_t of a cached_reading_operations_type_t.
Operations == [ins : Readings, upd : Readings]

\* _sensors_buffer, _reading_operations_buffer and _external_ids_buffer.
Buffers == [sensors : [Uuids -> Sensors \cup {None, NullPtr}],
            ops     : [Uuids -> Operations \cup {None}],
            ids     : [ExtIds -> Uuids \cup {None}]]

ASSUME TimesAssumption == Times \subseteq Int

ASSUME AbsentAssumption ==
    /\ None \notin Uuids \cup Values \cup Sensors \cup Rows \cup Operations
    /\ None \notin Readings
    /\ NullPtr \notin Sensors \cup {None}

-----------------------------------------------------------------------------
(* Readings *)

NoReadings == [t \in Times |-> None]

Recorded(r) == {t \in Times : r[t] # None}

\* std::map::insert, and an SQL INSERT whose errors are ignored: the entry
\* that is already there stays.  KeepFirst(new, old) is INSERT OR REPLACE.
KeepFirst(old, new) ==
    [t \in Times |-> IF old[t] # None THEN old[t] ELSE new[t]]

-----------------------------------------------------------------------------
(* Tables *)

EmptyDatabase == [u \in Uuids |-> None]

HasTable(db, u) == db[u] # None /\ db[u].readings # None

\* Databases in which every sensor has its table.
WholeDatabases == {db \in Databases : \A u \in Uuids : db[u] # None => HasTable(db, u)}

\* A sensor other than u has external id e (the UNIQUE index on external_id).
Taken(db, u, e) == \E w \in Uuids \ {u} : db[w] # None /\ db[w].ext = e

\* The INSERT of a sensor violates neither the primary key nor the index.
CanInsert(db, u, s) == db[u] = None /\ ~Taken(db, u, s.ext)

InsertSensor(db, u, s) ==
    [db EXCEPT ![u] = [ext |-> s.ext, props |-> s.props, readings |-> NoReadings]]

DeleteSensor(db, u) == [db EXCEPT ![u] = None]

\* Mutant: the sensor is redefined by adding it anew.
UpdateRecordAnew(db, u, s) ==
    IF db[u] = None THEN db ELSE InsertSensor(db, u, s)

\* UPDATE ... WHERE uuid: no row, no effect and no error.
UpdateRecord(db, u, s) ==
    IF db[u] = None
    THEN db
    ELSE [db EXCEPT ![u] =
            [ext |-> s.ext, props |-> s.props, readings |-> db[u].readings]]

-----------------------------------------------------------------------------
(* Buffers *)

NoOperations == [ins |-> NoReadings, upd |-> NoReadings]

EmptyBuffers == [sensors |-> [u \in Uuids |-> None],
                 ops     |-> [u \in Uuids |-> None],
                 ids     |-> [e \in ExtIds |-> None]]

\* Mutant: the sensor that held the external id stays in the sensor buffer.
SetBuffersKeepingHolder(b, u, s) ==
    LET other == b.ids[s.ext]
        inherited == IF other = None THEN None ELSE b.ops[other]
    IN [sensors |-> [b.sensors EXCEPT ![u] = s],
        ops |-> [w \in Uuids |-> IF w = u
                                 THEN IF inherited # None THEN inherited ELSE NoOperations
                                 ELSE IF w = other THEN None ELSE b.ops[w]],
        ids |-> [b.ids EXCEPT ![s.ext] = u]]

\* set_buffers: the sensor that held the external id so far loses its entries,
\* and the operations buffered for it go to the new holder.  When holder and
\* sensor are the same the operations are erased and an empty pair is made.
SetBuffers(b, u, s) ==
    LET other == b.ids[s.ext]
        inherited == IF other = None \/ other = u THEN None ELSE b.ops[other]
        own == IF other = u THEN None ELSE b.ops[u]
    IN [sensors |-> [w \in Uuids |-> IF w = u THEN s
                                     ELSE IF w = other THEN None ELSE b.sensors[w]],
        ops |-> [w \in Uuids |-> IF w = u
                                 THEN IF inherited # None THEN inherited
                                      ELSE IF own # None THEN own ELSE NoOperations
                                 ELSE IF w = other THEN None ELSE b.ops[w]],
        ids |-> [b.ids EXCEPT ![s.ext] = u]]

\* Mutants: clear_buffers(sensor) resets the operations pointer instead of
\* erasing its entry, or forgets one of the three maps.
ClearSensorResettingOperations(b, u, e) ==
    [sensors |-> [b.sensors EXCEPT ![u] = None],
     ops     |-> [b.ops EXCEPT ![u] = NullPtr],
     ids     |-> [b.ids EXCEPT ![e] = None]]
ClearSensorKeepingSensor(b, u, e) == [b EXCEPT !.ops[u] = None, !.ids[e] = None]
ClearSensorKeepingOperations(b, u, e) == [b EXCEPT !.sensors[u] = None, !.ids[e] = None]
ClearSensorKeepingId(b, u, e) == [b EXCEPT !.sensors[u] = None, !.ops[u] = None]

\* clear_buffers(sensor), for a sensor object that carries external id e.
ClearSensor(b, u, e) ==
    [sensors |-> [b.sensors EXCEPT ![u] = None],
     ops     |-> [b.ops EXCEPT ![u] = None],
     ids     |-> [b.ids EXCEPT ![e] = None]]

\* Store::prepare after clear_buffers: set_buffers of every row.  External ids
\* of a database are unique, so the order of the rows does not matter.
LoadBuffers(db) ==
    [sensors |-> [u \in Uuids |-> IF db[u] = None THEN None
                                  ELSE [ext |-> db[u].ext, props |-> db[u].props]],
     ops     |-> [u \in Uuids |-> IF db[u] = None THEN None ELSE NoOperations],
     ids     |-> [e \in ExtIds |->
                    IF \E u \in Uuids : db[u] # None /\ db[u].ext = e
                    THEN CHOOSE u \in Uuids : db[u] # None /\ db[u].ext = e
                    ELSE None]]

\* Mutant: readings[time] = value, in place of insert.
BufferReadingsOverwriting(b, u, rs, kind) ==
    [b EXCEPT !.ops[u] =
        [ins |-> IF kind = "INSERT" THEN KeepFirst(rs, b.ops[u].ins) ELSE b.ops[u].ins,
         upd |-> IF kind = "UPDATE" THEN KeepFirst(rs, b.ops[u].upd) ELSE b.ops[u].upd]]

\* get_buffered_readings and the insertion loop of add_reading, add_readings
\* and update_readings.
BufferReadings(b, u, rs, kind) ==
    [b EXCEPT !.ops[u] =
        [ins |-> IF kind = "INSERT" THEN KeepFirst(b.ops[u].ins, rs) ELSE b.ops[u].ins,
         upd |-> IF kind = "UPDATE" THEN KeepFirst(b.ops[u].upd, rs) ELSE b.ops[u].upd]]

-----------------------------------------------------------------------------
(* Flushing *)

Buffered(b) == {u \in Uuids : b.sensors[u] # None}

\* A sensor's table after flush(sensor, ...) wrote everything it could: the
\* insertions, then the updates.
Written(table, o) == KeepFirst(o.upd, KeepFirst(table, o.ins))

\* flush(sensor, ignore) throws: the sensor has no operations buffer, no table
\* although there is something to write, or an insertion repeats a timestamp.
FlushFails(db, b, u, ignore) ==
    \/ b.ops[u] = None
    \/ /\ ~HasTable(db, u)
       /\ b.ops[u] # NoOperations
    \/ /\ ~ignore
       /\ b.ops[u] # None
       /\ HasTable(db, u)
       /\ Recorded(db[u].readings) \cap Recorded(b.ops[u].ins) # {}

\* Mutant: flush(sensor, ...) clears the updates without writing them.
FlushInsertionsOnly(db, b, S) ==
    [u \in Uuids |->
        IF u \in S /\ HasTable(db, u)
        THEN [db[u] EXCEPT !.readings = KeepFirst(db[u].readings, b.ops[u].ins)]
        ELSE db[u]]

FlushSensors(db, b, S) ==
    [u \in Uuids |->
        IF u \in S /\ HasTable(db, u)
        THEN [db[u] EXCEPT !.readings = Written(db[u].readings, b.ops[u])]
        ELSE db[u]]

\* Mutant: flush(sensor, ...) leaves the updates it wrote in the buffer.
ClearInsertions(b, S) ==
    [b EXCEPT !.ops =
        [u \in Uuids |-> IF u \in S THEN [b.ops[u] EXCEPT !.ins = NoReadings]
                         ELSE b.ops[u]]]

ClearOperations(b, S) ==
    [b EXCEPT !.ops = [u \in Uuids |-> IF u \in S THEN NoOperations ELSE b.ops[u]]]

\* The insertions of u that precede the one that throws, in timestamp order.
FlushUntilFailure(db, b, u) ==
    IF ~HasTable(db, u) \/ b.ops[u] = None
    THEN db
    ELSE LET repeated == Recorded(db[u].readings) \cap Recorded(b.ops[u].ins)
             before == [t \in Times |-> IF \E s \in repeated : s <= t
                                        THEN None ELSE b.ops[u].ins[t]]
         IN [db EXCEPT ![u] =
               [db[u] EXCEPT !.readings = KeepFirst(db[u].readings, before)]]

\* What flush_all can do.  The sensors come in no particular order; the first
\* flush that throws ends the loop with the sensors in done flushed.  While a
\* statement that names a table which is gone is still in the statement cache,
\* its error is an ignorable one and the readings are dropped instead; of a
\* sensor that is stored without a table no statement was ever prepared.
FlushAllOutcomes(db, b, ignore) ==
    LET fails == {u \in Buffered(b) : FlushFails(db, b, u, ignore)}
        ignorable == {u \in fails : ignore /\ b.ops[u] # None /\ db[u] = None}
        complete == {[db  |-> FlushSensors(db, b, Buffered(b)),
                      buf |-> ClearOperations(b, Buffered(b)),
                      ok  |-> TRUE]}
        cut(f) == {[db  |-> FlushUntilFailure(FlushSensors(db, b, done), b, f),
                    buf |-> ClearOperations(b, done),
                    ok  |-> FALSE] :
                   done \in SUBSET (Buffered(b) \ ({f} \cup (fails \ ignorable)))}
    IN (IF fails = ignorable THEN complete ELSE {}) \cup UNION {cut(f) : f \in fails}
=============================================================================
