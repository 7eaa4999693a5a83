---------------------------- MODULE RedisRecords ----------------------------
(***************************************************************************)
(* The record methods of klio::RedisStore and its transaction handler over *)
(* an external Redis server.  Between MULTI and EXEC the server queues     *)
(* commands and answers nothing; view is what the queue will make of disk. *)
(***************************************************************************)
EXTENDS BackendData

Queueing(m) == m.txn = "open"

\* RedisTransaction::run is false when a reply holds an element with integer 0
\* other than "OK".  An error reply has no elements: MULTI inside MULTI, and
\* EXEC or DISCARD outside, succeed.
Begin(m) == [srv |-> [m EXCEPT !.txn = "open"], ok |-> TRUE]

\* EXEC carries out the queue whatever run makes of the reply.
Commit(m) == [srv |-> [m EXCEPT !.disk = m.view, !.txn = "none", !.noisy = FALSE],
              ok  |-> ~(Queueing(m) /\ m.noisy)]

Rollback(m) == [srv |-> [m EXCEPT !.view = m.disk, !.txn = "none", !.noisy = FALSE],
                ok  |-> TRUE]

\* A command whose reply EXEC will return as an element with integer 0.
Noise(m) == IF Queueing(m) THEN [m EXCEPT !.noisy = TRUE] ELSE m

\* Sensors and readings are read from replies, which a queue does not give.
Visible(m) == IF Queueing(m) THEN Nothing ELSE m.view

-----------------------------------------------------------------------------
(* Life cycle *)

GetSensorRecords(m) == Visible(m).sensors

Prepare(m) == [srv |-> Noise(m), ok |-> TRUE, sensors |-> GetSensorRecords(m)]

\* A pending transaction is discarded.
Close(m) == Disconnected(m.disk)

\* FLUSHDB; inside a transaction it is queued, and close discards it.
Dispose(m) == Close(Write(m, Nothing))

-----------------------------------------------------------------------------
(* Sensors *)

\* check_sensor_existence asks _sensors_buffer, not the server.
Exists(b, u) == b.sensors[u] # None

\* run_hmset_sensor and run_hmget_sensor: no field for the device type.
Hash(s) == Converted(s, WithoutDevice)

\* HMSET, then SADD, whose reply is 0 if the sensor was in the set.
AddSensorRecord(m, b, u, s) ==
    IF Exists(b, u) THEN Thrown(m)
    ELSE LET w == Write(m, PutSensor(m.view, u, Hash(s)))
         IN Done(IF m.view.sensors[u] # None THEN Noise(w) ELSE w)

\* HDEL, DEL and SREM; a reply is 0 if there was nothing to delete.
RemoveSensorRecord(m, b, u) ==
    IF ~Exists(b, u) THEN Thrown(m)
    ELSE LET w == Write(m, Without(m.view, u))
             full == m.view.sensors[u] # None /\ m.view.readings[u] # NoReadings
         IN Done(IF full THEN w ELSE Noise(w))

\* HMSET alone: the hash of a sensor that is not in the set is never read.
UpdateSensorRecord(m, b, u, s) ==
    IF ~Exists(b, u) THEN Thrown(m)
    ELSE Done(IF m.view.sensors[u] = None THEN m ELSE Write(m, PutSensor(m.view, u, Hash(s))))

-----------------------------------------------------------------------------
(* Readings *)

\* Mutant: HSETNX in place of HMSET.
PutNewReadings(m, u, rs) ==
    Done(Write(m, PutReadings(m.view, u, KeepFirst(m.view.readings[u], rs))))

\* HMSET: one reading or many, new or not, and no error to handle.
PutAllReadings(m, u, rs) ==
    Done(Write(m, PutReadings(m.view, u, KeepFirst(rs, m.view.readings[u]))))

AddSingleReadings(m, u, rs) == PutAllReadings(m, u, rs)

AddBulkReadings(m, u, rs) == PutAllReadings(m, u, rs)

InsertReadings(m, u, rs) ==
    IF Cardinality(Recorded(rs)) <= MinBulk
    THEN AddSingleReadings(m, u, rs)
    ELSE AddBulkReadings(m, u, rs)

UpdateReadings(m, u, rs) == AddBulkReadings(m, u, rs)

-----------------------------------------------------------------------------
(* Queries *)

\* A query's own command in the queue: an element that is no integer.
Queried(m) == Noise(m)

GetAll(m, u) == {Visible(m).readings[u]}

GetTimeframe(m, u, from, to) == {Between(rs, from, to) : rs \in GetAll(m, u)}

GetNumber(m, u) == {Cardinality(Recorded(rs)) : rs \in GetAll(m, u)}

\* *(readings->end()).
GetLast(m, u) == IF NoReadings \in GetAll(m, u) THEN {NoReading} ELSE AnyPair

\* The reply of the queue is a string without a number.
GetOne(m, u, time) == IF Queueing(m) THEN {<<time, None>>}
                      ELSE {ReadingAt(m.view.readings[u], time)}
=============================================================================
