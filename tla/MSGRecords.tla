----------------------------- MODULE MSGRecords -----------------------------
(***************************************************************************)
(* The record methods of klio::MSGStore, each one request to a remote mSG  *)
(* server.  A request may be lost before the server acts on it, or its     *)
(* answer afterwards; the client sees an exception either way.  The server *)
(* is external: it takes what is posted for a sensor it has, keeps either  *)
(* value of a timestamp posted twice, and refuses other requests.          *)
(***************************************************************************)
EXTENDS BackendData

CONSTANT Faulty     \* requests and answers may be lost

\* The outcomes of a request that leaves the server at one of the results.
Request(m, results) ==
    (UNION {Done(r) : r \in results})
    \cup (IF Faulty \/ results = {} THEN UNION {Thrown(r) : r \in {m} \cup results} ELSE {})

Posted(m, c) == Request(m, {Write(m, c)})

-----------------------------------------------------------------------------
(* Life cycle *)

\* The answers of GET: the sensors, or none because it was lost.
Prepare(m) == {[srv |-> m, ok |-> r.ok, sensors |-> m.view.sensors] : r \in Request(m, {m})}

Close(m) == m

\* The device is posted.
Initialize(m) == Request(m, {m})

\* DELETE, whose failure is ignored.
Dispose(m) == {r.srv : r \in Posted(m, Nothing)}

\* Whether the heartbeat, if it is time for one, got through.
Heartbeats(beat) == IF beat /\ Faulty THEN BOOLEAN ELSE {TRUE}

-----------------------------------------------------------------------------
(* Sensors *)

\* The config that is posted has neither time zone nor device type, and
\* parse_sensor puts a fixed zone and an unknown device in their place.
Config(s) == Converted(s, AsPosted)

\* Adding posts the same request as updating.
UpdateSensorRecord(m, u, s) == Posted(m, PutSensor(m.view, u, Config(s)))
AddSensorRecord(m, u, s) == UpdateSensorRecord(m, u, s)

RemoveSensorRecord(m, u) ==
    Request(m, IF m.view.sensors[u] = None THEN {} ELSE {Write(m, Without(m.view, u))})

GetSensorRecords(m) == m.view.sensors

-----------------------------------------------------------------------------
(* Readings *)

\* What the server can make of readings that are posted for a sensor.
Merged(m, u, rs) ==
    IF m.view.sensors[u] = None THEN {}
    ELSE {Write(m, PutReadings(m.view, u, new)) :
             new \in {KeepFirst(m.view.readings[u], rs), KeepFirst(rs, m.view.readings[u])}}

\* One POST.  An error is handled, that is, logged when errors are ignored.
PostReadings(m, u, rs, ignore) ==
    {[r EXCEPT !.ok = r.ok \/ ignore] : r \in Request(m, Merged(m, u, rs))}

AddSingleReading(m, u, rs, ignore) == PostReadings(m, u, rs, ignore)

AddBulkReadings(m, u, rs, ignore) == PostReadings(m, u, rs, ignore)

\* _min_bulk_size is 1: a single reading, or all of them in one request.
InsertReadings(m, u, rs, ignore) ==
    CASE rs = NoReadings -> Done(m)
      [] Cardinality(Recorded(rs)) = 1 -> AddSingleReading(m, u, rs, ignore)
      [] OTHER -> AddBulkReadings(m, u, rs, ignore)

UpdateReadings(m, u, rs, ignore) == AddBulkReadings(m, u, rs, ignore)

-----------------------------------------------------------------------------
(* Queries *)

\* The server answers values it derives from the readings posted, a power from a
\* counter say, for all of their times but the first.
Derived(rs) ==
    LET first == {t \in Recorded(rs) : \A s \in Recorded(rs) : t <= s}
    IN {d \in Readings : Recorded(d) = Recorded(rs) \ first}

GetAll(m, u) == Derived(m.view.readings[u])

\* The selection is inserted through a null pointer; without one, the null
\* pointer is what is returned.
GetTimeframe(m, u, from, to) ==
    UNION {IF Between(rs, from, to) = NoReadings THEN {} ELSE Readings : rs \in GetAll(m, u)}

GetNumber(m, u) == {Cardinality(Recorded(rs)) : rs \in GetAll(m, u)}

\* The server's answer, which is the client's.
GetLast(m, u) ==
    UNION {IF rs = NoReadings THEN {NoReading} ELSE Latest(rs) : rs \in GetAll(m, u)}

GetOne(m, u, time) == {ReadingAt(rs, time) : rs \in GetAll(m, u)}
=============================================================================
