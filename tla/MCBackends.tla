----------------------------- MODULE MCBackends -----------------------------
(* Instances of BackendStore for TLC. *)
EXTENDS BackendProperties, TLC

CONSTANTS u1, u2, e1, e2, p1, p2, p3, v1, v2

\* As decimal strings "10" comes before "2".
TextOrder(s, t) == s = 10 /\ t = 2

At(t, v) == [s \in Times |-> IF s = t THEN v ELSE None]

\* p1 is in Berlin without a device type, p3 without one somewhere else, and p2 is
\* there with a device type.
UnknownDevice == [p \in Props |-> IF p = p2 THEN p3 ELSE p]
UnknownInBerlin == [p \in Props |-> p1]

\* The first sensor is redefined and has two timestamps, the second has one.
FewDefinitions == [u \in Uuids |->
    IF u = u1 THEN {[ext |-> e1, props |-> p1], [ext |-> e1, props |-> p2]}
    ELSE {[ext |-> e2, props |-> p1]}]

FewBatches == [u \in Uuids |->
    IF u = u1 THEN {At(2, v1), [t \in Times |-> IF t = 2 THEN v2 ELSE v1]}
    ELSE {At(2, v1)}]

Sensor(e, p, r) == [ext |-> e, props |-> p, readings |-> r]

BothSensors == {[u \in Uuids |-> IF u = u1 THEN Sensor(e1, p2, At(2, v2))
                                 ELSE Sensor(e2, p1, At(2, v1))]}

Kind(kind, auto, faulty) == [kind |-> kind, auto |-> auto, faulty |-> faulty]

AllStores == {Kind("postgresql", TRUE, FALSE), Kind("postgresql", FALSE, FALSE),
              Kind("postgresql", TRUE, TRUE),
              Kind("redis", TRUE, FALSE), Kind("redis", FALSE, FALSE), Kind("redis", TRUE, TRUE),
              Kind("rocksdb", TRUE, FALSE), Kind("txt", TRUE, FALSE),
              Kind("msg", TRUE, FALSE), Kind("msg", TRUE, TRUE)}

SteadyStores == {s \in AllStores : s.auto /\ ~s.faulty}
=============================================================================
