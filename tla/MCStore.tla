------------------------------ MODULE MCStore ------------------------------
(* Instances of Store for TLC. *)
EXTENDS StoreProperties, TLC

CONSTANTS u1, u2, e1, e2, p1, p2, v1, v2

\* Every sensor has an external id of its own, or all are created with one.
OwnIds == [u \in Uuids |-> IF u = u1 THEN e1 ELSE e2]
SharedId == [u \in Uuids |-> e1]

At(t, v) == [s \in Times |-> IF s = t THEN v ELSE None]

Sensor(e, p, r) == [ext |-> e, props |-> p, readings |-> r]

\* Sources: both sensors with a reading each, or one sensor; the same when
\* both uuids have one external id; and a source that swapped the two names.
TwoSensors == [u \in Uuids |-> Sensor(OwnIds[u], p1, At(1, v1))]
Only(u, e, p, r) == [w \in Uuids |-> IF w = u THEN Sensor(e, p, r) ELSE None]

OwnSources == {TwoSensors, Only(u1, e1, p1, At(1, v1))}
SharedSources == {Only(u1, e1, p1, At(1, v1)), Only(u2, e1, p2, NoReadings)}
SwappedSources ==
    {[u \in Uuids |-> Sensor(IF u = u1 THEN e2 ELSE e1, p1, At(1, v1))]}
=============================================================================
