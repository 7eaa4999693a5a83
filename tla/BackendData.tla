---------------------------- MODULE BackendData ----------------------------
(***************************************************************************)
(* What the five backends besides SQLite3 have in common: the medium a     *)
(* klio::Store writes to, seen through one connection, and the outcome of  *)
(* one of its record methods.  The medium is a PostgreSQL or Redis server, *)
(* a directory of RocksDB databases or of text files, or a remote mSG      *)
(* server.                                                                 *)
(***************************************************************************)
EXTENDS StoreBuffers, FiniteSets

CONSTANTS
    MinBulk,         \* _min_bulk_size
    WithoutDevice,   \* properties with the device type unknown
    AsPosted         \* and with Europe/Berlin for the time zone as well

ASSUME MinBulkAssumption == MinBulk \in Nat

\* Properties may come out unlike any a client gives a sensor, but what was
\* dropped once is not dropped again.
ASSUME ConversionsAssumption ==
    /\ WithoutDevice \in [Props -> Props] /\ AsPosted \in [Props -> Props]
    /\ \A p \in Props : WithoutDevice[WithoutDevice[p]] = WithoutDevice[p]
    /\ \A p \in Props : AsPosted[AsPosted[p]] = AsPosted[p]

\* A timestamp has 64 bits.
ASSUME FiniteTimesAssumption == IsFiniteSet(Times)

\* Sensors and readings are kept apart in every backend, so that one can
\* outlive the other.
Contents == [sensors  : [Uuids -> Sensors \cup {None}],
             readings : [Uuids -> Readings]]

\* disk is what a restart finds and view what the connection will have made of
\* it; they differ inside a transaction and, for RocksDB, by its memtables.
\* prepared: the PostgreSQL session has its prepared statements.  noisy: the
\* reply of Redis to EXEC will hold an element that run() takes for an error.
Media == [disk     : Contents,
          view     : Contents,
          txn      : {"none", "open", "aborted"},
          prepared : BOOLEAN,
          noisy    : BOOLEAN]

Nothing == [sensors  |-> [u \in Uuids |-> None],
            readings |-> [u \in Uuids |-> NoReadings]]

\* A medium with contents c that nobody is connected to.
Disconnected(c) == [disk |-> c, view |-> c, txn |-> "none",
                    prepared |-> FALSE, noisy |-> FALSE]

\* A statement's effect is kept at once unless a transaction is open.
Write(m, c) == IF m.txn = "none"
               THEN [m EXCEPT !.view = c, !.disk = c]
               ELSE [m EXCEPT !.view = c]

\* A sensor as it comes back from a medium that converts its properties.
Converted(s, conversion) == [ext |-> s.ext, props |-> conversion[s.props]]

PutSensor(c, u, s) == [c EXCEPT !.sensors[u] = s]
PutReadings(c, u, rs) == [c EXCEPT !.readings[u] = rs]

\* Mutant: no map of readings is left, not even an empty one.
WithoutMap(c, u) == [sensors  |-> [c.sensors EXCEPT ![u] = None],
                     readings |-> [c.readings EXCEPT ![u] = None]]

Without(c, u) == [sensors  |-> [c.sensors EXCEPT ![u] = None],
                  readings |-> [c.readings EXCEPT ![u] = NoReadings]]

\* A method's outcomes: the medium afterwards, and whether it returned.
Done(m) == {[srv |-> m, ok |-> TRUE]}
Thrown(m) == {[srv |-> m, ok |-> FALSE]}

\* handle_reading_insertion_error: log and go on, or throw.
Handled(m, ignore) == {[srv |-> m, ok |-> ignore]}

-----------------------------------------------------------------------------
(* Answers *)

\* The pair (0, 0) some queries return for a reading that is not there.
NoReading == <<0, None>>

Pairs(rs) == {<<t, rs[t]>> : t \in Recorded(rs)}

Between(rs, from, to) ==
    [t \in Times |-> IF from <= t /\ t <= to THEN rs[t] ELSE None]

\* The latest of some readings; an answer is a set of possible answers, empty
\* when the query throws.
Latest(rs) == {p \in Pairs(rs) : \A q \in Pairs(rs) : q[1] <= p[1]}

\* The reading of a timestamp, or (0, 0).
ReadingAt(rs, time) == IF rs[time] = None THEN NoReading ELSE <<time, rs[time]>>

\* Undefined behaviour: the process dies, or the answer is anything.
AnyPair == (Times \X Values) \cup {NoReading}
=============================================================================
