------------------------- MODULE PostgreSQLRecords -------------------------
(***************************************************************************)
(* The record methods of klio::PostgreSQLStore and its transaction handler *)
(* over an external PostgreSQL server.  Tables sensors(uuid PRIMARY KEY)   *)
(* and readings(uuid, timestamp PRIMARY KEY) have no reference to each     *)
(* other.  A statement that fails inside a transaction aborts it: all      *)
(* later statements fail until it ends.                                    *)
(***************************************************************************)
EXTENDS BackendData

Aborted(m) == m.txn = "aborted"

Abort(m) == IF m.txn = "none" THEN m
            ELSE [m EXCEPT !.txn = "aborted", !.view = m.disk]

\* PostgreSQLTransaction::start of a handler that is not pending: inside a
\* transaction BEGIN only warns, and the handler is pending all the same.
Begin(m) == [srv |-> IF m.txn = "none" THEN [m EXCEPT !.txn = "open"] ELSE m,
             ok  |-> ~Aborted(m)]

\* COMMIT of an aborted transaction is a rollback, and of none a warning: all
\* three are PGRES_COMMAND_OK.
Commit(m) == [srv |-> [m EXCEPT !.disk = IF Aborted(m) THEN m.disk ELSE m.view,
                                !.view = IF Aborted(m) THEN m.disk ELSE m.view,
                                !.txn = "none"],
              ok  |-> TRUE]

Rollback(m) == [srv |-> [m EXCEPT !.view = m.disk, !.txn = "none"], ok |-> TRUE]

-----------------------------------------------------------------------------
(* Life cycle *)

\* PQprepare fails for a statement the session has already.
PrepareStatements(m) == [srv |-> IF m.prepared THEN Abort(m) ELSE [m EXCEPT !.prepared = TRUE],
                         ok  |-> ~m.prepared /\ ~Aborted(m)]

GetSensorRecords(m) == IF Aborted(m) THEN Nothing.sensors ELSE m.view.sensors

Prepare(m) == LET p == PrepareStatements(m)
              IN [srv |-> p.srv, ok |-> p.ok, sensors |-> GetSensorRecords(p.srv)]

\* DEALLOCATE ALL comes first, and in an aborted transaction it throws.
CanFinalize(m) == ~Aborted(m)

\* The connection is closed: an open transaction is rolled back.
Close(m) == Disconnected(m.disk)

\* Both tables are dropped; inside a transaction, close takes it back.
Dispose(m) == Close(Write(m, Nothing))

-----------------------------------------------------------------------------
(* Sensors *)

AddSensorRecord(m, u, s) ==
    IF Aborted(m) \/ m.view.sensors[u] # None
    THEN Thrown(Abort(m))
    ELSE Done(Write(m, PutSensor(m.view, u, s)))

\* The readings of the sensor stay.
RemoveSensorRecord(m, u) ==
    IF Aborted(m) THEN Thrown(m)
    ELSE Done(Write(m, PutSensor(m.view, u, None)))

\* UPDATE ... WHERE uuid: of no row, no error.
UpdateSensorRecord(m, u, s) ==
    IF Aborted(m) THEN Thrown(m)
    ELSE Done(IF m.view.sensors[u] = None THEN m
              ELSE Write(m, PutSensor(m.view, u, s)))

-----------------------------------------------------------------------------
(* Readings *)

Repeated(m, u, rs) == Recorded(m.view.readings[u]) \cap Recorded(rs)

\* add_single_reading_record for each reading, in the order of time.  The
\* first timestamp that is there already ends the loop when errors are not
\* ignored, and aborts a transaction in any case.
AddSingleReadings(m, u, rs, ignore) ==
    LET old == m.view.readings[u]
        again == Repeated(m, u, rs)
        before == [t \in Times |-> IF \E r \in again : r <= t THEN None ELSE rs[t]]
    IN CASE Aborted(m) /\ rs # NoReadings -> Handled(m, ignore)
         [] Aborted(m) /\ rs = NoReadings -> Done(m)
         [] ~Aborted(m) /\ again = {} ->
               Done(Write(m, PutReadings(m.view, u, KeepFirst(old, rs))))
         [] ~Aborted(m) /\ again # {} /\ m.txn = "open" -> Handled(Abort(m), ignore)
         [] OTHER -> Handled(Write(m, PutReadings(m.view, u,
                                 KeepFirst(old, IF ignore THEN rs ELSE before))), ignore)

\* Mutant: the COPY has a connection of its own.
AddBulkReadingsApart(m, u, rs, ignore) ==
    LET new == PutReadings(m.view, u, KeepFirst(m.view.readings[u], rs))
    IN IF Aborted(m) \/ Repeated(m, u, rs) # {} THEN Handled(m, ignore)
       ELSE Done([m EXCEPT !.view = new, !.disk.readings[u] = new.readings[u]])

\* One COPY for all of them, whose result is never looked at: a timestamp that
\* is there already loses the whole bulk, and the transaction if there is one.
AddBulkReadings(m, u, rs, ignore) ==
    IF Aborted(m) THEN Handled(m, ignore)
    ELSE IF Repeated(m, u, rs) # {} THEN Done(Abort(m))
    ELSE Done(Write(m, PutReadings(m.view, u, KeepFirst(m.view.readings[u], rs))))

InsertReadings(m, u, rs, ignore) ==
    IF Cardinality(Recorded(rs)) <= MinBulk
    THEN AddSingleReadings(m, u, rs, ignore)
    ELSE AddBulkReadings(m, u, rs, ignore)

\* UPDATE readings SET timestamp, value WHERE uuid, once for each reading: a
\* sensor without readings gets none, a single reading is moved to the last of
\* them, and several readings cannot all get one timestamp.
UpdateReadings(m, u, rs, ignore) ==
    LET rows == Cardinality(Recorded(m.view.readings[u]))
        moved == [t \in Times |-> IF \E p \in Latest(rs) : p[1] = t THEN rs[t] ELSE None]
    IN CASE Aborted(m) \/ rows > 1 -> Handled(Abort(m), ignore)
         [] ~Aborted(m) /\ rows = 0 -> Done(m)
         [] OTHER -> Done(Write(m, PutReadings(m.view, u, moved)))

-----------------------------------------------------------------------------
(* Queries *)

GetAll(m, u) == IF Aborted(m) THEN {} ELSE {m.view.readings[u]}

GetTimeframe(m, u, from, to) == {Between(rs, from, to) : rs \in GetAll(m, u)}

GetNumber(m, u) == {Cardinality(Recorded(rs)) : rs \in GetAll(m, u)}

\* *(readings->begin()), also of a map without entries.
FirstOf(pairs) == IF pairs = {} THEN AnyPair ELSE pairs

GetLast(m, u) == UNION {FirstOf(Latest(rs)) : rs \in GetAll(m, u)}

GetOne(m, u, time) ==
    UNION {FirstOf({p \in Pairs(rs) : p[1] = time}) : rs \in GetAll(m, u)}
=============================================================================
