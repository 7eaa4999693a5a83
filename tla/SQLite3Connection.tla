-------------------------- MODULE SQLite3Connection --------------------------
(***************************************************************************)
(* The flushes of one sensor of a klio::SQLite3Store, which need its       *)
(* statement of insertion, between the methods that open, prepare, rotate, *)
(* roll back and close the store.  Nothing else runs during a flush, and   *)
(* only a store that was prepared is rotated.                              *)
(***************************************************************************)
EXTENDS Flushing, Statements

CONSTANT InsertSql     \* the insertion of a reading of the sensor

ASSUME InsertSqlAssumption == InsertSql \in Sqls \ OwnSqls

VARIABLE loaded        \* the sensor is in the buffers

vars == <<flushVars, statementVars, loaded>>

Init ==
    /\ FlushInit
    /\ StatementsInit
    /\ loaded = FALSE

\* get_statement is outside the try block of add_reading_record: if it throws,
\* so does the flush, whether or not errors are ignored.
Insert ==
    /\ HandOver
    /\ UseStatement(InsertSql)
    /\ UNCHANGED loaded

FlushStep ==
    /\ \/ loaded /\ missing = {} /\ (Buffer \/ StartFlush)
       \/ FillBulk
       \/ FlushThrows
       \/ EndFlush
    /\ UNCHANGED <<statementVars, loaded>>

\* The buffers are dropped and the statements finalized.
CloseStore ==
    /\ Close
    /\ ClearBuffers
    /\ loaded' = FALSE

\* The buffers are dropped, and loaded again when prepare gets to its end.
Rollback ==
    /\ RollbackTransaction
    /\ ClearBuffers
    /\ loaded' = FALSE

PrepareStore ==
    /\ flushing = "no"
    /\ Prepare \/ \E s \in OwnSqls : PrepareMember(s)
    /\ loaded' = (loaded \/ missing' = {})
    /\ UNCHANGED flushVars

\* A rotation, failed or not, keeps what is in memory.
Manage ==
    /\ flushing = "no"
    /\ \/ Open
       \/ loaded /\ (Rotate \/ RotateFails)
       \/ PrepareThrows
       \/ \E s \in Sqls \ OwnSqls : UseStatement(s)
    /\ UNCHANGED <<flushVars, loaded>>

Next ==
    \/ Insert
    \/ FlushStep
    \/ CloseStore
    \/ Rollback
    \/ PrepareStore
    \/ Manage

Spec == Init /\ [][Next]_vars
=============================================================================
