-------------------------- MODULE TransactionalFile --------------------------
(***************************************************************************)
(* What klio::Transaction promises of a store's file, whoever writes it:   *)
(* inside a transaction writes are seen and not kept, the end of the       *)
(* transaction keeps all of them or none, and outside one what is read is  *)
(* what is kept.                                                           *)
(***************************************************************************)

CONSTANT Contents     \* everything a file can hold

VARIABLES
    committed,   \* what a restart finds
    current,     \* what a reader of the connection finds
    active       \* a transaction is open

Init ==
    /\ committed \in Contents
    /\ current = committed
    /\ active = FALSE

Start ==
    /\ ~active
    /\ active' = TRUE
    /\ UNCHANGED <<committed, current>>

\* Writes of an open transaction.
Write ==
    /\ active
    /\ current' \in Contents
    /\ UNCHANGED <<committed, active>>

\* Writes outside a transaction, or a call in a transaction of its own.
WriteThrough ==
    /\ ~active
    /\ current' \in Contents
    /\ committed' = current'
    /\ UNCHANGED active

\* The transaction's last writes, and then all of it is kept.
Commit ==
    /\ active
    /\ active' = FALSE
    /\ current' \in Contents
    /\ committed' = current'

\* Rollback, close or crash.
Abort ==
    /\ active
    /\ active' = FALSE
    /\ current' = committed
    /\ UNCHANGED committed

Next == Start \/ Write \/ WriteThrough \/ Commit \/ Abort

Spec == Init /\ [][Next]_<<committed, current, active>>
=============================================================================
