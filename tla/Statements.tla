----------------------------- MODULE Statements -----------------------------
(***************************************************************************)
(* The prepared statements of klio::SQLite3Store: a cache from SQL text to *)
(* statement, eight members that point to statements of the cache, and the *)
(* connection they belong to.  A pointer to a statement that was finalized *)
(* would be undefined behaviour, and one that nothing points to any more   *)
(* is never finalized.  Statements that are prepared and finalized in one  *)
(* method leave nothing behind and are not modelled.                       *)
(***************************************************************************)
EXTENDS Integers

CONSTANTS
    Sqls,         \* SQL texts
    OwnSqls,      \* those the store has members for
    NoStatement   \* NULL

ASSUME SqlsAssumption == OwnSqls \subseteq Sqls

ASSUME NoStatementAssumption == NoStatement \notin [db : Nat, number : Nat]

\* Bounds.
CONSTANTS MaxOpened, MaxPrepared

VARIABLES
    db,        \* the connection, counted from 1, or 0 for NULL
    opened,    \* connections opened
    cache,     \* _statements
    own,       \* the members, by their SQL text
    live,      \* statements prepared and not finalized
    prepared,  \* statements prepared
    missing    \* what prepare_statements has not got to

statementVars == <<db, opened, cache, own, live, prepared, missing>>

Handles == [db : Nat, number : Nat]

Handle(d, n) == [db |-> d, number |-> n]

NoStatements(S) == [s \in S |-> NoStatement]

StatementsInit ==
    /\ db = 0 /\ opened = 0
    /\ cache = NoStatements(Sqls)
    /\ own = NoStatements(OwnSqls)
    /\ live = {}
    /\ prepared = 0
    /\ missing = {}

Cached(s) == cache[s] # NoStatement

-----------------------------------------------------------------------------
(* Connections *)

\* open_db: a new connection.
OpenDb ==
    /\ opened < MaxOpened
    /\ db' = opened + 1
    /\ opened' = opened + 1

\* Mutant: the map keeps what was finalized.
FinalizeKeepingCache ==
    /\ live' = live \ {cache[s] : s \in Sqls}
    /\ own' = NoStatements(OwnSqls)
    /\ UNCHANGED cache

\* Mutant: clear_buffers comes first.
FinalizeCleared ==
    /\ cache' = NoStatements(Sqls)
    /\ own' = NoStatements(OwnSqls)
    /\ UNCHANGED live

FinalizeStatements ==
    /\ live' = live \ {cache[s] : s \in Sqls}
    /\ own' = NoStatements(OwnSqls)
    /\ cache' = NoStatements(Sqls)

Open ==
    /\ db = 0
    /\ OpenDb
    /\ UNCHANGED <<cache, own, live, prepared, missing>>

\* close, or the destructor, also after prepare threw: sqlite3_close_v2 accepts
\* a connection that still has statements.
Close ==
    /\ db # 0 /\ missing = {}
    /\ FinalizeStatements
    /\ db' = 0
    /\ UNCHANGED <<opened, prepared, missing>>

\* The file is renamed and a new one opened, whose statements are prepared.
Rotate ==
    /\ db # 0 /\ missing = {}
    /\ FinalizeStatements
    /\ OpenDb
    /\ missing' = OwnSqls
    /\ UNCHANGED prepared

\* rename throws once the database is closed, and the store stays closed.
RotateFails == Close

-----------------------------------------------------------------------------
(* Statements *)

\* get_statement: what is in the cache is taken without a look at the connection.
GetStatement(s) ==
    IF Cached(s) THEN UNCHANGED <<cache, live, prepared>>
    ELSE LET h == Handle(db, prepared + 1)
         IN /\ db # 0
            /\ prepared < MaxPrepared
            /\ prepared' = prepared + 1
            /\ cache' = [cache EXCEPT ![s] = h]
            /\ live' = live \cup {h}

\* has_table, has_column, a query, or the insertion of a reading.
UseStatement(s) ==
    /\ missing = {}
    /\ GetStatement(s)
    /\ UNCHANGED <<db, opened, own, missing>>

\* prepare, which the factory calls once and any client may call again.
Prepare ==
    /\ db # 0 /\ missing = {}
    /\ missing' = OwnSqls
    /\ UNCHANGED <<db, opened, cache, own, live, prepared>>

PrepareMember(s) ==
    /\ s \in missing
    /\ GetStatement(s)
    /\ own' = [own EXCEPT ![s] = cache'[s]]
    /\ missing' = missing \ {s}
    /\ UNCHANGED <<db, opened>>

\* A statement cannot be prepared: the members got so far stay.
PrepareThrows ==
    /\ missing # {}
    /\ missing' = {}
    /\ UNCHANGED <<db, opened, cache, own, live, prepared>>

\* rollback_transaction: clear_buffers forgets the statements without
\* finalizing them, and prepare gets new ones.
RollbackTransaction ==
    /\ db # 0 /\ missing = {}
    /\ cache' = NoStatements(Sqls)
    /\ missing' = OwnSqls
    /\ UNCHANGED <<db, opened, own, live, prepared>>

StatementsNext ==
    \/ Open
    \/ Close
    \/ Rotate
    \/ RotateFails
    \/ Prepare
    \/ PrepareThrows
    \/ RollbackTransaction
    \/ \E s \in Sqls : UseStatement(s)
    \/ \E s \in OwnSqls : PrepareMember(s)

StatementsSpec == StatementsInit /\ [][StatementsNext]_statementVars

-----------------------------------------------------------------------------
StatementsTypeOK ==
    /\ db \in Nat /\ opened \in Nat /\ db <= opened
    /\ cache \in [Sqls -> Handles \cup {NoStatement}]
    /\ own \in [OwnSqls -> Handles \cup {NoStatement}]
    /\ live \subseteq Handles
    /\ prepared \in Nat
    /\ missing \subseteq OwnSqls

\* Handle h can be executed.
Usable(h) == h \in live /\ h.db = db

\* Whatever a method executes, from the cache or through a member, is a
\* statement of the open connection that was not finalized: across rotations,
\* rollbacks and prepares that stopped half way, and a store that is closed and
\* opened again.  A store that is closed points to none.
StatementsAreUsable ==
    /\ \A s \in Sqls : Cached(s) => Usable(cache[s])
    /\ \A s \in OwnSqls : own[s] # NoStatement => Usable(own[s])
    /\ db = 0 => /\ \A s \in Sqls : ~Cached(s)
                 /\ \A s \in OwnSqls : own[s] = NoStatement

\* What close would not finalize.
Leaked == live \ {cache[s] : s \in Sqls}

\* Only a rollback leaks statements; rotate and close, of a store in whatever
\* state, finalize what was prepared since the last one.
OnlyRollbacksLeak == [][Leaked' \subseteq Leaked \/ RollbackTransaction]_statementVars
=============================================================================
