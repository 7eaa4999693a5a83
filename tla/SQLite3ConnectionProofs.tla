----------------------- MODULE SQLite3ConnectionProofs -----------------------
(***************************************************************************)
(* Theorems about the flushes and the statements of a klio::SQLite3Store,  *)
(* for every number of readings, SQL text and connection: of the loop of   *)
(* flush, of the statement cache, and of the store they are both part of.  *)
(***************************************************************************)
EXTENDS SQLite3Connection, TLAPS

(***************************************************************************)
(* The cut of a flush into bulks.  The invariant relates the readings the  *)
(* iterator has not passed to the bulks the quotient left, both ways: not  *)
(* too few bulks, so that none of the readings is left out, and not one    *)
(* too many, so that no bulk is empty.                                     *)
(***************************************************************************)

\* The quotient, rounded up, is the least number of bulks that is enough.
LEMMA BulksForIsLeast ==
    ASSUME NEW n \in Nat
    PROVE  /\ BulksFor(n) \in Nat
           /\ n <= BulksFor(n) * MaxBulkSize
           /\ n > 0 => n > (BulksFor(n) - 1) * MaxBulkSize
<1>1. BulksFor(n) \in Nat
  BY BulkSizesAssumption, SMT DEF BulksFor
<1>2. n <= BulksFor(n) * MaxBulkSize
  BY BulkSizesAssumption, SMT DEF BulksFor
<1>3. n > 0 => n > (BulksFor(n) - 1) * MaxBulkSize
  BY BulkSizesAssumption, SMT DEF BulksFor
<1> QED BY <1>1, <1>2, <1>3

\* One bulk less.
LEMMA OneBulkLess ==
    ASSUME NEW k \in Int
    PROVE  (k - 1) * MaxBulkSize = k * MaxBulkSize - MaxBulkSize
  BY BulkSizesAssumption, SMT

FlushInductive == FlushTypeOK /\ EachOnce /\ BulksFit

LEMMA FlushInitInductive == FlushInit => FlushInductive
  BY MaxReadingsAssumption DEF FlushInit, FlushInductive, FlushTypeOK, EachOnce, BulksFit, Numbers

\* Handing over the numbers that follow those handed over so far.
LEMMA HandedOverOnce ==
    ASSUME times \in [Numbers -> Nat],
           NEW first \in Int, NEW last \in Int, first <= last + 1,
           \A i \in Numbers : times[i] = IF i <= first - 1 THEN 1 ELSE 0
    PROVE  /\ HandedOver(first, last) \in [Numbers -> Nat]
           /\ \A i \in Numbers : HandedOver(first, last)[i] = IF i <= last THEN 1 ELSE 0
<1>1. ASSUME NEW i \in Numbers
      PROVE  HandedOver(first, last)[i] = IF i <= last THEN 1 ELSE 0
  BY MaxReadingsAssumption DEF HandedOver, Numbers
<1>2. HandedOver(first, last) \in [Numbers -> Nat]
  BY <1>1, MaxReadingsAssumption DEF HandedOver, Numbers
<1> QED BY <1>1, <1>2

LEMMA FlushNextInductive == FlushInductive /\ [FlushNext]_flushVars => FlushInductive'
<1> SUFFICES ASSUME FlushInductive, [FlushNext]_flushVars
             PROVE  FlushInductive'
  OBVIOUS
<1>0. /\ size \in 0 .. MaxReadings /\ MaxReadings \in Nat
      /\ next \in Nat /\ bulk \in Nat /\ bulks \in Nat
      /\ MaxBulkSize \in Nat \ {0}
      /\ times \in [Numbers -> Nat]
      /\ EachOnce /\ BulksFit
  BY MaxReadingsAssumption, BulkSizesAssumption DEF FlushInductive, FlushTypeOK
<1>1. CASE Buffer
  BY <1>0, <1>1 DEF FlushInductive, FlushTypeOK, EachOnce, BulksFit, Buffer
<1>2. CASE StartFlush
  <2>1. /\ BulksFor(size) \in Nat
        /\ size <= BulksFor(size) * MaxBulkSize
        /\ size > 0 => size > (BulksFor(size) - 1) * MaxBulkSize
    BY <1>0, BulksForIsLeast
  <2>2. size > MinBulkSize => size > 0
    BY <1>0, BulkSizesAssumption
  <2>3. FlushTypeOK' /\ EachOnce'
    BY <1>0, <1>2, <2>1 DEF FlushInductive, FlushTypeOK, EachOnce, StartFlush
  <2>4. BulksFit'
    BY <1>0, <1>2, <2>1, <2>2, BulkSizesAssumption DEF BulksFit, StartFlush
  <2> QED BY <2>3, <2>4 DEF FlushInductive
<1>3. CASE HandOverSingle
  <2>1. next < size /\ bulk = 0
    BY <1>0, <1>3 DEF HandOverSingle, BulksFit
  <2>2. /\ next + 1 \in Int /\ next + 1 <= next + 1 + 1
        /\ \A i \in Numbers : times[i] = IF i <= next + 1 - 1 THEN 1 ELSE 0
    BY <1>0, <2>1 DEF EachOnce, Numbers
  <2> DEFINE passed == HandedOver(next + 1, next + 1)
  <2>3. /\ passed \in [Numbers -> Nat]
        /\ \A i \in Numbers : passed[i] = IF i <= next + 1 THEN 1 ELSE 0
    BY <1>0, <2>2, HandedOverOnce
  <2>4. /\ times' \in [Numbers -> Nat]
        /\ \A i \in Numbers : times'[i] = IF i <= next + 1 THEN 1 ELSE 0
    BY <1>3, <2>3 DEF HandOverSingle
  <2>5. EachOnce'
    BY <1>0, <1>3, <2>1, <2>4 DEF EachOnce, HandOverSingle, Numbers
  <2>6. FlushTypeOK' /\ BulksFit'
    BY <1>0, <1>3, <2>1, <2>4 DEF FlushTypeOK, BulksFit, HandOverSingle, FlushInductive
  <2> QED BY <2>5, <2>6 DEF FlushInductive
<1>4. CASE FillBulk
  <2>1. next' - bulk' = next - bulk
    BY <1>0, <1>4 DEF FillBulk
  <2>2. EachOnce'
    BY <1>0, <1>4, <2>1 DEF EachOnce, FillBulk
  <2>3. FlushTypeOK' /\ BulksFit'
    BY <1>0, <1>4 DEF FlushTypeOK, BulksFit, FillBulk, FlushInductive
  <2> QED BY <2>2, <2>3 DEF FlushInductive
<1>5. CASE HandOverBulk
  <2>1. /\ next <= size /\ bulk <= MaxBulkSize /\ bulk <= next /\ bulks > 0
        /\ size - (next - bulk) <= bulks * MaxBulkSize
        /\ size - (next - bulk) > (bulks - 1) * MaxBulkSize
        /\ next = size \/ bulk = MaxBulkSize
    BY <1>0, <1>5 DEF HandOverBulk, BulksFit
  <2>2. \A i \in Numbers : times[i] = IF i <= next - bulk + 1 - 1 THEN 1 ELSE 0
    BY <1>0 DEF EachOnce, Numbers
  <2>3. /\ times' \in [Numbers -> Nat]
        /\ \A i \in Numbers : times'[i] = IF i <= next THEN 1 ELSE 0
    BY <1>0, <1>5, <2>1, <2>2, HandedOverOnce DEF HandOverBulk
  <2>4. EachOnce'
    BY <1>0, <1>5, <2>3 DEF EachOnce, HandOverBulk, Numbers
  <2>5. FlushTypeOK'
    BY <1>0, <1>5, <2>1, <2>3 DEF FlushTypeOK, HandOverBulk, FlushInductive
  <2>6. size - next <= (bulks - 1) * MaxBulkSize
    BY <1>0, <2>1, OneBulkLess
  <2>7. bulks - 1 > 0 => size - next > (bulks - 1 - 1) * MaxBulkSize
    BY <1>0, <2>1, OneBulkLess
  <2>8. BulksFit'
    BY <1>0, <1>5, <2>1, <2>6, <2>7 DEF BulksFit, HandOverBulk
  <2> QED BY <2>4, <2>5, <2>8 DEF FlushInductive
<1>6. CASE FlushThrows \/ EndFlush
  BY <1>0, <1>6 DEF FlushInductive, FlushTypeOK, EachOnce, BulksFit, FlushThrows, EndFlush, FlushReturns, Numbers
<1>7. CASE ClearBuffers
  BY <1>0, <1>7 DEF FlushInductive, FlushTypeOK, EachOnce, BulksFit, ClearBuffers
<1>8. CASE UNCHANGED flushVars
  BY <1>0, <1>8 DEF FlushInductive, FlushTypeOK, EachOnce, BulksFit, flushVars
<1> QED
  BY <1>1, <1>2, <1>3, <1>4, <1>5, <1>6, <1>7, <1>8 DEF FlushNext, HandOver

\* A flush that gets to its end has passed every reading.
LEMMA StepHandsOverEachOnce ==
    FlushInductive /\ [FlushNext]_flushVars =>
        /\ size' < size => ClearBuffers \/ \A i \in 1 .. size : times[i] = 1
        /\ HandOverBulk => bulk \in 1 .. MaxBulkSize
<1> SUFFICES ASSUME FlushInductive, [FlushNext]_flushVars
             PROVE  /\ size' < size => ClearBuffers \/ \A i \in 1 .. size : times[i] = 1
                    /\ HandOverBulk => bulk \in 1 .. MaxBulkSize
  OBVIOUS
<1>0. /\ size \in 0 .. MaxReadings /\ MaxReadings \in Nat
      /\ next \in Nat /\ bulk \in Nat /\ bulks \in Nat
      /\ MaxBulkSize \in Nat \ {0}
      /\ EachOnce /\ BulksFit
  BY MaxReadingsAssumption, BulkSizesAssumption DEF FlushInductive, FlushTypeOK
<1>1. ASSUME size' < size
      PROVE  ClearBuffers \/ EndFlush
  BY <1>0, <1>1 DEF FlushNext, flushVars, Buffer, StartFlush, HandOver, HandOverSingle,
                    FillBulk, HandOverBulk, FlushThrows
<1>2. ASSUME EndFlush
      PROVE  next - bulk = size
  BY <1>0, <1>2 DEF EndFlush, BulksFit
<1>3. ASSUME EndFlush
      PROVE  \A i \in 1 .. size : times[i] = 1
  BY <1>0, <1>2, <1>3 DEF EachOnce, Numbers
<1>4. ASSUME HandOverBulk
      PROVE  bulk \in 1 .. MaxBulkSize
  <2>1. size - (next - bulk) > (bulks - 1) * MaxBulkSize /\ bulk <= MaxBulkSize
        /\ (next = size \/ bulk = MaxBulkSize) /\ bulks - 1 \in Nat
    BY <1>0, <1>4 DEF HandOverBulk, BulksFit
  <2>2. (bulks - 1) * MaxBulkSize >= 0
    BY <1>0, <2>1
  <2> QED BY <1>0, <2>1, <2>2
<1> QED BY <1>1, <1>3, <1>4

-----------------------------------------------------------------------------
\* The bounds on bulks, and what was handed over, hold in every flush.
THEOREM BulksTheorem == FlushSpec => [](FlushTypeOK /\ EachOnce /\ BulksFit)
<1>1. FlushInductive => FlushTypeOK /\ EachOnce /\ BulksFit
  BY DEF FlushInductive
<1> QED BY <1>1, FlushInitInductive, FlushNextInductive, PTL DEF FlushSpec

\* Every reading is handed over exactly once by the flush that takes it out of
\* memory, in bulks that are not empty and not too large.
THEOREM EachOnceTheorem == FlushSpec => FlushHandsOverEachOnce
<1>1. FlushInductive /\ [FlushNext]_flushVars =>
          [/\ size' < size => ClearBuffers \/ \A i \in 1 .. size : times[i] = 1
           /\ HandOverBulk => bulk \in 1 .. MaxBulkSize]_flushVars
  BY StepHandsOverEachOnce
<1> QED BY <1>1, FlushInitInductive, FlushNextInductive, PTL DEF FlushSpec, FlushHandsOverEachOnce

-----------------------------------------------------------------------------
(***************************************************************************)
(* The statement cache.  Next to the type, the property is its own         *)
(* inductive invariant: every method that finalizes statements or leaves   *)
(* the connection also forgets the cache and the members, and every        *)
(* statement is prepared on the connection that is open.                   *)
(***************************************************************************)

StatementsInductive == StatementsTypeOK /\ StatementsAreUsable

LEMMA StatementsInitInductive == StatementsInit => StatementsInductive
  BY SqlsAssumption
     DEF StatementsInit, StatementsInductive, StatementsTypeOK, StatementsAreUsable, NoStatements, Cached

\* Taking a statement keeps the cache right, and what it held.
LEMMA GetStatementKeeps ==
    ASSUME StatementsInductive, NEW s \in Sqls, GetStatement(s), db' = db
    PROVE  /\ cache' \in [Sqls -> Handles \cup {NoStatement}]
           /\ live' \subseteq Handles
           /\ prepared' \in Nat
           /\ \A x \in Sqls : cache'[x] # NoStatement => cache'[x] \in live' /\ cache'[x].db = db
           /\ live \subseteq live'
           /\ cache'[s] # NoStatement
           /\ db # 0
           /\ Leaked' \subseteq Leaked
<1> DEFINE h == Handle(db, prepared + 1)
<1>0. /\ db \in Nat /\ prepared \in Nat /\ live \subseteq Handles
      /\ cache \in [Sqls -> Handles \cup {NoStatement}]
      /\ \A x \in Sqls : cache[x] # NoStatement => cache[x] \in live /\ cache[x].db = db
  BY DEF StatementsInductive, StatementsTypeOK, StatementsAreUsable, Usable, Cached
<1>1. CASE Cached(s)
  <2>1. db # 0
    BY <1>1 DEF StatementsInductive, StatementsAreUsable
  <2> QED BY <1>0, <1>1, <2>1 DEF GetStatement, Leaked, Cached
<1>2. CASE ~Cached(s)
  <2>1. h \in Handles /\ h.db = db
    BY <1>0 DEF Handle, Handles
  <2>2. h # NoStatement
    BY <2>1, NoStatementAssumption DEF Handles
  <2> HIDE DEF h
  <2>3. /\ cache' = [cache EXCEPT ![s] = h]
        /\ live' = live \cup {h}
        /\ prepared' = prepared + 1
    BY <1>2 DEF GetStatement, h
  <2>4. cache[s] = NoStatement
    BY <1>2 DEF Cached
  <2>5. \A x \in Sqls : cache'[x] = IF x = s THEN h ELSE cache[x]
    BY <1>0, <2>3
  <2>6. NoStatement \notin live
    BY <1>0, NoStatementAssumption DEF Handles
  <2>7. Leaked' \subseteq Leaked
    <3>1. ASSUME NEW g
          PROVE  g \in Leaked' <=> g \in live' /\ \A x \in Sqls : g # cache'[x]
      BY DEF Leaked
    <3>2. ASSUME NEW g
          PROVE  g \in Leaked <=> g \in live /\ \A x \in Sqls : g # cache[x]
      BY DEF Leaked
    <3> QED BY <2>3, <2>4, <2>5, <2>6, <3>1, <3>2
  <2>8. db # 0
    BY <1>2 DEF GetStatement
  <2> QED BY <1>0, <2>1, <2>2, <2>3, <2>5, <2>7, <2>8
<1> QED BY <1>1, <1>2

\* So are the members, if what they lead to is what they led to or the statement
\* taken.
LEMMA TakenIsInductive ==
    ASSUME StatementsInductive, NEW s \in Sqls, GetStatement(s),
           db' = db, opened' = opened, missing' \subseteq OwnSqls,
           own' \in [OwnSqls -> Handles \cup {NoStatement}],
           \A x \in OwnSqls : own'[x] = own[x] \/ own'[x] = cache'[s]
    PROVE  StatementsInductive'
<1>1. StatementsTypeOK'
  BY GetStatementKeeps DEF StatementsInductive, StatementsTypeOK
<1>2. \A x \in Sqls : cache'[x] # NoStatement => cache'[x] \in live' /\ cache'[x].db = db
  BY GetStatementKeeps
<1>3. \A x \in OwnSqls : own'[x] # NoStatement => own'[x] \in live' /\ own'[x].db = db
  BY GetStatementKeeps, <1>2 DEF StatementsInductive, StatementsAreUsable, Usable
<1>4. db' # 0
  BY GetStatementKeeps
<1> QED BY <1>1, <1>2, <1>3, <1>4 DEF StatementsInductive, StatementsAreUsable, Usable, Cached

\* A store without statements is right whatever its connection.
LEMMA ForgottenIsInductive ==
    ASSUME StatementsInductive,
           db' \in Nat, opened' \in Nat, db' <= opened', missing' \subseteq OwnSqls,
           prepared' = prepared, live' \subseteq live,
           cache' = NoStatements(Sqls), own' = NoStatements(OwnSqls)
    PROVE  StatementsInductive'
  BY DEF StatementsInductive, StatementsTypeOK, StatementsAreUsable, NoStatements, Cached

LEMMA StatementsNextInductive == StatementsInductive /\ [StatementsNext]_statementVars => StatementsInductive'
<1> SUFFICES ASSUME StatementsInductive, [StatementsNext]_statementVars
             PROVE  StatementsInductive'
  OBVIOUS
<1>0. /\ StatementsTypeOK /\ StatementsAreUsable
      /\ db \in Nat /\ opened \in Nat /\ db <= opened
  BY DEF StatementsInductive, StatementsTypeOK
<1>1. CASE Open
  <2>1. \A s \in Sqls : ~Cached(s)
    BY <1>0, <1>1 DEF Open, StatementsAreUsable
  <2>2. \A s \in OwnSqls : own[s] = NoStatement
    BY <1>0, <1>1 DEF Open, StatementsAreUsable, Usable, StatementsTypeOK
  <2> QED
    BY <1>0, <1>1, <2>1, <2>2
       DEF StatementsInductive, StatementsTypeOK, StatementsAreUsable, Open, OpenDb, Cached
<1>2. CASE Close \/ RotateFails
  <2>1. live' \subseteq live /\ missing' \subseteq OwnSqls
    BY <1>0, <1>2 DEF Close, RotateFails, FinalizeStatements, StatementsTypeOK
  <2> QED
    BY <1>0, <1>2, <2>1, ForgottenIsInductive DEF Close, RotateFails, FinalizeStatements
<1>3. CASE Rotate
  BY <1>0, <1>3, ForgottenIsInductive DEF Rotate, FinalizeStatements, OpenDb
<1>4. CASE Prepare \/ PrepareThrows
  BY <1>0, <1>4
     DEF StatementsInductive, StatementsTypeOK, StatementsAreUsable, Usable, Cached, Prepare, PrepareThrows
<1>5. CASE RollbackTransaction
  BY <1>0, <1>5
     DEF StatementsInductive, StatementsTypeOK, StatementsAreUsable, Usable, Cached, RollbackTransaction,
         NoStatements
<1>6. ASSUME NEW s \in Sqls, UseStatement(s)
      PROVE  StatementsInductive'
  <2>1. GetStatement(s) /\ UNCHANGED <<db, opened, own, missing>>
    BY <1>6 DEF UseStatement
  <2> QED BY <1>0, <2>1, GetStatementKeeps, TakenIsInductive DEF StatementsTypeOK
<1>7. ASSUME NEW s \in OwnSqls, PrepareMember(s)
      PROVE  StatementsInductive'
  <2>1. /\ GetStatement(s) /\ UNCHANGED <<db, opened>>
        /\ own' = [own EXCEPT ![s] = cache'[s]]
        /\ missing' \subseteq missing
        /\ s \in Sqls
    BY <1>7, SqlsAssumption DEF PrepareMember
  <2>2. cache'[s] \in Handles \cup {NoStatement}
    BY <2>1, GetStatementKeeps
  <2> QED BY <1>0, <2>1, <2>2, TakenIsInductive DEF StatementsTypeOK
<1>8. CASE UNCHANGED statementVars
  BY <1>0, <1>8
     DEF StatementsInductive, StatementsTypeOK, StatementsAreUsable, Usable, Cached, statementVars
<1> QED
  BY <1>1, <1>2, <1>3, <1>4, <1>5, <1>6, <1>7, <1>8 DEF StatementsNext

\* Whatever happens to a store's connection, no method executes a statement that
\* was finalized or belongs to a connection that is closed.
THEOREM StatementsTheorem == StatementsSpec => []StatementsAreUsable
<1>1. StatementsInductive => StatementsAreUsable
  BY DEF StatementsInductive
<1> QED BY <1>1, StatementsInitInductive, StatementsNextInductive, PTL DEF StatementsSpec

-----------------------------------------------------------------------------
\* No step but a rollback adds to the statements close would not finalize.
LEMMA StepLeaksNothing ==
    StatementsInductive /\ [StatementsNext]_statementVars => Leaked' \subseteq Leaked \/ RollbackTransaction
<1> SUFFICES ASSUME StatementsInductive, [StatementsNext]_statementVars
             PROVE  Leaked' \subseteq Leaked \/ RollbackTransaction
  OBVIOUS
<1>1. CASE Close \/ RotateFails \/ Rotate
  <2>1. live' = live \ {cache[s] : s \in Sqls}
    BY <1>1 DEF Close, RotateFails, Rotate, FinalizeStatements
  <2> QED BY <2>1 DEF Leaked
<1>2. ASSUME NEW s \in Sqls, UseStatement(s)
      PROVE  Leaked' \subseteq Leaked
  BY <1>2, GetStatementKeeps DEF UseStatement
<1>3. ASSUME NEW s \in OwnSqls, PrepareMember(s)
      PROVE  Leaked' \subseteq Leaked
  BY <1>3, GetStatementKeeps, SqlsAssumption DEF PrepareMember
<1>4. CASE Open \/ Prepare \/ PrepareThrows \/ UNCHANGED statementVars
  BY <1>4 DEF Leaked, Open, Prepare, PrepareThrows, statementVars
<1> QED BY <1>1, <1>2, <1>3, <1>4 DEF StatementsNext

\* Only a rollback leaks statements.
THEOREM LeakTheorem == StatementsSpec => OnlyRollbacksLeak
<1>1. StatementsInductive /\ [StatementsNext]_statementVars =>
          [Leaked' \subseteq Leaked \/ RollbackTransaction]_statementVars
  BY StepLeaksNothing
<1> QED BY <1>1, StatementsInitInductive, StatementsNextInductive, PTL DEF StatementsSpec, OnlyRollbacksLeak

-----------------------------------------------------------------------------
(***************************************************************************)
(* Both together: each step of the store is one of the loop of flush or    *)
(* leaves it alone, and one of the statement cache or leaves it alone.  So *)
(* what is proved of either holds of the store.                            *)
(***************************************************************************)

LEMMA InitImplements == Init => FlushInit /\ StatementsInit
  BY DEF Init

LEMMA NextImplementsFlush == [Next]_vars => [FlushNext]_flushVars
<1> SUFFICES ASSUME [Next]_vars PROVE [FlushNext]_flushVars
  OBVIOUS
<1>1. CASE Insert
  BY <1>1 DEF Insert, FlushNext
<1>2. CASE FlushStep
  BY <1>2 DEF FlushStep, FlushNext
<1>3. CASE CloseStore \/ Rollback
  BY <1>3 DEF CloseStore, Rollback, FlushNext
<1>4. CASE PrepareStore \/ Manage
  BY <1>4 DEF PrepareStore, Manage
<1>5. CASE UNCHANGED vars
  BY <1>5 DEF vars
<1> QED BY <1>1, <1>2, <1>3, <1>4, <1>5 DEF Next

LEMMA NextImplementsStatements == [Next]_vars => [StatementsNext]_statementVars
<1> SUFFICES ASSUME [Next]_vars PROVE [StatementsNext]_statementVars
  OBVIOUS
<1>1. CASE Insert
  BY <1>1, InsertSqlAssumption DEF Insert, StatementsNext
<1>2. CASE FlushStep
  BY <1>2 DEF FlushStep
<1>3. CASE CloseStore \/ Rollback
  BY <1>3 DEF CloseStore, Rollback, StatementsNext
<1>4. CASE PrepareStore
  BY <1>4 DEF PrepareStore, StatementsNext
<1>5. CASE Manage
  BY <1>5 DEF Manage, StatementsNext
<1>6. CASE UNCHANGED vars
  BY <1>6 DEF vars
<1> QED BY <1>1, <1>2, <1>3, <1>4, <1>5, <1>6 DEF Next

\* The store implements both parts.
THEOREM ConnectionImplementsParts == Spec => FlushSpec /\ StatementsSpec
<1> QED
  BY InitImplements, NextImplementsFlush, NextImplementsStatements, PTL
     DEF Spec, FlushSpec, StatementsSpec

\* What is proved of a flush alone holds of a store that is opened, closed,
\* rotated and rolled back around its flushes: each reading is handed over once.
THEOREM ConnectionFlushesEachOnce == Spec => FlushHandsOverEachOnce
  BY ConnectionImplementsParts, EachOnceTheorem

\* A store executes only statements of its open connection, and only its
\* rollbacks leak any.
THEOREM ConnectionStatements == Spec => []StatementsAreUsable /\ OnlyRollbacksLeak
  BY ConnectionImplementsParts, StatementsTheorem, LeakTheorem
=============================================================================
