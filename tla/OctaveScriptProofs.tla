-------------------------- MODULE OctaveScriptProofs --------------------------
(***************************************************************************)
(* The loop of the Octave exporter writes the matrix it should, for every  *)
(* length of days and minutes and every series in which no minute has two  *)
(* readings and no later day begins with its last second.                  *)
(***************************************************************************)
EXTENDS OctaveScript, NumberLemmas

-----------------------------------------------------------------------------
(* Days and minutes *)

LEMMA DaysInOrder ==
    ASSUME NEW t \in Int, NEW u \in Int
    PROVE  /\ DayOf(t) \in Int /\ CalcNextDay(t) \in Int
           /\ t < CalcNextDay(t)
           /\ t <= u => DayOf(t) <= DayOf(u)
           /\ DayOf(t) = DayOf(u) => CalcNextDay(t) = CalcNextDay(u)
           /\ u >= CalcNextDay(t) <=> DayOf(t) < DayOf(u)
           /\ t % SecondsPerDay # SecondsPerDay - 1 => CalcNextDay(t + 1) = CalcNextDay(t)
<1>. DEFINE S == SecondsPerDay
            d == t \div S
            e == u \div S
            r == t % S
            q == u % S
<1>0. S \in Nat /\ S > 0
  BY DaysAssumption
<1>1. d \in Int /\ r \in 0 .. S - 1 /\ t = S * d + r
  BY <1>0, SMT
<1>2. e \in Int /\ q \in 0 .. S - 1 /\ u = S * e + q
  BY <1>0, SMT
<1>3. ASSUME NEW a \in Int, NEW b \in Int
      PROVE  /\ S * a \in Int /\ S * b \in Int
             /\ a = b => S * a = S * b
             /\ a < b => S * a + S <= S * b
  <2>1. S * a \in Int /\ S * b \in Int
    BY <1>0
  <2>2. ASSUME a < b
        PROVE  S * a + S <= S * b
    <3>1. b - a >= 1 /\ S * (b - a) >= S * 1
      BY <1>0, <2>2, SMT
    <3>2. S * (b - a) = S * b - S * a
      BY <1>0, SMT
    <3>. QED BY <1>0, <2>1, <3>1, <3>2
  <2>. QED BY <2>1, <2>2
<1>4. /\ CalcNextDay(t) = S * d + S /\ CalcNextDay(u) = S * e + S
      /\ S * d \in Int /\ S * e \in Int
  <2>1. S * d \in Int /\ S * e \in Int
    BY <1>1, <1>2, <1>3
  <2>. HIDE DEF d, e
  <2>. QED BY <1>0, <1>1, <1>2, <2>1 DEF CalcNextDay
<1>5. /\ t < CalcNextDay(t)
      /\ t <= u => d <= e
      /\ d = e => CalcNextDay(t) = CalcNextDay(u)
      /\ u >= CalcNextDay(t) <=> d < e
  <2>. HIDE DEF d, e, r, q, S
  <2>1. d < e => S * d + S <= S * e
    BY <1>1, <1>2, <1>3
  <2>2. e < d => S * e + S <= S * d
    BY <1>1, <1>2, <1>3
  <2>3. d = e => S * d = S * e
    OBVIOUS
  <2>. QED BY <1>0, <1>1, <1>2, <1>4, <2>1, <2>2, <2>3
<1>6. ASSUME r # S - 1
      PROVE  CalcNextDay(t + 1) = CalcNextDay(t)
  <2>1. (t + 1) % S = r + 1
    <3>. DEFINE f == (t + 1) \div S
                k == (t + 1) % S
    <3>1. f \in Int /\ k \in 0 .. S - 1 /\ t + 1 = S * f + k
      BY <1>0, SMT
    <3>. HIDE DEF d, e, r, q, S, f, k
    <3>2. /\ d < f => S * d + S <= S * f
          /\ f < d => S * f + S <= S * d
          /\ S * f \in Int
      BY <1>1, <1>3, <3>1
    <3>3. d = f
      BY <1>0, <1>1, <1>4, <1>6, <3>1, <3>2
    <3>. QED BY <1>0, <1>1, <1>4, <3>1, <3>3 DEF k
  <2>. HIDE DEF r, S
  <2>. QED BY <1>0, <1>1, <2>1 DEF CalcNextDay, r, S
<1>. QED BY <1>0, <1>1, <1>2, <1>4, <1>5, <1>6 DEF DayOf

\* The minute of a time is one of the day, and that of its row.
LEMMA MinutesFit ==
    ASSUME NEW t \in Int
    PROVE  /\ MinuteOf(t) \in 0 .. MinutesPerDay - 1
           /\ Position(t, CalcNextDay(t)) = MinuteOf(t)
<1>. DEFINE S == SecondsPerDay
            M == SecondsPerMinute
            D == S \div M
            r == t % S
            m == r \div M
<1>0. S \in Nat /\ S > 0 /\ M \in Nat /\ M > 0 /\ S % M = 0
  BY DaysAssumption
<1>1. r \in 0 .. S - 1
  BY <1>0, SMT
<1>2. D \in Int /\ S = M * D
  BY <1>0, SMT
<1>3. m \in Int /\ r % M \in 0 .. M - 1 /\ r = M * m + (r % M)
  <2>. HIDE DEF r
  <2>. QED BY <1>0, <1>1, SMT
<1>4. m >= 0
  <2>1. m < 0 => M * m <= -M
    <3>1. m < 0 => M * (-m) >= M * 1
      <4>. HIDE DEF m
      <4>. QED BY <1>0, <1>3, SMT
    <3>. HIDE DEF m
    <3>. QED BY <1>0, <1>3, <3>1, SMT
  <2>. HIDE DEF m, r
  <2>2. M * m \in Int
    BY <1>0, <1>3
  <2>. QED BY <1>0, <1>1, <1>3, <2>1, <2>2
<1>5. m < D
  <2>. HIDE DEF m, r, D
  <2>1. m >= D => M * (m - D) >= 0
    BY <1>0, <1>2, <1>3, SMT
  <2>2. M * (m - D) = M * m - M * D /\ M * m \in Int /\ M * D \in Int
    BY <1>0, <1>2, <1>3, SMT
  <2>. QED BY <1>0, <1>1, <1>2, <1>3, <2>1, <2>2
<1>6. CalcNextDay(t) - S = t - r /\ ~(t < t - r) /\ t - (t - r) = r
  <2>. HIDE DEF r
  <2>. QED BY <1>0, <1>1 DEF CalcNextDay, r
<1>. HIDE DEF r
<1>7. Position(t, CalcNextDay(t)) = m
  BY <1>6 DEF Position
<1>. HIDE DEF m, D
<1>. QED BY <1>2, <1>3, <1>4, <1>5, <1>7 DEF MinuteOf, MinutesPerDay, m, r, D

-----------------------------------------------------------------------------
(* Numbers in ascending order *)

Rank(S, n) == Cardinality({k \in S : k < n})

LEMMA RankType ==
    ASSUME NEW S \in SUBSET Int, IsFiniteSet(S), NEW n \in S
    PROVE  /\ Cardinality(S) \in Nat
           /\ Rank(S, n) \in 0 .. Cardinality(S) - 1 /\ Rank(S, n) \in Int
           /\ Rank(S, n) + 1 \in 1 .. Cardinality(S)
           /\ IsFiniteSet({k \in S : k < n} \cup {n})
           /\ Cardinality({k \in S : k < n} \cup {n}) = Rank(S, n) + 1
<1>. DEFINE below == {k \in S : k < n}
<1>1. below \in SUBSET S /\ below \cup {n} \in SUBSET S /\ n \notin below
  OBVIOUS
<1>2. Rank(S, n) = Cardinality(below)
  BY DEF Rank
<1>. HIDE DEF below
<1>3. Cardinality(S) \in Nat
  BY FS_CardinalityType
<1>4. IsFiniteSet(below) /\ Cardinality(below) \in Nat
  BY <1>1, FS_Subset, FS_CardinalityType
<1>5. IsFiniteSet(below \cup {n}) /\ Cardinality(below \cup {n}) = Cardinality(below) + 1
  BY <1>1, <1>4, FS_AddElement
<1>6. Cardinality(below \cup {n}) <= Cardinality(S)
  BY <1>1, FS_Subset
<1>7. /\ Rank(S, n) \in 0 .. Cardinality(S) - 1 /\ Rank(S, n) \in Int
      /\ Rank(S, n) + 1 \in 1 .. Cardinality(S)
  BY <1>2, <1>3, <1>4, <1>5, <1>6
<1>. QED BY <1>2, <1>3, <1>5, <1>7 DEF below

LEMMA RankOrder ==
    ASSUME NEW S \in SUBSET Int, IsFiniteSet(S), NEW n \in S, NEW m \in S, n < m
    PROVE  Rank(S, n) < Rank(S, m)
<1>. DEFINE below(x) == {k \in S : k < x}
<1>0. Rank(S, n) \in Int /\ Rank(S, m) \in Int
  BY RankType
<1>1. below(n) \cup {n} \in SUBSET below(m)
  <2>1. \A k \in S : k \in Int
    OBVIOUS
  <2>2. \A k \in S : k < n => k < m
    BY <2>1
  <2>. QED BY <2>2
<1>2. Cardinality(below(n) \cup {n}) = Rank(S, n) + 1 /\ IsFiniteSet(below(m) \cup {m})
  BY RankType
<1>3. Rank(S, m) = Cardinality(below(m)) /\ below(m) \in SUBSET (below(m) \cup {m})
  BY DEF Rank
<1>. HIDE DEF below
<1>5. IsFiniteSet(below(m))
  BY <1>2, <1>3, FS_Subset
<1>6. Cardinality(below(n) \cup {n}) <= Cardinality(below(m))
  BY <1>1, <1>5, FS_Subset
<1>. QED BY <1>0, <1>2, <1>3, <1>6

LEMMA RankUnique ==
    ASSUME NEW S \in SUBSET Int, IsFiniteSet(S), NEW n \in S, NEW m \in S,
           Rank(S, n) = Rank(S, m)
    PROVE  n = m
<1>1. n \in Int /\ m \in Int /\ Rank(S, n) \in Int /\ Rank(S, m) \in Int
  BY RankType
<1>2. n < m => Rank(S, n) < Rank(S, m)
  BY RankOrder
<1>3. m < n => Rank(S, m) < Rank(S, n)
  BY RankOrder
<1>. QED BY <1>1, <1>2, <1>3

\* Each place has the element of its rank, because there are as many ranks as
\* elements.
LEMMA AscendingElements ==
    ASSUME NEW S \in SUBSET Int, IsFiniteSet(S), NEW i \in 1 .. Cardinality(S)
    PROVE  Ascending(S)[i] \in S /\ Rank(S, Ascending(S)[i]) = i - 1
<1>. DEFINE ranks == 0 .. Cardinality(S) - 1
            rank == [n \in S |-> Rank(S, n)]
<1>1. Cardinality(S) \in Nat
  BY FS_CardinalityType
<1>2. rank \in Injection(S, ranks)
  <2>1. rank \in [S -> ranks]
    BY RankType
  <2>2. ASSUME NEW n \in S, NEW m \in S, rank[n] = rank[m]
        PROVE  n = m
    BY <2>2, RankUnique
  <2>. HIDE DEF rank
  <2>. QED BY <2>1, <2>2 DEF Injection, IsInjective
<1>3. IsFiniteSet(ranks) /\ Cardinality(ranks) = Cardinality(S)
  <2>1. 0 \in Int /\ Cardinality(S) - 1 \in Int
    BY <1>1
  <2>2. /\ IsFiniteSet(ranks)
        /\ Cardinality(ranks) =
              IF 0 > Cardinality(S) - 1 THEN 0 ELSE Cardinality(S) - 1 - 0 + 1
    BY <2>1, FS_Interval
  <2>. HIDE DEF ranks
  <2>. QED BY <1>1, <2>2
<1>4. rank \in Surjection(S, ranks)
  <2>. HIDE DEF rank, ranks
  <2>. QED BY <1>2, <1>3, FS_Injection
<1>5. \E n \in S : Rank(S, n) = i - 1
  <2>1. i - 1 \in ranks
    BY <1>1
  <2>2. PICK n \in S : rank[n] = i - 1
    <3>. HIDE DEF rank, ranks
    <3>. QED BY <1>4, <2>1 DEF Surjection
  <2>. QED BY <2>2
<1>6. Ascending(S)[i] = CHOOSE n \in S : Rank(S, n) = i - 1
  BY DEF Ascending, Rank
<1>. QED BY <1>5, <1>6

LEMMA AscendingPlaces ==
    ASSUME NEW S \in SUBSET Int, IsFiniteSet(S), NEW n \in S
    PROVE  Rank(S, n) + 1 \in 1 .. Cardinality(S) /\ Ascending(S)[Rank(S, n) + 1] = n
<1>. DEFINE i == Rank(S, n) + 1
<1>1. Rank(S, n) \in Int /\ i \in 1 .. Cardinality(S)
  BY RankType
<1>2. i - 1 = Rank(S, n)
  BY <1>1
<1>. HIDE DEF i
<1>3. Ascending(S)[i] \in S /\ Rank(S, Ascending(S)[i]) = Rank(S, n)
  BY <1>1, <1>2, AscendingElements
<1>4. Ascending(S)[i] = n
  <2>. DEFINE m == Ascending(S)[i]
  <2>1. m \in S /\ Rank(S, m) = Rank(S, n)
    BY <1>3
  <2>. HIDE DEF m
  <2>2. m = n
    BY <2>1, RankUnique
  <2>. QED BY <2>2 DEF m
<1>. QED BY <1>1, <1>4 DEF i

\* Neighbours: nothing is between them.
LEMMA AscendingNeighbours ==
    ASSUME NEW S \in SUBSET Int, IsFiniteSet(S), NEW i \in 2 .. Cardinality(S)
    PROVE  /\ Ascending(S)[i - 1] < Ascending(S)[i]
           /\ \A n \in S : n <= Ascending(S)[i - 1] \/ n >= Ascending(S)[i]
<1>. DEFINE a == Ascending(S)[i - 1]
            b == Ascending(S)[i]
<1>1. i \in 1 .. Cardinality(S) /\ i - 1 \in 1 .. Cardinality(S)
  BY RankType, FS_CardinalityType
<1>2. a \in S /\ b \in S /\ Rank(S, a) = i - 2 /\ Rank(S, b) = i - 1
  BY <1>1, AscendingElements
<1>. HIDE DEF a, b
<1>3. ASSUME NEW n \in S, NEW m \in S, n < m
      PROVE  Rank(S, n) < Rank(S, m)
  BY <1>3, RankOrder
<1>4. \A n \in S : n \in Int /\ Rank(S, n) \in Int
  BY RankType
<1>5. a < b
  BY <1>2, <1>3, <1>4
<1>6. ASSUME NEW n \in S, ~(n <= a), ~(n >= b)
      PROVE  FALSE
  <2>1. a < n /\ n < b
    BY <1>2, <1>4, <1>6
  <2>. QED BY <1>2, <1>3, <1>4, <2>1
<1>. QED BY <1>5, <1>6 DEF a, b

-----------------------------------------------------------------------------
(* The loop *)

\* The series the theorem is about: times are integers, and finitely many.
Series(readings) ==
    DOMAIN readings \in SUBSET Int /\ IsFiniteSet(DOMAIN readings) /\ DOMAIN readings # {}

First(readings) ==
    [rows |-> <<>>, day |-> EmptyDay, nextDay |-> CalcNextDay(InOrder(readings)[1])]

Round(readings, state, i) ==
    AddReading(state, InOrder(readings)[i], readings[InOrder(readings)[i]])

LEMMA RoundsExist ==
    ASSUME NEW readings, NEW n \in Nat
    PROVE  \E f : f = [i \in 0 .. n |-> IF i = 0 THEN First(readings)
                                        ELSE Round(readings, f[i - 1], i)]
<1>. DEFINE Loop(f, k) == f = [i \in 0 .. k |-> IF i = 0 THEN First(readings)
                                                ELSE Round(readings, f[i - 1], i)]
            S == {k \in Nat : \E f : Loop(f, k)}
<1>1. 0 \in S
  <2>. DEFINE f == [i \in 0 .. 0 |-> First(readings)]
  <2>1. Loop(f, 0)
    OBVIOUS
  <2>. QED BY <2>1
<1>2. ASSUME NEW k \in 1 .. n, k - 1 \in S
      PROVE  k \in S
  <2>1. PICK g : Loop(g, k - 1)
    BY <1>2
  <2>. DEFINE f == [i \in 0 .. k |-> IF i = 0 THEN First(readings)
                                     ELSE Round(readings, g[i - 1], i)]
  <2>2. ASSUME NEW i \in 0 .. k - 1
        PROVE  f[i] = g[i]
    <3>1. g[i] = IF i = 0 THEN First(readings) ELSE Round(readings, g[i - 1], i)
      BY <2>1
    <3>2. i \in 0 .. k
      OBVIOUS
    <3>. QED BY <3>1, <3>2
  <2>3. ASSUME NEW i \in 0 .. k
        PROVE  f[i] = IF i = 0 THEN First(readings) ELSE Round(readings, f[i - 1], i)
    <3>1. i # 0 => i - 1 \in 0 .. k - 1
      OBVIOUS
    <3>2. i # 0 => f[i - 1] = g[i - 1]
      BY <3>1, <2>2
    <3>3. f[i] = IF i = 0 THEN First(readings) ELSE Round(readings, g[i - 1], i)
      OBVIOUS
    <3>. HIDE DEF f
    <3>. QED BY <3>2, <3>3
  <2>4. DOMAIN f = 0 .. k /\ f = [i \in 0 .. k |-> f[i]]
    OBVIOUS
  <2>. HIDE DEF f
  <2>5. Loop(f, k)
    BY <2>3, <2>4
  <2>. QED BY <2>5
<1>. HIDE DEF S
<1>3. n \in S
  BY <1>1, <1>2, InductionUpTo
<1>. QED BY <1>3 DEF S

\* The loop meets its equation.
LEMMA RoundsAre ==
    ASSUME NEW readings, Series(readings)
    PROVE  /\ Cardinality(DOMAIN readings) \in Nat \ {0}
           /\ Rounds(readings)[0] = First(readings)
           /\ \A i \in 1 .. Cardinality(DOMAIN readings) :
                 Rounds(readings)[i] = Round(readings, Rounds(readings)[i - 1], i)
<1>. DEFINE n == Cardinality(DOMAIN readings)
            f == Rounds(readings)
            Loop(g) == g = [i \in 0 .. n |-> IF i = 0 THEN First(readings)
                                             ELSE Round(readings, g[i - 1], i)]
<1>1. n \in Nat \ {0}
  BY FS_CardinalityType, FS_EmptySet DEF Series
<1>2. f = CHOOSE g : Loop(g)
  BY DEF Rounds, First, Round
<1>3. \E g : Loop(g)
  <2>1. n \in Nat
    BY <1>1
  <2>. HIDE DEF n
  <2>. QED BY <2>1, RoundsExist
<1>4. f = [i \in 0 .. n |-> IF i = 0 THEN First(readings) ELSE Round(readings, f[i - 1], i)]
  <2>1. Loop(f)
    <3>. HIDE DEF Loop, f
    <3>. QED BY <1>2, <1>3
  <2>. HIDE DEF f
  <2>. QED BY <2>1
<1>. HIDE DEF n, f
<1>5. 0 \in 0 .. n /\ \A i \in 1 .. n : i \in 0 .. n /\ i # 0
  BY <1>1
<1>. QED BY <1>1, <1>4, <1>5 DEF n, f

Row(readings, d) == [m \in 0 .. MinutesPerDay - 1 |-> Shown(readings, d, m)]

\* The row with the readings up to t.
RowUntil(readings, d, t) ==
    [m \in 0 .. MinutesPerDay - 1 |->
        IF \E u \in DOMAIN readings : u <= t /\ DayOf(u) = d /\ MinuteOf(u) = m
        THEN Shown(readings, d, m) ELSE 0]

\* A reading finds its minute empty.
LEMMA MinuteWritten ==
    ASSUME NEW readings, Series(readings), Plain(readings), NEW u \in DOMAIN readings,
           NEW t \in Int, t < u, \A v \in DOMAIN readings : v <= t \/ v >= u
    PROVE  WriteValue(RowUntil(readings, DayOf(u), t), MinuteOf(u), readings[u])
             = RowUntil(readings, DayOf(u), u)
<1>. DEFINE d == DayOf(u)
            day == RowUntil(readings, d, t)
            after == RowUntil(readings, d, u)
            minute == MinuteOf(u)
            Until(x, m) == \E v \in DOMAIN readings : v <= x /\ DayOf(v) = d /\ MinuteOf(v) = m
<1>1. u \in Int /\ minute \in 0 .. MinutesPerDay - 1 /\ \A v \in DOMAIN readings : v \in Int
  BY MinutesFit DEF Series
<1>2. \A v \in DOMAIN readings : DayOf(v) = d /\ MinuteOf(v) = minute => v = u
  BY DEF Plain
<1>3. Shown(readings, d, minute) = readings[u]
  <2>. DEFINE found == {v \in DOMAIN readings : DayOf(v) = d /\ MinuteOf(v) = minute}
  <2>1. found = {u}
    BY <1>2
  <2>2. (CHOOSE v \in found : TRUE) = u /\ found # {}
    <3>. HIDE DEF found
    <3>. QED BY <2>1
  <2>3. Shown(readings, d, minute) = IF found = {} THEN 0 ELSE readings[CHOOSE v \in found : TRUE]
    BY DEF Shown
  <2>. HIDE DEF found
  <2>. QED BY <2>2, <2>3
<1>4. ~Until(t, minute) /\ Until(u, minute)
  BY <1>1, <1>2
<1>5. ASSUME NEW m, m # minute
      PROVE  Until(t, m) <=> Until(u, m)
  <2>1. \A v \in DOMAIN readings : v <= u /\ v # u => v <= t
    BY <1>1
  <2>2. \A v \in DOMAIN readings : v <= t => v <= u
    BY <1>1
  <2>. QED BY <1>5, <2>1, <2>2
<1>6. /\ day = [m \in 0 .. MinutesPerDay - 1 |-> IF Until(t, m) THEN Shown(readings, d, m) ELSE 0]
      /\ after = [m \in 0 .. MinutesPerDay - 1 |-> IF Until(u, m) THEN Shown(readings, d, m) ELSE 0]
  BY DEF RowUntil
<1>. HIDE DEF Until, day, after, minute, d
<1>7. day[minute] = 0
  BY <1>1, <1>4, <1>6
<1>8. WriteValue(day, minute, readings[u]) = [day EXCEPT ![minute] = readings[u]]
  BY <1>7 DEF WriteValue
<1>9. [day EXCEPT ![minute] = readings[u]] = after
  <2>1. \A m \in 0 .. MinutesPerDay - 1 :
           after[m] = IF m = minute THEN readings[u] ELSE day[m]
    BY <1>3, <1>4, <1>5, <1>6
  <2>. QED BY <1>1, <1>6, <2>1
<1>. QED BY <1>8, <1>9 DEF day, after, minute, d

DayNumbers(readings) == {DayOf(t) : t \in DOMAIN readings}

LEMMA DayNumbersFinite ==
    ASSUME NEW readings, Series(readings)
    PROVE  /\ DayNumbers(readings) \in SUBSET Int /\ IsFiniteSet(DayNumbers(readings))
           /\ Days(readings) = Ascending(DayNumbers(readings))
<1>. DEFINE T == DOMAIN readings
            f == [t \in T |-> DayOf(t)]
<1>1. IsFiniteSet(T) /\ \A t \in T : DayOf(t) \in Int
  BY DaysInOrder DEF Series
<1>2. f \in Surjection(T, DayNumbers(readings))
  <2>1. f \in [T -> DayNumbers(readings)]
    BY DEF DayNumbers
  <2>2. \A d \in DayNumbers(readings) : \E t \in T : f[t] = d
    BY DEF DayNumbers
  <2>. HIDE DEF f, T
  <2>. QED BY <2>1, <2>2 DEF Surjection
<1>3. DayNumbers(readings) \in SUBSET Int
  BY <1>1 DEF DayNumbers
<1>4. IsFiniteSet(DayNumbers(readings))
  <2>. HIDE DEF f, T
  <2>. QED BY <1>1, <1>2, FS_Surjection
<1>5. Days(readings) = Ascending(DayNumbers(readings))
  BY DEF Days, DayNumbers
<1>. QED BY <1>3, <1>4, <1>5

RowsBefore(readings, d) ==
    [r \in 1 .. Rank(DayNumbers(readings), d) |-> Row(readings, Days(readings)[r])]

\* What there is after the round of the reading at t.
Written(readings, state, t) ==
    state = [rows    |-> RowsBefore(readings, DayOf(t)),
             day     |-> RowUntil(readings, DayOf(t), t),
             nextDay |-> CalcNextDay(t)]

\* A row nothing was written to yet, and one that is complete.
LEMMA RowsBeginAndEnd ==
    ASSUME NEW readings, Series(readings), NEW d, NEW t \in Int
    PROVE  /\ (\A v \in DOMAIN readings : DayOf(v) = d => ~(v <= t))
                 => RowUntil(readings, d, t) = EmptyDay
           /\ (\A v \in DOMAIN readings : DayOf(v) = d => v <= t)
                 => RowUntil(readings, d, t) = Row(readings, d)
<1>1. ASSUME \A v \in DOMAIN readings : DayOf(v) = d => ~(v <= t)
      PROVE  RowUntil(readings, d, t) = EmptyDay
  BY <1>1 DEF RowUntil, EmptyDay
<1>2. ASSUME \A v \in DOMAIN readings : DayOf(v) = d => v <= t,
             NEW m \in 0 .. MinutesPerDay - 1
      PROVE  (IF \E u \in DOMAIN readings : u <= t /\ DayOf(u) = d /\ MinuteOf(u) = m
              THEN Shown(readings, d, m) ELSE 0) = Shown(readings, d, m)
  <2>1. CASE \E u \in DOMAIN readings : DayOf(u) = d /\ MinuteOf(u) = m
    BY <1>2, <2>1
  <2>2. CASE ~\E u \in DOMAIN readings : DayOf(u) = d /\ MinuteOf(u) = m
    <3>1. {u \in DOMAIN readings : DayOf(u) = d /\ MinuteOf(u) = m} = {}
      BY <2>2
    <3>. QED BY <2>2, <3>1 DEF Shown
  <2>. QED BY <2>1, <2>2
<1>. QED BY <1>1, <1>2 DEF RowUntil, Row

\* A round writes into the row it has.
LEMMA RoundWrites ==
    ASSUME NEW readings, Series(readings), Plain(readings), NEW u \in DOMAIN readings,
           NEW t \in Int, t < u, \A v \in DOMAIN readings : v <= t \/ v >= u,
           NEW rows
    PROVE  LET row == [rows |-> rows, day |-> RowUntil(readings, DayOf(u), t),
                       nextDay |-> CalcNextDay(u)]
           IN [row EXCEPT !.day = WriteValue(@, Position(u, row.nextDay), readings[u])]
                = [rows |-> rows, day |-> RowUntil(readings, DayOf(u), u),
                   nextDay |-> CalcNextDay(u)]
<1>1. WriteValue(RowUntil(readings, DayOf(u), t), MinuteOf(u), readings[u])
        = RowUntil(readings, DayOf(u), u)
  BY MinuteWritten
<1>2. Position(u, CalcNextDay(u)) = MinuteOf(u)
  BY MinutesFit DEF Series
<1>. QED BY <1>1, <1>2

\* The first round.
LEMMA FirstRound ==
    ASSUME NEW readings, Series(readings), Plain(readings), NEW t \in DOMAIN readings,
           \A v \in DOMAIN readings : v >= t
    PROVE  Written(readings,
                   AddReading([rows |-> <<>>, day |-> EmptyDay, nextDay |-> CalcNextDay(t)],
                              t, readings[t]), t)
<1>. DEFINE d == DayOf(t)
            state == [rows |-> <<>>, day |-> RowUntil(readings, d, t - 1),
                      nextDay |-> CalcNextDay(t)]
<1>1. /\ t \in Int /\ t - 1 \in Int /\ t - 1 < t /\ t < CalcNextDay(t) /\ CalcNextDay(t) \in Int
      /\ \A v \in DOMAIN readings : v \in Int /\ ~(v <= t - 1) /\ d <= DayOf(v) /\ DayOf(v) \in Int
  <2>1. t \in Int /\ \A v \in DOMAIN readings : v \in Int /\ v >= t
    BY DEF Series
  <2>. QED BY <2>1, DaysInOrder
<1>2. RowUntil(readings, d, t - 1) = EmptyDay
  BY <1>1, RowsBeginAndEnd
<1>3. RowsBefore(readings, d) = <<>>
  <2>1. {k \in DayNumbers(readings) : k < d} = {}
    BY <1>1, DaysInOrder DEF DayNumbers
  <2>2. Rank(DayNumbers(readings), d) = 0
    BY <2>1, FS_EmptySet DEF Rank
  <2>. QED BY <2>2 DEF RowsBefore
<1>4. AddReading(state, t, readings[t])
        = [state EXCEPT !.day = WriteValue(@, Position(t, state.nextDay), readings[t])]
  BY <1>1 DEF AddReading
<1>5. [state EXCEPT !.day = WriteValue(@, Position(t, state.nextDay), readings[t])]
        = [rows |-> <<>>, day |-> RowUntil(readings, d, t), nextDay |-> CalcNextDay(t)]
  BY <1>1, RoundWrites
<1>. QED BY <1>2, <1>3, <1>4, <1>5 DEF Written

\* A row that goes on.
LEMMA NextRoundOfDay ==
    ASSUME NEW readings, Series(readings), Plain(readings),
           NEW t \in DOMAIN readings, NEW u \in DOMAIN readings,
           t < u, \A v \in DOMAIN readings : v <= t \/ v >= u,
           DayOf(t) = DayOf(u), NEW state, Written(readings, state, t)
    PROVE  Written(readings, AddReading(state, u, readings[u]), u)
<1>. DEFINE d == DayOf(u)
            row == [rows |-> RowsBefore(readings, d), day |-> RowUntil(readings, d, t),
                    nextDay |-> CalcNextDay(u)]
<1>1. t \in Int /\ u \in Int
  BY DEF Series
<1>2. /\ CalcNextDay(t) = CalcNextDay(u) /\ CalcNextDay(u) \in Int
      /\ ~(u >= CalcNextDay(u))
  BY <1>1, DaysInOrder
<1>3. state = row
  BY <1>2 DEF Written
<1>4. AddReading(row, u, readings[u])
        = [row EXCEPT !.day = WriteValue(@, Position(u, row.nextDay), readings[u])]
  BY <1>2 DEF AddReading
<1>5. [row EXCEPT !.day = WriteValue(@, Position(u, row.nextDay), readings[u])]
        = [rows |-> RowsBefore(readings, d), day |-> RowUntil(readings, d, u),
           nextDay |-> CalcNextDay(u)]
  BY <1>1, RoundWrites
<1>. QED BY <1>3, <1>4, <1>5 DEF Written

\* The rows with the one that is finished.
LEMMA RowAppended ==
    ASSUME NEW readings, Series(readings), NEW d \in DayNumbers(readings)
    PROVE  Append(RowsBefore(readings, d), Row(readings, d))
             = [r \in 1 .. Rank(DayNumbers(readings), d) + 1 |->
                   Row(readings, Days(readings)[r])]
<1>. DEFINE D == DayNumbers(readings)
            k == Rank(D, d)
            rows == [r \in 1 .. k |-> Row(readings, Days(readings)[r])]
            more == [r \in 1 .. k + 1 |-> Row(readings, Days(readings)[r])]
            V == {Row(readings, Days(readings)[r]) : r \in 1 .. k + 1}
<1>1. D \in SUBSET Int /\ IsFiniteSet(D) /\ Days(readings) = Ascending(D)
  BY DayNumbersFinite
<1>2. k \in Nat /\ Days(readings)[k + 1] = d
  <2>1. d \in D
    OBVIOUS
  <2>. HIDE DEF D
  <2>2. Rank(D, d) \in 0 .. Cardinality(D) - 1 /\ Cardinality(D) \in Nat
    BY <1>1, <2>1, RankType
  <2>3. Ascending(D)[Rank(D, d) + 1] = d
    BY <1>1, <2>1, AscendingPlaces
  <2>. QED BY <1>1, <2>2, <2>3
<1>. HIDE DEF k, D
<1>3. rows \in Seq(V) /\ Len(rows) = k /\ more \in Seq(V) /\ Len(more) = k + 1
  <2>1. rows \in [1 .. k -> V] /\ more \in [1 .. k + 1 -> V]
    BY <1>2
  <2>. HIDE DEF V
  <2>. QED BY <1>2, <2>1
<1>4. Row(readings, d) \in V
  BY <1>2
<1>5. Append(rows, Row(readings, d)) = more
  <2>. DEFINE app == Append(rows, Row(readings, d))
  <2>1. app \in Seq(V) /\ Len(app) = k + 1
    <3>. HIDE DEF rows, V
    <3>. QED BY <1>2, <1>3, <1>4
  <2>2. ASSUME NEW r \in 1 .. k + 1
        PROVE  app[r] = more[r]
    <3>1. CASE r = k + 1
      <4>1. app[r] = Row(readings, d)
        <5>. HIDE DEF rows, V
        <5>. QED BY <1>2, <1>3, <1>4, <3>1
      <4>. QED BY <1>2, <3>1, <4>1
    <3>2. CASE r # k + 1
      <4>1. r \in 1 .. k
        BY <1>2, <3>2
      <4>2. app[r] = rows[r]
        <5>. HIDE DEF rows, V
        <5>. QED BY <1>2, <1>3, <1>4, <4>1
      <4>. QED BY <4>1, <4>2
    <3>. QED BY <3>1, <3>2
  <2>. HIDE DEF app, more, V
  <2>3. app \in [1 .. k + 1 -> V] /\ more \in [1 .. k + 1 -> V]
    BY <1>2, <1>3, <2>1
  <2>4. app = [r \in 1 .. k + 1 |-> app[r]] /\ more = [r \in 1 .. k + 1 |-> more[r]]
    BY <2>3
  <2>5. app = more
    BY <2>2, <2>4
  <2>. QED BY <2>5 DEF app
<1>. QED BY <1>5 DEF RowsBefore, k, D

\* A new row.
LEMMA FirstRoundOfDay ==
    ASSUME NEW readings, Series(readings), Plain(readings),
           NEW t \in DOMAIN readings, NEW u \in DOMAIN readings,
           t < u, \A v \in DOMAIN readings : v <= t \/ v >= u,
           DayOf(t) # DayOf(u), NEW state, Written(readings, state, t)
    PROVE  Written(readings, AddReading(state, u, readings[u]), u)
<1>. DEFINE D == DayNumbers(readings)
            d == DayOf(u)
            e == DayOf(t)
            row == [rows |-> RowsBefore(readings, d), day |-> RowUntil(readings, d, t),
                    nextDay |-> CalcNextDay(u)]
<1>0. D \in SUBSET Int /\ IsFiniteSet(D) /\ d \in D /\ e \in D
  BY DayNumbersFinite DEF DayNumbers
<1>1. /\ t \in Int /\ u \in Int /\ d \in Int /\ e \in Int /\ e < d
      /\ u >= CalcNextDay(t) /\ CalcNextDay(u) \in Int
  <2>1. t \in Int /\ u \in Int
    BY DEF Series
  <2>2. /\ d \in Int /\ e \in Int /\ CalcNextDay(u) \in Int
        /\ e <= d /\ (u >= CalcNextDay(t) <=> e < d)
    BY <2>1, DaysInOrder
  <2>3. e # d
    OBVIOUS
  <2>. HIDE DEF d, e
  <2>. QED BY <2>1, <2>2, <2>3
<1>2. /\ \A v \in DOMAIN readings : DayOf(v) = d => ~(v <= t) /\ ~(v < u)
      /\ \A v \in DOMAIN readings : DayOf(v) = e => v <= t
      /\ \A k \in D : k <= e \/ k >= d
  <2>1. ASSUME NEW v \in DOMAIN readings
        PROVE  /\ v \in Int /\ DayOf(v) \in Int
               /\ v <= t => DayOf(v) <= e
               /\ v >= u => DayOf(v) >= d
    <3>1. v \in Int
      BY DEF Series
    <3>. QED BY <1>1, <3>1, DaysInOrder
  <2>2. ASSUME NEW v \in DOMAIN readings
        PROVE  /\ DayOf(v) = d => ~(v <= t) /\ ~(v < u)
               /\ DayOf(v) = e => v <= t
               /\ DayOf(v) <= e \/ DayOf(v) >= d
    <3>. HIDE DEF d, e
    <3>. QED BY <1>1, <2>1
  <2>. QED BY <2>2 DEF DayNumbers
<1>3. RowUntil(readings, e, t) = Row(readings, e) /\ RowUntil(readings, d, t) = EmptyDay
  BY <1>1, <1>2, RowsBeginAndEnd
<1>4. CalcNextDay(u + 1) = CalcNextDay(u)
  <2>1. \E v \in DOMAIN readings : DayOf(v) < DayOf(u)
    BY <1>1
  <2>2. ~\E v \in DOMAIN readings : v < u /\ DayOf(v) = DayOf(u)
    BY <1>2
  <2>3. u % SecondsPerDay # SecondsPerDay - 1
    BY <2>1, <2>2 DEF Plain
  <2>. QED BY <1>1, <2>3, DaysInOrder
<1>5. Rank(D, d) = Rank(D, e) + 1
  <2>1. {k \in D : k < d} = {k \in D : k < e} \cup {e}
    <3>. HIDE DEF D, d, e
    <3>1. \A k \in D : k \in Int
      BY <1>0
    <3>2. \A k \in D : k < d <=> k < e \/ k = e
      BY <1>1, <1>2, <3>1
    <3>. QED BY <1>0, <3>2
  <2>. HIDE DEF D, d, e
  <2>2. Cardinality({k \in D : k < e} \cup {e}) = Rank(D, e) + 1
    BY <1>0, RankType
  <2>. QED BY <2>1, <2>2 DEF Rank
<1>6. Append(RowsBefore(readings, e), Row(readings, e)) = RowsBefore(readings, d)
  <2>1. Append(RowsBefore(readings, e), Row(readings, e))
          = [r \in 1 .. Rank(D, e) + 1 |-> Row(readings, Days(readings)[r])]
    BY <1>0, RowAppended
  <2>. QED BY <1>5, <2>1 DEF RowsBefore
<1>7. NextRow(state, u) = row
  <2>1. /\ state.rows = RowsBefore(readings, e) /\ state.day = Row(readings, e)
        /\ state.nextDay = CalcNextDay(t)
    BY <1>3 DEF Written
  <2>. QED BY <1>3, <1>4, <1>6, <2>1 DEF NextRow
<1>8. AddReading(state, u, readings[u])
        = [row EXCEPT !.day = WriteValue(@, Position(u, row.nextDay), readings[u])]
  <2>1. u >= state.nextDay
    BY <1>1 DEF Written
  <2>. HIDE DEF row
  <2>. QED BY <1>7, <2>1 DEF AddReading
<1>9. [row EXCEPT !.day = WriteValue(@, Position(u, row.nextDay), readings[u])]
        = [rows |-> RowsBefore(readings, d), day |-> RowUntil(readings, d, u),
           nextDay |-> CalcNextDay(u)]
  BY <1>1, RoundWrites
<1>. QED BY <1>8, <1>9 DEF Written

\* Every round.
LEMMA EachRound ==
    ASSUME NEW readings, Series(readings), Plain(readings),
           NEW i \in 1 .. Cardinality(DOMAIN readings)
    PROVE  Written(readings, Rounds(readings)[i], InOrder(readings)[i])
<1>. DEFINE T == DOMAIN readings
            n == Cardinality(T)
            time(k) == InOrder(readings)[k]
            S == {k \in Nat : k \in 1 .. n => Written(readings, Rounds(readings)[k], time(k))}
<1>1. /\ T \in SUBSET Int /\ IsFiniteSet(T) /\ n \in Nat \ {0}
      /\ \A k \in 1 .. n : time(k) = Ascending(T)[k]
  BY RoundsAre DEF Series, InOrder
<1>2. \A k \in 1 .. n : time(k) \in T /\ Rank(T, time(k)) = k - 1
  <2>. HIDE DEF T
  <2>. QED BY <1>1, AscendingElements
<1>3. ASSUME 1 \in 1 .. n
      PROVE  Written(readings, Rounds(readings)[1], time(1))
  <2>1. Rounds(readings)[1] = Round(readings, First(readings), 1)
    BY <1>3, RoundsAre
  <2>2. time(1) \in T /\ Rank(T, time(1)) = 0
    BY <1>2, <1>3
  <2>3. \A v \in T : v >= time(1)
    <3>1. ASSUME NEW v \in T, ~(v >= time(1))
          PROVE  FALSE
      <4>. HIDE DEF T, time
      <4>1. v < time(1)
        <5>. DEFINE t == time(1)
        <5>1. v \in Int /\ t \in Int /\ ~(v >= t)
          BY <1>1, <2>2, <3>1
        <5>. HIDE DEF t
        <5>2. v < t
          BY <5>1
        <5>. QED BY <5>2 DEF t
      <4>2. Rank(T, v) < Rank(T, time(1))
        BY <1>1, <2>2, <4>1, RankOrder
      <4>3. Rank(T, v) \in 0 .. Cardinality(T) - 1
        BY <1>1, RankType
      <4>. HIDE DEF n
      <4>. QED BY <1>1, <2>2, <4>2, <4>3 DEF n
    <3>. QED BY <3>1
  <2>4. Written(readings,
                AddReading([rows |-> <<>>, day |-> EmptyDay, nextDay |-> CalcNextDay(time(1))],
                           time(1), readings[time(1)]), time(1))
    <3>. HIDE DEF time
    <3>. QED BY <2>2, <2>3, FirstRound
  <2>. QED BY <2>1, <2>4 DEF Round, First
<1>4. ASSUME NEW k \in 2 .. n, Written(readings, Rounds(readings)[k - 1], time(k - 1))
      PROVE  Written(readings, Rounds(readings)[k], time(k))
  <2>. DEFINE state == Rounds(readings)[k - 1]
              t == time(k - 1)
              u == time(k)
  <2>1. k \in 1 .. n /\ k - 1 \in 1 .. n
    BY <1>1
  <2>2. t \in T /\ u \in T /\ t < u /\ \A v \in T : v <= t \/ v >= u
    <3>1. t = Ascending(T)[k - 1] /\ u = Ascending(T)[k]
      BY <1>1, <2>1
    <3>. HIDE DEF T, t, u
    <3>2. t < u /\ \A v \in T : v <= t \/ v >= u
      BY <1>1, <3>1, AscendingNeighbours
    <3>. QED BY <1>2, <2>1, <3>2 DEF t, u
  <2>3. Rounds(readings)[k] = AddReading(state, u, readings[u])
    BY <2>1, RoundsAre DEF Round
  <2>4. Written(readings, state, t)
    BY <1>4
  <2>. HIDE DEF state, t, u, time
  <2>5. Written(readings, AddReading(state, u, readings[u]), u)
    BY <2>2, <2>4, NextRoundOfDay, FirstRoundOfDay
  <2>. QED BY <2>3, <2>5 DEF u
<1>. HIDE DEF T, time
<1>5. 0 \in S
  BY <1>1
<1>6. ASSUME NEW k \in 1 .. n, k - 1 \in S
      PROVE  k \in S
  <2>1. CASE k = 1
    BY <1>1, <1>3, <2>1
  <2>2. CASE k # 1
    <3>1. k \in 2 .. n /\ k - 1 \in 1 .. n
      BY <1>1, <2>2
    <3>. QED BY <1>4, <1>6, <3>1
  <2>. QED BY <2>1, <2>2
<1>. HIDE DEF S
<1>7. n \in S
  BY <1>1, <1>5, <1>6, InductionUpTo
<1>8. i \in S
  <2>1. i \in Nat /\ \A k \in 1 .. i : k \in 1 .. n
    BY <1>1 DEF T
  <2>. QED BY <1>5, <1>6, <2>1, InductionUpTo
<1>. QED BY <1>8 DEF S, T, time

\* The Octave exporter (octave-exporter.cpp: write_values_function) puts every
\* reading into its minute and its day, whatever the lengths of a day and of a
\* minute and whatever days are missing, if no two readings share a minute and no
\* day but the first begins with its last second.
THEOREM MatrixIsWritten ==
    ASSUME NEW readings, Series(readings), Plain(readings)
    PROVE  WriteValues(readings) = Matrix(readings)
<1>. DEFINE n == Cardinality(DOMAIN readings)
            D == DayNumbers(readings)
            t == InOrder(readings)[n]
            d == DayOf(t)
            last == Rounds(readings)[n]
<1>1. /\ DOMAIN readings \in SUBSET Int /\ IsFiniteSet(DOMAIN readings)
      /\ n \in Nat \ {0} /\ n \in 1 .. n
  <2>1. n \in Nat \ {0}
    BY RoundsAre
  <2>. HIDE DEF n
  <2>. QED BY <2>1 DEF Series
<1>2. Written(readings, last, t)
  BY <1>1, EachRound
<1>3. t \in DOMAIN readings /\ Rank(DOMAIN readings, t) = n - 1
  BY <1>1, AscendingElements DEF InOrder
<1>4. \A v \in DOMAIN readings : v \in Int /\ v <= t
  <2>1. ASSUME NEW v \in DOMAIN readings, ~(v <= t)
        PROVE  FALSE
    <3>. HIDE DEF t
    <3>1. t < v
      BY <1>1, <1>3, <2>1
    <3>2. Rank(DOMAIN readings, t) < Rank(DOMAIN readings, v)
      BY <1>1, <1>3, <3>1, RankOrder
    <3>3. Rank(DOMAIN readings, v) \in 0 .. n - 1
      BY <1>1, RankType
    <3>. HIDE DEF n
    <3>. QED BY <1>1, <1>3, <3>2, <3>3
  <2>. QED BY <1>1, <2>1
<1>. HIDE DEF t, n
<1>5. /\ D \in SUBSET Int /\ IsFiniteSet(D) /\ d \in D /\ Cardinality(D) \in Nat
      /\ Days(readings) = Ascending(D)
  BY <1>3, DayNumbersFinite, FS_CardinalityType DEF DayNumbers
<1>6. RowUntil(readings, d, t) = Row(readings, d)
  BY <1>3, <1>4, RowsBeginAndEnd
<1>7. Rank(D, d) + 1 = Cardinality(D)
  <2>1. \A k \in D : k \in Int /\ (k < d \/ k = d)
    <3>1. \A v \in DOMAIN readings : DayOf(v) \in Int /\ DayOf(v) <= d /\ d \in Int
      BY <1>3, <1>4, DaysInOrder
    <3>2. \A k \in D : k \in Int /\ k <= d /\ d \in Int
      <4>. HIDE DEF d
      <4>. QED BY <3>1 DEF DayNumbers
    <3>. HIDE DEF D, d
    <3>. QED BY <3>2
  <2>2. D = {k \in D : k < d} \cup {d}
    BY <1>5, <2>1
  <2>. HIDE DEF D, d
  <2>3. Cardinality({k \in D : k < d} \cup {d}) = Rank(D, d) + 1
    BY <1>5, RankType
  <2>. QED BY <2>2, <2>3
<1>8. DOMAIN Days(readings) = 1 .. Cardinality(D)
  BY <1>5 DEF Ascending
<1>9. Append(RowsBefore(readings, d), Row(readings, d)) = Matrix(readings)
  <2>1. Append(RowsBefore(readings, d), Row(readings, d))
          = [r \in 1 .. Rank(D, d) + 1 |-> Row(readings, Days(readings)[r])]
    BY <1>5, RowAppended
  <2>. QED BY <1>7, <1>8, <2>1 DEF Matrix, Row
<1>. QED BY <1>2, <1>6, <1>9 DEF WriteValues, Written, n
=============================================================================
