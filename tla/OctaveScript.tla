----------------------------- MODULE OctaveScript -----------------------------
(***************************************************************************)
(* The matrix of klio::OctaveExporter: one row per day, one value per      *)
(* minute of it, filled while the readings go by in the order of time.  A  *)
(* series is a partial function from times to values, 0 is what an element *)
(* has that nothing was written to.  The days of the model are shorter.    *)
(***************************************************************************)
EXTENDS Integers, Sequences, FiniteSets

CONSTANTS SecondsPerDay, SecondsPerMinute

ASSUME DaysAssumption ==
    /\ SecondsPerMinute \in Nat \ {0}
    /\ SecondsPerDay \in Nat \ {0}
    /\ SecondsPerDay % SecondsPerMinute = 0

MinutesPerDay == SecondsPerDay \div SecondsPerMinute

EmptyDay == [i \in 0 .. MinutesPerDay - 1 |-> 0]

CalcNextDay(ts) == ts + SecondsPerDay - (ts % SecondsPerDay)

\* The quotient of C: a time up to a minute before the day is in its minute 0.
Position(ts, nextDay) ==
    IF ts < nextDay - SecondsPerDay THEN 0
    ELSE (ts - (nextDay - SecondsPerDay)) \div SecondsPerMinute

\* A minute that has a value gets into the next one, which may be past the end
\* of the row: memory nobody reads in what follows.
WriteValue(day, position, val) ==
    IF day[position] = 0 THEN [day EXCEPT ![position] = val]
    ELSE IF position + 1 \in DOMAIN day THEN [day EXCEPT ![position + 1] = val]
    ELSE day

\* Mutant: the row of the day before goes on.
NextRowUncleared(state, ts) ==
    [state EXCEPT !.rows = Append(@, state.day), !.nextDay = CalcNextDay(ts + 1)]

\* The row is written out and the next one set up.
NextRow(state, ts) ==
    [rows    |-> Append(state.rows, state.day),
     day     |-> EmptyDay,
     nextDay |-> CalcNextDay(ts + 1)]

\* One round of the loop.
AddReading(state, ts, val) ==
    LET row == IF ts >= state.nextDay THEN NextRow(state, ts) ELSE state
    IN [row EXCEPT !.day = WriteValue(@, Position(ts, row.nextDay), val)]

\* Numbers in ascending order.
Ascending(S) ==
    [i \in 1 .. Cardinality(S) |-> CHOOSE n \in S : Cardinality({k \in S : k < n}) = i - 1]

\* The times of a series in the order of the map.
InOrder(readings) == Ascending(DOMAIN readings)

\* The loop of write_values_function: what there is after each of its rounds.
Rounds(readings) ==
    LET times == InOrder(readings)
        round[i \in 0 .. Cardinality(DOMAIN readings)] ==
            IF i = 0
            THEN [rows |-> <<>>, day |-> EmptyDay, nextDay |-> CalcNextDay(times[1])]
            ELSE AddReading(round[i - 1], times[i], readings[times[i]])
    IN round

\* write_values_function, of readings that are not empty.
WriteValues(readings) ==
    LET last == Rounds(readings)[Cardinality(DOMAIN readings)]
    IN Append(last.rows, last.day)

-----------------------------------------------------------------------------
(* What a script should show *)

DayOf(ts) == ts \div SecondsPerDay

MinuteOf(ts) == (ts % SecondsPerDay) \div SecondsPerMinute

\* No minute has two readings, and no day but the first begins in its last
\* second, which the loop files under the following day.
Plain(readings) ==
    /\ \A t, u \in DOMAIN readings :
          DayOf(t) = DayOf(u) /\ MinuteOf(t) = MinuteOf(u) => t = u
    /\ \A t \in DOMAIN readings :
          /\ t % SecondsPerDay = SecondsPerDay - 1
          /\ \E u \in DOMAIN readings : DayOf(u) < DayOf(t)
          => \E u \in DOMAIN readings : u < t /\ DayOf(u) = DayOf(t)

\* The days that have readings, in order.
Days(readings) == Ascending({DayOf(t) : t \in DOMAIN readings})

\* The value in a minute of a day.
Shown(readings, day, minute) ==
    LET found == {t \in DOMAIN readings : DayOf(t) = day /\ MinuteOf(t) = minute}
    IN IF found = {} THEN 0 ELSE readings[CHOOSE t \in found : TRUE]

Matrix(readings) ==
    [r \in DOMAIN Days(readings) |->
        [i \in 0 .. MinutesPerDay - 1 |-> Shown(readings, Days(readings)[r], i)]]
=============================================================================
