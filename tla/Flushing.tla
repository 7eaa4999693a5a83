------------------------------ MODULE Flushing ------------------------------
(***************************************************************************)
(* The loop of Store::flush over the readings one sensor has in memory, on *)
(* their way to any backend: one by one when they are few, else cut into   *)
(* bulks.  The readings are numbered in the order of time, as the map's    *)
(* iterator finds them.  What a backend does with a reading is left open,  *)
(* except that it may throw: then the flush ends, the readings stay in     *)
(* memory and the next flush starts with the first of them again.          *)
(***************************************************************************)
EXTENDS Integers

CONSTANTS
    MinBulkSize,   \* _min_bulk_size
    MaxBulkSize,   \* _max_bulk_size
    MaxReadings    \* bound on the readings in memory

ASSUME BulkSizesAssumption ==
    /\ MinBulkSize \in Nat
    /\ MaxBulkSize \in Nat \ {0}

ASSUME MaxReadingsAssumption == MaxReadings \in Nat

VARIABLES
    flushing,   \* where the call is: "no", "singly" or "inBulks"
    size,       \* readings->size()
    next,       \* readings the iterator has passed
    bulk,       \* bulk->size(): the last readings it has passed
    bulks,      \* the bulks still to hand over
    times       \* how often each reading was handed over in this flush

flushVars == <<flushing, size, next, bulk, bulks, times>>

Numbers == 1 .. MaxReadings

FlushInit ==
    /\ flushing = "no"
    /\ size = 0
    /\ next = 0 /\ bulk = 0 /\ bulks = 0
    /\ times = [i \in Numbers |-> 0]

\* Mutant: the quotient of integers, which rounds down.
QuotientRoundedDown(n) == n \div MaxBulkSize

\* ceil of the quotient: the least number of bulks that hold n readings.
BulksFor(n) == (n + MaxBulkSize - 1) \div MaxBulkSize

\* What is numbered from first to last goes to the backend.
HandedOver(first, last) ==
    [i \in Numbers |-> times[i] + (IF first <= i /\ i <= last THEN 1 ELSE 0)]

\* A reading gets into memory.
Buffer ==
    /\ flushing = "no"
    /\ size < MaxReadings
    /\ size' = size + 1
    /\ UNCHANGED <<flushing, next, bulk, bulks, times>>

StartFlush ==
    /\ flushing = "no"
    /\ IF size <= MinBulkSize
       THEN flushing' = "singly" /\ bulks' = 0
       ELSE flushing' = "inBulks" /\ bulks' = BulksFor(size)
    /\ UNCHANGED <<size, next, bulk, times>>

\* add_single_reading_record.
HandOverSingle ==
    /\ flushing = "singly"
    /\ next < size
    /\ next' = next + 1
    /\ times' = HandedOver(next + 1, next + 1)
    /\ UNCHANGED <<flushing, size, bulk, bulks>>

\* The inner loop.
FillBulk ==
    /\ flushing = "inBulks"
    /\ bulks > 0
    /\ next < size /\ bulk < MaxBulkSize
    /\ next' = next + 1
    /\ bulk' = bulk + 1
    /\ UNCHANGED <<flushing, size, bulks, times>>

\* add_bulk_reading_records.
HandOverBulk ==
    /\ flushing = "inBulks"
    /\ bulks > 0
    /\ ~(next < size /\ bulk < MaxBulkSize)
    /\ times' = HandedOver(next - bulk + 1, next)
    /\ bulk' = 0
    /\ bulks' = bulks - 1
    /\ UNCHANGED <<flushing, size, next>>

\* The call is over, and so are its variables.
FlushReturns ==
    /\ flushing' = "no"
    /\ next' = 0 /\ bulk' = 0 /\ bulks' = 0
    /\ times' = [i \in Numbers |-> 0]

\* A record method throws, in the middle of a bulk or before it.
FlushThrows ==
    /\ \/ flushing = "singly" /\ next < size
       \/ flushing = "inBulks" /\ bulks > 0
    /\ FlushReturns
    /\ UNCHANGED size

\* readings->clear().
EndFlush ==
    /\ \/ flushing = "singly" /\ next = size
       \/ flushing = "inBulks" /\ bulks = 0
    /\ FlushReturns
    /\ size' = 0

\* clear_buffers: a rollback or the end of the store drops what is in memory.
ClearBuffers ==
    /\ flushing = "no"
    /\ size' = 0
    /\ UNCHANGED <<flushing, next, bulk, bulks, times>>

HandOver == HandOverSingle \/ HandOverBulk

FlushNext ==
    \/ Buffer
    \/ StartFlush
    \/ HandOver
    \/ FillBulk
    \/ FlushThrows
    \/ EndFlush
    \/ ClearBuffers

FlushSpec == FlushInit /\ [][FlushNext]_flushVars

-----------------------------------------------------------------------------
FlushTypeOK ==
    /\ flushing \in {"no", "singly", "inBulks"}
    /\ size \in 0 .. MaxReadings
    /\ next \in Nat /\ bulk \in Nat /\ bulks \in Nat
    /\ times \in [Numbers -> Nat]

\* A flush has handed over exactly the readings in front of the
\* bulk it fills, each of them once: whatever the number of readings is to the
\* size of a bulk, and also in a flush that does again what one before it did.
EachOnce == \A i \in Numbers : times[i] = IF i <= next - bulk THEN 1 ELSE 0

\* The iterator never passes the end, and the bulks still to hand over are
\* neither too few for the readings left nor one too many.
BulksFit ==
    /\ flushing = "no" => next = 0 /\ bulk = 0
    /\ flushing = "singly" => next <= size /\ bulk = 0
    /\ flushing = "inBulks" =>
          /\ next <= size /\ bulk <= MaxBulkSize /\ bulk <= next
          /\ size - (next - bulk) <= bulks * MaxBulkSize
          /\ bulks > 0 => size - (next - bulk) > (bulks - 1) * MaxBulkSize

\* Readings leave memory in a flush that handed every one of them over exactly
\* once, also after earlier flushes that threw half way, or are dropped by a
\* rollback or a close; and no backend is given an empty bulk, or one that is
\* larger than it takes.
FlushHandsOverEachOnce ==
    [][/\ size' < size => ClearBuffers \/ \A i \in 1 .. size : times[i] = 1
       /\ HandOverBulk => bulk \in 1 .. MaxBulkSize]_flushVars
=============================================================================
