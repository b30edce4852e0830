---------------------------- MODULE RecordValue -----------------------------
(***************************************************************************)
(* lib/util/record_value.hpp: recordValue, the last stepSize values of a   *)
(* measurement in a std::vector.  One thread calls addRecord(), another     *)
(* reads the values for their average; the class has no lock.  The         *)
(* callbacks of simplemonitor are slots of one Timer, which excludes them  *)
(* from each other, but not an ITimerObserver, whose Update() it does not  *)
(* wait for, or a thread of the client's own.                              *)
(*                                                                         *)
(* A value is named by its number in the order of addRecord() calls, 0 is  *)
(* the value resize() fills in.  The vector is its memory and its size:    *)
(* push_back() and erase(begin()) move one element at a time, and erase()  *)
(* leaves what was in the last cell.                                       *)
(***************************************************************************)
EXTENDS Naturals, Sequences

CONSTANTS
    stepSize,       \* the number of values kept
    MaxRecords      \* bound on the calls of addRecord()

ASSUME RecordValueAssumption ==
    /\ stepSize \in Nat \ {0}
    /\ MaxRecords \in Nat

VARIABLES
    recordContainer,    \* the memory of the vector, a cell more than kept
    size,               \* its size()
    firstTime,          \* whether the first value is still to come
    added,              \* history: the number of the last value
    writer,             \* where the thread in addRecord() is
    hole,               \* the cell erase() moves an element to
    reader,             \* where the thread in getAverageRecord() is
    end,                \* the end() it took
    seen,               \* the values it has read
    begun               \* history: the number of the last value as it began

writerVars == <<recordContainer, size, firstTime, added, writer, hole>>
readerVars == <<reader, end, seen, begun>>
vars       == <<writerVars, readerVars>>

Capacity == stepSize + 1
Cells    == 1..Capacity

TypeOK ==
    /\ recordContainer \in [Cells -> 0..added]
    /\ size \in {stepSize, Capacity}
    /\ firstTime \in BOOLEAN
    /\ added \in 0..MaxRecords
    /\ writer \in {"idle", "fill", "erase"}
    /\ hole \in Cells
    /\ reader \in {"idle", "loop"}
    /\ end \in {stepSize, Capacity}
    /\ seen \in Seq(0..added)
    /\ Len(seen) <= end
    /\ begun \in 0..added

Init ==
    /\ recordContainer = [i \in Cells |-> 0]
    /\ size = stepSize
    /\ firstTime = TRUE
    /\ added = 0
    /\ writer = "idle"
    /\ hole = 1
    /\ reader = "idle"
    /\ end = stepSize
    /\ seen = << >>
    /\ begun = 0

-----------------------------------------------------------------------------
(* addRecord(): push_back() first.                                         *)

PushBack ==
    /\ writer = "idle"
    /\ added < MaxRecords
    /\ added' = added + 1
    /\ recordContainer' = [recordContainer EXCEPT ![size + 1] = added + 1]
    /\ size' = size + 1
    /\ writer' = "fill"
    /\ UNCHANGED <<firstTime, hole, readerVars>>

FilledNever == recordContainer

\* The first value is written over all others.
Filled ==
    IF firstTime THEN [i \in Cells |-> IF i <= size THEN added
                                                    ELSE recordContainer[i]]
                 ELSE recordContainer

TooLongAfter == size > Capacity

TooLong == size >= stepSize

Fill ==
    /\ writer = "fill"
    /\ recordContainer' = Filled
    /\ firstTime' = FALSE
    /\ writer' = IF TooLong THEN "erase" ELSE "idle"
    /\ hole' = 1
    /\ UNCHANGED <<size, added, readerVars>>

MovedFromBack(i) == size

\* erase(begin()) moves the elements forward one by one, ...
MovedFrom(i) == i + 1

Shift ==
    /\ writer = "erase"
    /\ hole < size
    /\ recordContainer' =
            [recordContainer EXCEPT ![hole] = recordContainer[MovedFrom(hole)]]
    /\ hole' = hole + 1
    /\ UNCHANGED <<size, firstTime, added, writer, readerVars>>

\* ... and shortens the vector.
Shorten ==
    /\ writer = "erase"
    /\ hole = size
    /\ size' = size - 1
    /\ hole' = 1
    /\ writer' = "idle"
    /\ UNCHANGED <<recordContainer, firstTime, added, readerVars>>

-----------------------------------------------------------------------------
(* getAverageRecord(): accumulate() from begin() to end(); the other       *)
(* getters make the same loop.  A client reads after the first value, for  *)
(* which push_back() moves the vector to other memory.                     *)

Begin ==
    /\ reader = "idle"
    /\ ~firstTime
    /\ end' = size
    /\ seen' = << >>
    /\ begun' = added
    /\ reader' = "loop"
    /\ UNCHANGED writerVars

ReadOne ==
    /\ reader = "loop"
    /\ Len(seen) < end
    /\ seen' = Append(seen, recordContainer[Len(seen) + 1])
    /\ UNCHANGED <<writerVars, reader, end, begun>>

Finish ==
    /\ reader = "loop"
    /\ Len(seen) = end
    /\ reader' = "idle"
    /\ UNCHANGED <<writerVars, end, seen, begun>>

-----------------------------------------------------------------------------

Next == PushBack \/ Fill \/ Shift \/ Shorten \/ Begin \/ ReadOne \/ Finish

Spec == Init /\ [][Next]_vars

-----------------------------------------------------------------------------

\* The value in cell i of the window that ends with value n: the last stepSize
\* values, the first of all standing in for those there never were.
InWindow(n, i) == IF n + i > stepSize THEN n + i - stepSize ELSE 1

\* Between two calls of addRecord() the vector holds the last stepSize values
\* in their order, and nothing else.
WindowIsLast ==
    writer = "idle" /\ added > 0 =>
        /\ size = stepSize
        /\ \A i \in 1..stepSize :
              recordContainer[i] = InWindow(added, i)

\* A reading that addRecord() overtakes sees values in the order they came in,
\* though it may see one twice or miss one.
ReadIsOrdered ==
    \A i, j \in 1..Len(seen) : i <= j => seen[i] <= seen[j]

\* It sees no value older than the window it began in, or the one just before
\* it, and never the zeros from before the first value.
ReadIsRecent ==
    \A i \in 1..Len(seen) : seen[i] >= 1 /\ seen[i] + stepSize >= begun

-----------------------------------------------------------------------------
(* The inductive invariant.                                                *)

\* The cells below this one hold the window that ends with the last value,
\* the others the window before it.
Moved == CASE writer = "idle"  -> Capacity
           [] writer = "fill"  -> 1
           [] writer = "erase" -> hole

SizeInv ==
    /\ size = IF writer = "idle" THEN stepSize ELSE Capacity
    /\ hole <= size

FirstInv ==
    firstTime => /\ \/ writer = "idle" /\ added = 0
                    \/ writer = "fill" /\ added = 1
                 /\ reader = "idle"
                 /\ seen = << >>

CellsInv ==
    ~firstTime =>
        /\ added >= 1
        /\ \A i \in Cells : recordContainer[i] =
                IF i < Moved THEN InWindow(added, i) ELSE InWindow(added - 1, i)

\* What has been read of a cell may only have been overtaken.
SeenInv ==
    \A i \in 1..Len(seen) : seen[i] <= recordContainer[i]

\* Why WindowIsLast, ReadIsOrdered and ReadIsRecent hold: erase() only ever
\* moves later values to earlier cells, through windows that differ by one.
RecordInvariant ==
    SizeInv /\ FirstInv /\ CellsInv /\ SeenInv /\ ReadIsOrdered /\ ReadIsRecent

=============================================================================
