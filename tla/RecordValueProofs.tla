------------------------- MODULE RecordValueProofs --------------------------
(***************************************************************************)
(* Proofs about RecordValue, for every window and every number of values.  *)
(***************************************************************************)
EXTENDS RecordValue, TLAPS

USE RecordValueAssumption DEF Capacity, Cells

\* What a window holds: moving on by a value is moving on by a cell, the last
\* cell holds the last value, values do not decrease from cell to cell, and
\* none is more than stepSize behind the last.
LEMMA Windows ==
    ASSUME NEW n \in Nat, NEW i \in Cells
    PROVE  /\ InWindow(n, i) \in 1..(n + 1)
           /\ n >= 1 /\ i <= stepSize => InWindow(n, i) <= n
           /\ InWindow(n + 1, i) = InWindow(n, i + 1)
           /\ InWindow(n, i) <= InWindow(n + 1, i)
           /\ InWindow(n, i) + stepSize >= n + 1
           /\ \A j \in Cells : i <= j => InWindow(n, i) <= InWindow(n, j)
           /\ \A j \in Cells : i < j => InWindow(n + 1, i) <= InWindow(n, j)
           /\ InWindow(n, Capacity) = n + 1
           /\ n >= 1 => InWindow(n, stepSize) = n
<1> QED  BY DEF InWindow

Inv == TypeOK /\ RecordInvariant

\* In the initial state the vector holds the zeros of resize().
LEMMA InvInit == Init => Inv
<1> SUFFICES ASSUME Init PROVE Inv
  OBVIOUS
<1>1. TypeOK
  BY DEF Init, TypeOK
<1>2. SizeInv /\ FirstInv /\ CellsInv
  BY DEF Init, SizeInv, FirstInv, CellsInv
<1>3. SeenInv /\ ReadIsOrdered /\ ReadIsRecent
  BY DEF Init, SeenInv, ReadIsOrdered, ReadIsRecent
<1> QED  BY <1>1, <1>2, <1>3 DEF Inv, RecordInvariant

\* While addRecord() is at work no cell gets an older value, so that what the
\* reader has seen stays as old as what is there, or older.
LEMMA SeenKept ==
    ASSUME Inv, UNCHANGED readerVars, added' \in Nat, added <= added',
           recordContainer' \in [Cells -> 0..added'],
           \A i \in Cells : ~firstTime => recordContainer[i] <= recordContainer'[i]
    PROVE  SeenInv' /\ ReadIsOrdered' /\ ReadIsRecent'
<1> USE DEF Inv, TypeOK, RecordInvariant, readerVars
<1>1. ReadIsOrdered' /\ ReadIsRecent'
  BY DEF ReadIsOrdered, ReadIsRecent
<1>2. SeenInv'
  <2>1. CASE firstTime
    BY <2>1 DEF FirstInv, SeenInv
  <2>2. CASE ~firstTime
    <3> SUFFICES ASSUME NEW i \in 1..Len(seen)
                 PROVE  seen[i] <= recordContainer'[i]
      BY DEF SeenInv
    <3>1. i \in Cells /\ seen[i] \in Nat
      <4>1. /\ Len(seen) <= end /\ end \in {stepSize, Capacity}
            /\ seen \in Seq(0..added) /\ added \in Nat
        OBVIOUS
      <4> HIDE DEF Inv, TypeOK, RecordInvariant
      <4>2. i \in Cells
        BY <4>1
      <4>3. seen[i] \in 0..added /\ added \in Nat
        BY <4>1
      <4> QED  BY <4>2, <4>3
    <3>2. seen[i] <= recordContainer[i] /\ recordContainer[i] <= recordContainer'[i]
      BY <2>2, <3>1 DEF SeenInv
    <3>3. recordContainer[i] \in Nat /\ recordContainer'[i] \in Nat
      BY <3>1
    <3> QED  BY <3>1, <3>2, <3>3
  <2> QED  BY <2>1, <2>2
<1> QED  BY <1>1, <1>2

\* The type of what the reader has seen, when values are added.
LEMMA SeenTyped ==
    ASSUME Inv, UNCHANGED readerVars, added' \in Nat, added <= added'
    PROVE  seen' \in Seq(0..added') /\ begun' \in 0..added'
<1> USE DEF Inv, TypeOK, readerVars
<1>1. \A i \in 1..Len(seen) : seen[i] \in 0..added'
  OBVIOUS
<1> QED  BY <1>1

\* push_back() puts the new value behind the window, which is then the one
\* before it.
LEMMA InvPushBack == Inv /\ PushBack => Inv'
<1> SUFFICES ASSUME Inv, PushBack PROVE Inv'
  OBVIOUS
<1> USE DEF Inv, TypeOK, RecordInvariant
<1>1. size = stepSize /\ size + 1 \in Cells /\ size + 1 = Capacity
  BY DEF PushBack, SizeInv
<1>2. added' = added + 1 /\ added' \in 1..MaxRecords /\ UNCHANGED readerVars
  BY DEF PushBack
<1>3. /\ recordContainer' \in [Cells -> 0..added']
      /\ \A i \in 1..stepSize : recordContainer'[i] = recordContainer[i]
      /\ recordContainer'[Capacity] = added + 1
  BY <1>1, <1>2 DEF PushBack
<1>4. TypeOK'
  BY <1>1, <1>2, <1>3, SeenTyped DEF PushBack, readerVars
<1>5. SizeInv' /\ FirstInv'
  BY <1>1, <1>2 DEF PushBack, SizeInv, FirstInv, readerVars
<1>6. ASSUME ~firstTime
      PROVE  /\ added >= 1
             /\ \A i \in 1..stepSize : recordContainer[i] = InWindow(added, i)
             /\ recordContainer[Capacity] = added
  <2>1. added >= 1 /\ Moved = Capacity
    BY <1>6 DEF CellsInv, PushBack, Moved
  <2>2. InWindow(added - 1, Capacity) = added
    BY <2>1, Windows, added - 1 \in Nat, Capacity \in Cells
  <2> QED  BY <1>6, <2>1, <2>2 DEF CellsInv
<1>7. CellsInv'
  <2> SUFFICES ASSUME ~firstTime
               PROVE  \A i \in Cells : recordContainer'[i] = InWindow(added, i)
    <3>1. Moved' = 1 /\ firstTime' = firstTime
      BY DEF PushBack, Moved
    <3> QED  BY <1>2, <3>1 DEF CellsInv, Inv, TypeOK
  <2>1. InWindow(added, Capacity) = added + 1
    BY Windows, Capacity \in Cells
  <2> QED  BY <1>3, <1>6, <2>1
<1>8. SeenInv' /\ ReadIsOrdered' /\ ReadIsRecent'
  <2>1. \A i \in Cells : ~firstTime => recordContainer[i] <= recordContainer'[i]
    <3> SUFFICES ASSUME NEW i \in Cells, ~firstTime
                 PROVE  recordContainer[i] <= recordContainer'[i]
      OBVIOUS
    <3>1. CASE i \in 1..stepSize
      BY <1>3, <3>1
    <3>2. CASE i = Capacity
      BY <1>3, <1>6, <3>2
    <3> QED  BY <3>1, <3>2
  <2> QED  BY <1>2, <1>3, <2>1, SeenKept
<1> QED  BY <1>4, <1>5, <1>7, <1>8

\* The first value fills the vector; later ones leave it.
LEMMA InvFill == Inv /\ Fill => Inv'
<1> SUFFICES ASSUME Inv, Fill PROVE Inv'
  OBVIOUS
<1> USE DEF Inv, TypeOK, RecordInvariant
<1>1. size = Capacity /\ TooLong /\ writer' = "erase" /\ hole' = 1 /\ Moved' = 1
  BY DEF Fill, SizeInv, TooLong, Moved
<1>2. UNCHANGED <<size, added, readerVars>> /\ firstTime' = FALSE
  BY DEF Fill
<1>3. ASSUME firstTime
      PROVE  added = 1 /\ recordContainer' = [i \in Cells |-> 1]
  BY <1>1, <1>3 DEF Fill, Filled, FirstInv
<1>4. ASSUME ~firstTime
      PROVE  UNCHANGED recordContainer
  BY <1>4 DEF Fill, Filled
<1>5. TypeOK'
  <2>1. recordContainer' \in [Cells -> 0..added]
    BY <1>3, <1>4
  <2>2. added' = added /\ added \in Nat /\ added <= added'
    BY <1>2
  <2>3. seen' \in Seq(0..added') /\ begun' \in 0..added'
    BY <1>2, <2>2, SeenTyped
  <2>4. Len(seen') <= end'
    BY <1>2 DEF readerVars
  <2>5. writer' \in {"idle", "fill", "erase"} /\ hole' \in Cells
    BY <1>1
  <2> QED  BY <1>1, <1>2, <2>1, <2>2, <2>3, <2>4, <2>5 DEF readerVars
<1>6. SizeInv' /\ FirstInv'
  BY <1>1, <1>2 DEF SizeInv, FirstInv
<1>7. CellsInv'
  <2>1. CASE firstTime
    <3>1. \A i \in Cells : InWindow(0, i) = IF i < 1 THEN InWindow(1, i) ELSE 1
      BY DEF InWindow
    <3> QED  BY <1>1, <1>2, <1>3, <2>1, <3>1 DEF CellsInv
  <2>2. CASE ~firstTime
    <3>1. Moved = 1
      BY DEF Fill, Moved
    <3> QED  BY <1>1, <1>2, <1>4, <2>2, <3>1 DEF CellsInv
  <2> QED  BY <2>1, <2>2
<1>8. SeenInv' /\ ReadIsOrdered' /\ ReadIsRecent'
  BY <1>2, <1>4, <1>5, SeenKept, SMTT(30)
<1> QED  BY <1>5, <1>6, <1>7, <1>8

\* erase() moves one element: the cell goes over to the next window.
LEMMA InvShift == Inv /\ Shift => Inv'
<1> SUFFICES ASSUME Inv, Shift PROVE Inv'
  OBVIOUS
<1> USE DEF Inv, TypeOK, RecordInvariant
<1>1. /\ size = Capacity /\ ~firstTime /\ added >= 1
      /\ hole \in 1..stepSize /\ hole + 1 \in Cells
      /\ Moved = hole /\ Moved' = hole + 1
      /\ hole' = hole + 1
      /\ UNCHANGED <<size, firstTime, added, writer, readerVars>>
  BY DEF Shift, SizeInv, FirstInv, CellsInv, Moved
<1>2. recordContainer' = [recordContainer EXCEPT ![hole] = recordContainer[hole + 1]]
  BY DEF Shift, MovedFrom
<1>3. /\ recordContainer[hole] = InWindow(added - 1, hole)
      /\ recordContainer[hole + 1] = InWindow(added - 1, hole + 1)
  BY <1>1 DEF CellsInv
<1>4. /\ InWindow(added - 1, hole + 1) = InWindow(added, hole)
      /\ InWindow(added - 1, hole) <= InWindow(added, hole)
  <2>1. \A n \in Nat : /\ InWindow(n, hole + 1) = InWindow(n + 1, hole)
                         /\ InWindow(n, hole) <= InWindow(n + 1, hole)
    BY <1>1, Windows
  <2>2. added - 1 \in Nat /\ (added - 1) + 1 = added
    BY <1>1
  <2> HIDE DEF Inv, TypeOK, RecordInvariant
  <2> QED  BY <2>1, <2>2
<1>5. TypeOK'
  <2>1. recordContainer' \in [Cells -> 0..added']
    BY <1>1, <1>2
  <2> QED  BY <1>1, <2>1 DEF readerVars
<1>6. SizeInv' /\ FirstInv'
  BY <1>1 DEF SizeInv, FirstInv, Shift
<1>7. CellsInv'
  <2> SUFFICES ASSUME NEW i \in Cells
               PROVE  recordContainer'[i] =
                        IF i < hole + 1 THEN InWindow(added, i)
                                        ELSE InWindow(added - 1, i)
    BY <1>1 DEF CellsInv
  <2>1. CASE i = hole
    BY <1>1, <1>2, <1>3, <1>4, <2>1
  <2>2. CASE i # hole
    <3>1. recordContainer'[i] = recordContainer[i] /\ (i < hole + 1 <=> i < hole)
      BY <1>1, <1>2, <2>2
    <3> QED  BY <1>1, <3>1 DEF CellsInv
  <2> QED  BY <2>1, <2>2
<1>8. \A i \in Cells : recordContainer[i] <= recordContainer'[i]
  <2> TAKE i \in Cells
  <2>1. CASE i = hole
    BY <1>1, <1>2, <1>3, <1>4, <2>1
  <2>2. CASE i # hole
    BY <1>2, <2>2
  <2> QED  BY <2>1, <2>2
<1>9. SeenInv' /\ ReadIsOrdered' /\ ReadIsRecent'
  BY <1>1, <1>5, <1>8, SeenKept, SMTT(30)
<1> QED  BY <1>5, <1>6, <1>7, <1>9

\* The last element has been moved and the vector is a cell shorter.
LEMMA InvShorten == Inv /\ Shorten => Inv'
<1> SUFFICES ASSUME Inv, Shorten PROVE Inv'
  OBVIOUS
<1> USE DEF Inv, TypeOK, RecordInvariant
<1>1. /\ size = Capacity /\ hole = Capacity /\ ~firstTime
      /\ Moved = Capacity /\ Moved' = Capacity
      /\ size' = stepSize /\ hole' = 1 /\ writer' = "idle"
      /\ UNCHANGED <<recordContainer, firstTime, added, readerVars>>
  BY DEF Shorten, SizeInv, FirstInv, Moved
<1>2. TypeOK' /\ SizeInv' /\ FirstInv'
  BY <1>1 DEF SizeInv, FirstInv, readerVars
<1>3. CellsInv'
  BY <1>1 DEF CellsInv
<1>4. SeenInv' /\ ReadIsOrdered' /\ ReadIsRecent'
  BY <1>1, <1>2, SeenKept
<1> QED  BY <1>2, <1>3, <1>4

\* The reader starts with nothing seen.
LEMMA InvBegin == Inv /\ Begin => Inv'
<1> SUFFICES ASSUME Inv, Begin PROVE Inv'
  OBVIOUS
<1> USE DEF Inv, TypeOK, RecordInvariant
<1>1. /\ ~firstTime /\ seen' = << >> /\ end' = size /\ begun' = added
      /\ reader' = "loop" /\ UNCHANGED writerVars
  BY DEF Begin
<1>2. TypeOK' /\ SizeInv' /\ FirstInv'
  BY <1>1 DEF SizeInv, FirstInv, writerVars
<1>3. CellsInv'
  BY <1>1 DEF CellsInv, Moved, writerVars
<1>4. SeenInv' /\ ReadIsOrdered' /\ ReadIsRecent'
  BY <1>1 DEF SeenInv, ReadIsOrdered, ReadIsRecent
<1> QED  BY <1>2, <1>3, <1>4

\* The reader takes a value from the next cell, which is no older than any in
\* the cells before.
LEMMA InvReadOne == Inv /\ ReadOne => Inv'
<1> SUFFICES ASSUME Inv, ReadOne PROVE Inv'
  OBVIOUS
<1> USE DEF Inv, TypeOK, RecordInvariant
<1> DEFINE k == Len(seen) + 1
<1>1. /\ k \in Cells /\ k <= end /\ reader = "loop"
      /\ seen' = Append(seen, recordContainer[k])
      /\ UNCHANGED <<writerVars, reader, end, begun>>
  BY DEF ReadOne
<1>2. /\ ~firstTime /\ added >= 1 /\ Moved \in Cells
      /\ \A i \in Cells : recordContainer[i] =
            IF i < Moved THEN InWindow(added, i) ELSE InWindow(added - 1, i)
  BY <1>1 DEF FirstInv, CellsInv, Moved
<1>3. /\ Len(seen') = k /\ seen'[k] = recordContainer[k]
      /\ \A i \in 1..Len(seen) : seen'[i] = seen[i]
      /\ seen' \in Seq(0..added)
  BY <1>1
<1>4. TypeOK'
  BY <1>1, <1>3 DEF writerVars
<1>5. SizeInv' /\ FirstInv' /\ CellsInv'
  BY <1>1, <1>2 DEF SizeInv, FirstInv, CellsInv, Moved, writerVars
<1>6. SeenInv'
  BY <1>1, <1>3 DEF SeenInv, writerVars
<1>7. \A i \in Cells : i < k => recordContainer[i] <= recordContainer[k]
  <2> SUFFICES ASSUME NEW i \in Cells, i < k
               PROVE  recordContainer[i] <= recordContainer[k]
    OBVIOUS
  <2> DEFINE n == added - 1
  <2>1. n \in Nat /\ n + 1 = added
    BY <1>2
  <2>2. /\ InWindow(n, i) <= InWindow(n, k)
        /\ InWindow(n + 1, i) <= InWindow(n, k)
    <3>1. n \in Nat /\ k \in Cells
      BY <2>1, <1>1
    <3> HIDE DEF n, k, Inv, TypeOK, RecordInvariant
    <3> QED  BY <3>1, Windows
  <2>3. InWindow(n + 1, i) <= InWindow(n + 1, k)
    <3>1. n + 1 \in Nat /\ k \in Cells
      BY <2>1, <1>1
    <3> HIDE DEF n, k, Inv, TypeOK, RecordInvariant
    <3> QED  BY <3>1, Windows
  <2> HIDE DEF n
  <2>0. added - 1 = n
    BY DEF n
  <2>4. /\ recordContainer[i] = IF i < Moved THEN InWindow(n + 1, i) ELSE InWindow(n, i)
        /\ recordContainer[k] = IF k < Moved THEN InWindow(n + 1, k) ELSE InWindow(n, k)
    <3>1. /\ recordContainer[i] =
                IF i < Moved THEN InWindow(added, i) ELSE InWindow(added - 1, i)
          /\ recordContainer[k] =
                IF k < Moved THEN InWindow(added, k) ELSE InWindow(added - 1, k)
      BY <1>1, <1>2
    <3> HIDE DEF Inv, TypeOK, RecordInvariant
    <3> QED  BY <2>0, <2>1, <3>1
  <2>5. i < Moved \/ ~(k < Moved)
    BY <1>1, <1>2
  <2> QED  BY <2>2, <2>3, <2>4, <2>5
<1>8. ReadIsOrdered'
  <2> SUFFICES ASSUME NEW i \in 1..k, NEW j \in 1..k, i <= j
               PROVE  seen'[i] <= seen'[j]
    BY <1>3 DEF ReadIsOrdered
  <2>1. CASE j < k
    BY <1>1, <1>3, <2>1, SMTT(30) DEF ReadIsOrdered
  <2>2. CASE i = k
    BY <1>1, <1>3, <2>2
  <2>3. ASSUME j = k, i < k PROVE seen'[i] <= seen'[k]
    <3>1. i \in 1..Len(seen) /\ i \in Cells
      BY <1>1, <2>3, SMTT(30)
    <3>2. seen[i] <= recordContainer[i] /\ recordContainer[i] <= recordContainer[k]
      BY <1>7, <2>3, <3>1 DEF SeenInv
    <3>3. seen[i] \in Nat /\ recordContainer[i] \in Nat /\ recordContainer[k] \in Nat
      <4>1. /\ recordContainer \in [Cells -> 0..added] /\ added \in Nat
            /\ seen \in Seq(0..added)
        OBVIOUS
      <4>2. k \in Cells
        BY <1>1
      <4> HIDE DEF Inv, TypeOK, RecordInvariant, k
      <4> QED  BY <3>1, <4>1, <4>2
    <3>4. seen'[i] = seen[i] /\ seen'[k] = recordContainer[k]
      BY <1>3, <3>1
    <3> HIDE DEF Inv, TypeOK, RecordInvariant, k
    <3> QED  BY <3>2, <3>3, <3>4
  <2>4. j < k \/ (i = k /\ j = k) \/ (j = k /\ i < k)
    BY <1>1
  <2> QED  BY <2>1, <2>2, <2>3, <2>4
<1>9. ReadIsRecent'
  <2>1. recordContainer[k] >= 1 /\ recordContainer[k] + stepSize >= added
    <3> DEFINE n == added - 1
    <3>1. n \in Nat /\ n + 1 = added
      BY <1>2
    <3>3. n + 1 \in Nat /\ k \in Cells
      BY <1>1, <3>1
    <3>4. added - 1 = n
      OBVIOUS
    <3>5. recordContainer[k] =
                IF k < Moved THEN InWindow(added, k) ELSE InWindow(added - 1, k)
      BY <1>1, <1>2
    <3> HIDE DEF n, k, Inv, TypeOK, RecordInvariant
    <3>2. /\ InWindow(n, k) >= 1 /\ InWindow(n, k) + stepSize >= n + 1
          /\ InWindow(n + 1, k) >= 1 /\ InWindow(n + 1, k) + stepSize >= n + 2
          /\ InWindow(n, k) \in Nat /\ InWindow(n + 1, k) \in Nat
      <4>1. \A m \in Nat : InWindow(m, k) \in 1..(m + 1) /\ InWindow(m, k) + stepSize >= m + 1
        BY <3>3, Windows
      <4> QED  BY <3>1, <3>3, <4>1
    <3> QED  BY <3>1, <3>2, <3>4, <3>5
  <2> SUFFICES ASSUME NEW i \in 1..k
               PROVE  seen'[i] >= 1 /\ seen'[i] + stepSize >= begun
    BY <1>1, <1>3 DEF ReadIsRecent
  <2>2. CASE i = k
    BY <1>1, <1>3, <2>1, <2>2
  <2>3. CASE i # k
    BY <1>1, <1>3, <2>3, SMTT(30) DEF ReadIsRecent
  <2> QED  BY <2>2, <2>3
<1> QED  BY <1>4, <1>5, <1>6, <1>8, <1>9

\* The reader is done, or nothing happens.
LEMMA InvRest == Inv /\ (Finish \/ UNCHANGED vars) => Inv'
<1> SUFFICES ASSUME Inv, UNCHANGED <<writerVars, end, seen, begun>>,
                    reader' \in {"idle", reader}
             PROVE  Inv'
  BY DEF Finish, vars, readerVars
<1> QED  BY DEF Inv, TypeOK, RecordInvariant, SizeInv, FirstInv, CellsInv, Moved,
                SeenInv, ReadIsOrdered, ReadIsRecent, writerVars

\* The vector, its reader and what the reader has seen are what they should be
\* in every state.
THEOREM InvariantHolds == Spec => [](TypeOK /\ RecordInvariant)
<1>1. Inv /\ [Next]_vars => Inv'
  BY InvPushBack, InvFill, InvShift, InvShorten, InvBegin, InvReadOne, InvRest
     DEF Next
<1>2. Spec => []Inv
  BY <1>1, InvInit, PTL DEF Spec
<1> QED  BY <1>2, PTL DEF Inv

\* The vector and its reader keep their types.
THEOREM TypeCorrect == Spec => []TypeOK
<1> QED  BY InvariantHolds, PTL

\* Between two calls the vector holds the last stepSize values, in order.
THEOREM WindowHolds == Spec => []WindowIsLast
<1>1. TypeOK /\ RecordInvariant => WindowIsLast
  <2> SUFFICES ASSUME TypeOK, RecordInvariant, writer = "idle", added > 0
               PROVE  /\ size = stepSize
                      /\ \A i \in 1..stepSize : recordContainer[i] = InWindow(added, i)
    BY DEF WindowIsLast
  <2> QED  BY DEF TypeOK, RecordInvariant, SizeInv, FirstInv, CellsInv, Moved
<1> QED  BY <1>1, InvariantHolds, PTL

\* A reading overtaken by addRecord() is still in order, ...
THEOREM ReadingIsOrdered == Spec => []ReadIsOrdered
<1>1. RecordInvariant => ReadIsOrdered
  BY DEF RecordInvariant
<1> QED  BY <1>1, InvariantHolds, PTL

\* ... and of values as recent as the window it began in or the one before.
THEOREM ReadingIsRecent == Spec => []ReadIsRecent
<1>1. RecordInvariant => ReadIsRecent
  BY DEF RecordInvariant
<1> QED  BY <1>1, InvariantHolds, PTL

=============================================================================
