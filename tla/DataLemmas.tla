----------------------------- MODULE DataLemmas -----------------------------
(***************************************************************************)
(* Facts about sequences and numbers that several proofs need: what        *)
(* erasing an element leaves of a sequence, for the vector of Timer, the   *)
(* list of SysMonitor and the file of NetworkLoad; the least of a set of   *)
(* numbers, for searches; and sums that wrap round, for counters.          *)
(***************************************************************************)
EXTENDS SequencesExt, SequenceTheorems, FiniteSetTheorems,
        WellFoundedInduction, TLAPS

\* Removing an element keeps the ones before it in place and moves the ones
\* behind it up by one.
LEMMA RemoveAtFacts ==
    ASSUME NEW S, NEW seq \in Seq(S), NEW i \in 1..Len(seq)
    PROVE  /\ RemoveAt(seq, i) \in Seq(S)
           /\ Len(RemoveAt(seq, i)) = Len(seq) - 1
           /\ \A j \in 1..Len(seq) - 1 :
                RemoveAt(seq, i)[j] = IF j < i THEN seq[j] ELSE seq[j + 1]
<1> DEFINE front == SubSeq(seq, 1, i - 1)
           back  == SubSeq(seq, i + 1, Len(seq))
<1>1. /\ front \in Seq(S)
      /\ Len(front) = i - 1
      /\ \A j \in 1..i - 1 : front[j] = seq[j]
  BY SubSeqProperties
<1>2. /\ back \in Seq(S)
      /\ Len(back) = Len(seq) - i
      /\ \A j \in 1..Len(seq) - i : back[j] = seq[i + j]
  BY SubSeqProperties
<1> HIDE DEF front, back
<1>3. /\ front \o back \in Seq(S)
      /\ Len(front \o back) = Len(front) + Len(back)
      /\ \A j \in 1..Len(front) + Len(back) :
           (front \o back)[j] =
             IF j <= Len(front) THEN front[j] ELSE back[j - Len(front)]
  <2> HIDE <1>2
  <2>1. front \in Seq(S) /\ back \in Seq(S)
    BY <1>1, <1>2
  <2>2. QED  BY ONLY <2>1, ConcatProperties
<1>4. RemoveAt(seq, i) = front \o back
  BY DEF RemoveAt, front, back
<1>5. Len(front) + Len(back) = Len(seq) - 1
  BY <1>1, <1>2
<1>6. ASSUME NEW j \in 1..Len(seq) - 1
      PROVE  (front \o back)[j] = IF j < i THEN seq[j] ELSE seq[j + 1]
  <2> j \in Int /\ i \in Int
    OBVIOUS
  <2>1. CASE j < i
    BY <1>1, <1>3, <1>5, <2>1
  <2>2. CASE ~(j < i)
    <3>1. (front \o back)[j] = back[j - (i - 1)]
      BY <1>1, <1>3, <1>5, <2>2
    <3>2. j - (i - 1) \in 1..Len(seq) - i /\ i + (j - (i - 1)) = j + 1
      BY <2>2
    <3>3. back[j - (i - 1)] = seq[j + 1]
      BY <1>2, <3>2
    <3>4. QED  BY <2>2, <3>1, <3>3
  <2>3. QED  BY <2>1, <2>2
<1>7. QED  BY <1>3, <1>4, <1>5, <1>6

\* A set of natural numbers that is not empty has a least one.
LEMMA LeastNumber ==
    ASSUME NEW S \in SUBSET Nat, S # {}
    PROVE  Min(S) \in S /\ \A n \in S : Min(S) <= n
<1> DEFINE initial == {0..n : n \in S}
           Smaller == StrictSubsetOrdering(Nat)
<1>1. initial \subseteq FiniteSubsetsOf(Nat) /\ initial # {}
  <2>1. ASSUME NEW n \in S PROVE 0..n \in FiniteSubsetsOf(Nat)
    BY FS_Interval DEF FiniteSubsetsOf
  <2>2. QED  BY <2>1
<1> HIDE DEF initial
<1>2. PICK t \in initial : \A u \in initial : ~(<<u, t>> \in Smaller)
  <2>1. IsWellFoundedOn(Smaller, FiniteSubsetsOf(Nat))
    BY FS_StrictSubsetOrderingWellFounded
  <2>2. QED  BY <1>1, <2>1, WFMin, Zenon
<1>3. PICK n \in S : t = 0..n
  BY DEF initial
<1>4. ASSUME NEW m \in S, m < n PROVE FALSE
  <2>1. 0..m \in initial
    BY DEF initial
  <2>2. /\ 0..m \subseteq Nat /\ 0..n \subseteq Nat /\ 0..m \subseteq 0..n
        /\ n \in 0..n /\ n \notin 0..m
    BY <1>4
  <2>3. <<0..m, 0..n>> \in Smaller
    BY <2>2 DEF StrictSubsetOrdering
  <2>4. QED  BY <1>2, <1>3, <2>1, <2>3
<1>5. \A m \in S : n <= m
  BY <1>4
<1>6. QED  BY <1>5, Zenon DEF Min

\* A number is so many times the modulus and a remainder, in one way only.
LEMMA Division ==
    ASSUME NEW m \in Nat \ {0}, NEW n \in Nat
    PROVE  \E q \in Nat, r \in 0..(m - 1) : r = n % m /\ n = q * m + r
<1>1. n % m \in 0..(m - 1) /\ n \div m \in Int
  OBVIOUS
<1>2. n = (n \div m) * m + (n % m)
  OBVIOUS
<1>3. n \div m \in Nat
  BY <1>1, <1>2
<1>4. QED  BY <1>1, <1>2, <1>3, Zenon

LEMMA DivisionIsUnique ==
    ASSUME NEW m \in Nat \ {0}, NEW q \in Int, NEW r \in 0..(m - 1),
           NEW p \in Int, NEW s \in 0..(m - 1), q * m + r = p * m + s
    PROVE  q = p /\ r = s
  OBVIOUS

\* It does not matter whether a sum wraps round on the way.
LEMMA WrapsOnce ==
    ASSUME NEW m \in Nat \ {0}, NEW n \in Nat, NEW k \in Nat
    PROVE  ((n % m) + k) % m = (n + k) % m
<1>1. PICK q \in Nat, r \in 0..(m - 1) : r = n % m /\ n = q * m + r
  BY Division, Zenon
<1>2. PICK p \in Nat, s \in 0..(m - 1) : s = (r + k) % m /\ r + k = p * m + s
  <2>1. r + k \in Nat
    OBVIOUS
  <2>2. QED  BY <2>1, Division, Zenon
<1>3. PICK u \in Nat, t \in 0..(m - 1) : t = (n + k) % m /\ n + k = u * m + t
  <2>1. n + k \in Nat
    OBVIOUS
  <2>2. QED  BY <2>1, Division, Zenon
<1>4. (q + p) * m + s = u * m + t
  <2>1. n + k = q * m + (r + k)
    BY ONLY <1>1, m \in Nat, k \in Nat
  <2>2. n + k = q * m + (p * m + s)
    BY ONLY <2>1, <1>2
  <2>3. q * m + (p * m + s) = (q + p) * m + s
    OBVIOUS
  <2>4. QED  BY <1>3, <2>2, <2>3
<1>5. s = t
  <2>1. q + p \in Int /\ u \in Int
    OBVIOUS
  <2>2. QED  BY <1>4, <2>1, DivisionIsUnique
<1>6. QED  BY <1>1, <1>2, <1>3, <1>5, Zenon

\* A remainder is not more than the number, and the modulus adds nothing.
LEMMA RemainderFacts ==
    ASSUME NEW m \in Nat \ {0}, NEW n \in Nat
    PROVE  /\ n % m \in 0..(m - 1) /\ n % m <= n
           /\ (n + m) % m = n % m
           /\ n < m => n % m = n
<1>1. PICK q \in Nat, r \in 0..(m - 1) : r = n % m /\ n = q * m + r
  BY Division, Zenon
<1>2. n % m \in 0..(m - 1) /\ n % m <= n
  <2>1. q * m >= 0
    OBVIOUS
  <2>2. QED  BY <1>1, <2>1
<1>3. (n + m) % m = n % m
  <2>1. PICK p \in Nat, s \in 0..(m - 1) : s = (n + m) % m /\ n + m = p * m + s
    <3>1. n + m \in Nat
      OBVIOUS
    <3>2. QED  BY <3>1, Division, Zenon
  <2>2. (q + 1) * m + r = p * m + s
    BY <1>1, <2>1
  <2>3. r = s
    BY <2>2, DivisionIsUnique
  <2>4. QED  BY <1>1, <2>1, <2>3
<1>4. n < m => n % m = n
  OBVIOUS
<1>5. QED  BY <1>2, <1>3, <1>4

=============================================================================
