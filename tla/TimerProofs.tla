---------------------------- MODULE TimerProofs -----------------------------
(***************************************************************************)
(* Proofs about Timer for any number of observables, callers and interval  *)
(* lengths: type correctness, the safety invariants and the refinement of  *)
(* TimerService.                                                           *)
(***************************************************************************)
EXTENDS TimerInv, DataLemmas, SequenceTheorems, TLAPS

-----------------------------------------------------------------------------
(* The sequence operators the dispatcher applies to v_observables.         *)

LEMMA TailFacts ==
    ASSUME NEW S, NEW seq \in Seq(S), seq # <<>>
    PROVE  /\ Tail(seq) \in Seq(S)
           /\ Len(Tail(seq)) = Len(seq) - 1
           /\ \A j \in 1..Len(seq) - 1 : Tail(seq)[j] = seq[j + 1]
  BY HeadTailProperties

-----------------------------------------------------------------------------
(* Type correctness.                                                       *)

LEMMA EnterType ==
    ASSUME TypeOK, NEW o \in Observables, NEW next, Enter(o, next)
    PROVE  /\ it' \in [pos: Nat \ {0}, buf: Nat, obj: Observables \cup {NoObject}]
           /\ visited' \subseteq Observables
<1>1. it' = [pos |-> it.pos, buf |-> it.buf, obj |-> o]
  BY DEF TypeOK, Enter
<1>2. it'.pos \in Nat \ {0} /\ it'.buf \in Nat
  BY <1>1 DEF TypeOK
<1>3. QED  BY <1>1, <1>2 DEF TypeOK, Enter

LEMMA SpawnType ==
    ASSUME TypeOK, NEW o \in Observables, Spawn(o)
    PROVE  /\ tasks' \in [Observables -> SUBSET {"cur", "prev"}]
           /\ launches' \in [Observables -> 0..2]
           /\ sinceLaunch' \in [Observables -> Nat]
<1>1. tasks' \in [Observables -> SUBSET {"cur", "prev"}]
  BY DEF TypeOK, Spawn
<1>2. launches' \in [Observables -> 0..2]
  <2>1. launches[o] \in 0..2 /\ launches \in [Observables -> 0..2]
    BY DEF TypeOK
  <2>2. (IF launches[o] < 2 THEN launches[o] + 1 ELSE 2) \in 0..2
    BY <2>1
  <2>3. QED  BY <2>1, <2>2 DEF Spawn
<1>3. sinceLaunch' \in [Observables -> Nat]
  BY DEF TypeOK, Spawn
<1>4. QED  BY <1>1, <1>2, <1>3

LEMMA RearmType ==
    ASSUME TypeOK, NEW o \in Observables, Rearm(o)
    PROVE  /\ untilNext' \in [Observables -> Nat]
           /\ isFinish' \in [Observables -> BOOLEAN]
<1>1. Interval[o] \in Nat
  BY TimerAssumption
<1>2. QED  BY <1>1 DEF TypeOK, Rearm

LEMMA TypeInit ==
    ASSUME Init PROVE TypeOK
<1> USE DEF Init
<1>1. /\ v_observables \in Seq(Observables)
      /\ destroyed \subseteq Observables
      /\ visited \subseteq Observables
  BY EmptySeq
<1>2. it \in [pos: Nat \ {0}, buf: Nat, obj: Observables \cup {NoObject}]
  OBVIOUS
<1>3. fut \in [Observables -> FutStates]
  BY DEF FutStates
<1>4. /\ tasks \in [Observables -> SUBSET {"cur", "prev"}]
      /\ launches \in [Observables -> 0..2]
      /\ call \in [Observables -> CallStates]
  BY DEF CallStates
<1>5. QED  BY <1>1, <1>2, <1>3, <1>4 DEF TypeOK, PcStates

LEMMA TypeStep ==
    ASSUME TypeOK, [Next]_vars PROVE TypeOK'
<1> USE TimerAssumption DEF TypeOK, CallStates, PcStates, FutStates, NoObject,
        Kinds, Modes
<1> USE DEF apiVars, vecVars, objVars, histVars
<1>1. ASSUME NEW o \in Observables, Call(o) PROVE TypeOK'
  BY <1>1 DEF Call
<1>2. ASSUME NEW o \in Observables, Start(o) PROVE TypeOK'
  BY <1>2 DEF Start
<1>3. ASSUME NEW o \in Observables, Detach(o) PROVE TypeOK'
  BY <1>3 DEF Detach
<1>4. ASSUME NEW o \in Observables, PushBack(o) PROVE TypeOK'
  <2>1. v_observables' \in Seq(Observables)
    BY <1>4, AppendProperties DEF PushBack
  <2>2. capacity' \in Nat /\ buffer' \in Nat
    <3>1. /\ capacity' = capacity \/ capacity' = 1 \/ capacity' = 2 * capacity
          /\ buffer' = buffer \/ buffer' = buffer + 1
      BY <1>4 DEF PushBack
    <3>2. capacity \in Nat /\ buffer \in Nat
      OBVIOUS
    <3> HIDE DEF TypeOK
    <3>3. QED  BY <3>1, <3>2
  <2>3. /\ untilNext' \in [Observables -> Nat]
        /\ sinceLaunch' \in [Observables -> Nat]
    <3>1. Interval[o] \in Nat
      OBVIOUS
    <3>2. QED  BY <1>4, <3>1 DEF PushBack
  <2>4. call' \in [Observables -> CallStates]
    BY <1>4 DEF PushBack
  <2>5. UNCHANGED <<b_isRunning, joinable, pc, it, isFinish, tasks, fut, retrieved,
                    destroyed, crash, visited, launches>>
    BY <1>4 DEF PushBack
  <2>6. QED  BY <2>1, <2>2, <2>3, <2>4, <2>5
<1>5. ASSUME NEW o \in Observables, PushRaces(o) PROVE TypeOK'
  BY <1>5 DEF PushRaces
<1>6. CASE Stop
  BY <1>6 DEF Stop
<1>7. CASE Loop
  BY <1>7 DEF Loop
<1>8. CASE While
  BY <1>8 DEF While, Begin
<1>9. CASE Wake
  BY <1>9 DEF Wake, Begin
<1>10. CASE EndScan
  BY <1>10 DEF EndScan
<1>11. CASE StaleAccess
  BY <1>11 DEF StaleAccess
<1>12. CASE Exit
  BY <1>12 DEF Exit
<1>13. ASSUME NEW o \in Observables, Skip(o) PROVE TypeOK'
  BY <1>13, EnterType DEF Skip, Enter
<1>14. ASSUME NEW o \in Observables, LaunchSlot(o) PROVE TypeOK'
  BY <1>14, EnterType, SpawnType, RearmType DEF LaunchSlot, Enter
<1>15. ASSUME NEW o \in Observables, LaunchTimer(o) PROVE TypeOK'
  BY <1>15, EnterType, SpawnType DEF LaunchTimer, Enter
<1>16. ASSUME NEW o \in Observables, Assign(o) PROVE TypeOK'
  BY <1>16, RearmType DEF Assign
<1>17. ASSUME NEW o \in Observables, Watch(o) PROVE TypeOK'
  BY <1>17, EnterType DEF Watch, Enter
<1>18. ASSUME NEW o \in Observables, Get(o) PROVE TypeOK'
  <2>1. CASE UNCHANGED <<tasks, retrieved, sinceLaunch, launches>>
    BY <1>18, <2>1 DEF Get
  <2>2. CASE Spawn(o) /\ retrieved' = [retrieved EXCEPT ![o] = TRUE]
    <3>1. retrieved' \in [Observables -> BOOLEAN]
      BY <2>2
    <3>2. pc' \in PcStates
      BY <1>18 DEF Get
    <3>3. UNCHANGED <<call, b_isRunning, joinable, v_observables, capacity, buffer,
                      it, untilNext, isFinish, fut, destroyed, crash, visited>>
      BY <1>18 DEF Get
    <3>4. QED  BY <2>2, <3>1, <3>2, <3>3, SpawnType
  <2>3. QED  BY <1>18, <2>1, <2>2 DEF Get
<1>19. ASSUME NEW o \in Observables, GetThrows(o) PROVE TypeOK'
  BY <1>19 DEF GetThrows
<1>20. ASSUME NEW o \in Observables, Join(o) PROVE TypeOK'
  BY <1>20 DEF Join
<1>21. ASSUME NEW o \in Observables, Keep(o) PROVE TypeOK'
  <2>1. it' = [pos |-> it.pos + 1, buf |-> it.buf, obj |-> NoObject]
    BY <1>21 DEF Keep
  <2>2. QED  BY <1>21, <2>1, SMTT(30) DEF Keep
<1>22. ASSUME NEW o \in Observables, Destroy(o) PROVE TypeOK'
  <2>1. v_observables' \in Seq(Observables)
    BY <1>22, RemoveAtFacts DEF Destroy, AtElement
  <2>2. it' = [pos |-> it.pos, buf |-> it.buf, obj |-> NoObject]
    BY <1>22 DEF Destroy, AfterErase
  <2>3. QED  BY <1>22, <2>1, <2>2, SMTT(30) DEF Destroy
<1>23. ASSUME NEW o \in Observables, Drain(o) PROVE TypeOK'
  <2>1. v_observables' \in Seq(Observables)
    BY <1>23, TailFacts, EmptySeq DEF Drain, AtElement
  <2>2. destroyed' \subseteq Observables
    BY <1>23 DEF Drain
  <2>3. UNCHANGED <<call, b_isRunning, joinable, capacity, buffer, pc, it,
                    untilNext, isFinish, tasks, fut, retrieved, crash, visited,
                    sinceLaunch, launches>>
    BY <1>23 DEF Drain
  <2>4. QED  BY <2>1, <2>2, <2>3
<1>24. ASSUME NEW o \in Observables, NEW t \in {"cur", "prev"}, Return(o, t)
       PROVE TypeOK'
  BY <1>24 DEF Return
<1>25. ASSUME NEW o \in Observables, NEW t \in {"cur", "prev"}, Fail(o, t)
       PROVE TypeOK'
  BY <1>25 DEF Fail
<1>26. ASSUME NEW o \in Observables, Resolve(o) PROVE TypeOK'
  <2>1. PICK s \in FutStates : fut' = [fut EXCEPT ![o] = s]
    BY <1>26 DEF Resolve
  <2>2. QED  BY <1>26, <2>1 DEF Resolve
<1>27. CASE Tick
  BY <1>27, SMTT(30) DEF Tick
<1>28. CASE UNCHANGED vars
  BY <1>28 DEF vars
<1> HIDE DEF TypeOK, CallStates, PcStates, FutStates, NoObject, Kinds, Modes,
        apiVars, vecVars, objVars, histVars
<1>29. ASSUME NEW o \in Observables, Api(o) \/ Task(o) \/ Resolve(o)
       PROVE TypeOK'
  BY <1>29, <1>1, <1>2, <1>3, <1>4, <1>5, <1>24, <1>25, <1>26
     DEF Api, Attach, Task
<1>30. ASSUME NEW o \in Observables,
              Notify(o) \/ Keep(o) \/ Destroy(o) \/ Drain(o)
       PROVE TypeOK'
  BY <1>30, <1>13, <1>14, <1>15, <1>16, <1>17, <1>18, <1>19, <1>20, <1>21,
     <1>22, <1>23 DEF Notify
<1>31. QED
  BY <1>6, <1>7, <1>8, <1>9, <1>10, <1>11, <1>12, <1>27, <1>28, <1>29, <1>30
     DEF Next, Dispatcher

\* Every variable keeps its type; in particular the iterator never moves in
\* front of the first element.
THEOREM TypeCorrect == Spec => []TypeOK
<1>1. Init => TypeOK
  BY TypeInit
<1>2. TypeOK /\ [Next]_vars => TypeOK'
  BY TypeStep
<1>3. QED  BY <1>1, <1>2, PTL DEF Spec

-----------------------------------------------------------------------------
(* What the steps of the dispatcher do to the vector and the marks.        *)

LEMMA AttachedIndex ==
    ASSUME TypeOK
    PROVE  /\ Len(v_observables) \in Nat
           /\ Attached \subseteq Observables
           /\ \A i \in 1..Len(v_observables) : v_observables[i] \in Attached
           /\ \A o \in Attached :
                \E i \in 1..Len(v_observables) : v_observables[i] = o
<1>1. v_observables \in Seq(Observables)
  BY DEF TypeOK
<1>2. QED  BY <1>1, LenProperties, ElementOfSeq DEF Attached, Range

LEMMA PushVector ==
    ASSUME TypeOK, NEW o \in Observables, PushBack(o)
    PROVE  /\ Len(v_observables') = Len(v_observables) + 1
           /\ \A j \in 1..Len(v_observables) : v_observables'[j] = v_observables[j]
           /\ v_observables'[Len(v_observables) + 1] = o
           /\ Attached' = Attached \cup {o}
<1>1. v_observables \in Seq(Observables) /\ v_observables' = Append(v_observables, o)
  BY DEF TypeOK, PushBack
<1>2. /\ v_observables' \in Seq(Observables)
      /\ Len(v_observables') = Len(v_observables) + 1
      /\ \A j \in 1..Len(v_observables) : v_observables'[j] = v_observables[j]
      /\ v_observables'[Len(v_observables) + 1] = o
  BY <1>1, AppendProperties
<1>3. /\ DOMAIN v_observables = 1..Len(v_observables)
      /\ DOMAIN v_observables' = 1..Len(v_observables) + 1
      /\ Len(v_observables) \in Nat
  BY <1>1, <1>2, LenProperties
<1>4. Attached' = Attached \cup {o}
  BY <1>2, <1>3 DEF Attached, Range
<1>5. QED  BY <1>2, <1>4

LEMMA DestroyVector ==
    ASSUME TypeOK, VectorInv, NEW o \in Observables, Destroy(o)
    PROVE  /\ it.pos \in 1..Len(v_observables) /\ v_observables[it.pos] = o
           /\ Len(v_observables') = Len(v_observables) - 1
           /\ \A j \in 1..Len(v_observables) - 1 : v_observables'[j] =
                IF j < it.pos THEN v_observables[j] ELSE v_observables[j + 1]
           /\ o \in Attached
           /\ Attached' = Attached \ {o}
<1>1. /\ v_observables \in Seq(Observables)
      /\ it.pos \in 1..Len(v_observables)
      /\ v_observables[it.pos] = o
      /\ v_observables' = RemoveAt(v_observables, it.pos)
  BY DEF TypeOK, Destroy, AtElement, Element
<1>2. /\ v_observables' \in Seq(Observables)
      /\ Len(v_observables') = Len(v_observables) - 1
      /\ \A j \in 1..Len(v_observables) - 1 : v_observables'[j] =
            IF j < it.pos THEN v_observables[j] ELSE v_observables[j + 1]
  BY <1>1, RemoveAtFacts
<1>3. /\ DOMAIN v_observables = 1..Len(v_observables)
      /\ DOMAIN v_observables' = 1..Len(v_observables) - 1
      /\ Len(v_observables) \in Nat
  BY <1>1, <1>2, LenProperties
<1>4. Attached' \subseteq Attached \ {o}
  <2> SUFFICES ASSUME NEW j \in 1..Len(v_observables) - 1
               PROVE  v_observables'[j] \in Attached \ {o}
    BY <1>3 DEF Attached, Range
  <2>1. \E k \in 1..Len(v_observables) :
           k # it.pos /\ v_observables'[j] = v_observables[k]
    <3>1. CASE j < it.pos
      BY <1>1, <1>2, <1>3, <3>1
    <3>2. CASE ~(j < it.pos)
      <4>1. j + 1 \in 1..Len(v_observables) /\ j + 1 # it.pos
        BY <1>1, <1>3, <3>2
      <4>2. QED  BY <1>2, <3>2, <4>1
    <3>3. QED  BY <3>1, <3>2
  <2>2. PICK k \in 1..Len(v_observables) :
           k # it.pos /\ v_observables'[j] = v_observables[k]
    BY <2>1
  <2>3. v_observables[k] # o
    BY <1>1, <2>2 DEF VectorInv
  <2>4. v_observables[k] \in Attached
    BY <1>3 DEF Attached, Range
  <2>5. QED  BY <2>2, <2>3, <2>4
<1>5. Attached \ {o} \subseteq Attached'
  <2> SUFFICES ASSUME NEW j \in 1..Len(v_observables), v_observables[j] # o
               PROVE  v_observables[j] \in Attached'
    BY <1>3 DEF Attached, Range
  <2>1. CASE j < it.pos
    BY <1>1, <1>2, <1>3, <2>1 DEF Attached, Range
  <2>2. CASE j > it.pos
    <3>1. j - 1 \in 1..Len(v_observables) - 1 /\ ~(j - 1 < it.pos) /\ (j - 1) + 1 = j
      BY <1>1, <1>3, <2>2
    <3>2. v_observables'[j - 1] = v_observables[j]
      BY <1>2, <3>1
    <3>3. QED  BY <1>3, <3>1, <3>2 DEF Attached, Range
  <2>3. j # it.pos
    BY <1>1
  <2>4. QED  BY <1>1, <1>3, <2>1, <2>2, <2>3
<1>6. o \in Attached
  BY <1>1, <1>3 DEF Attached, Range
<1>7. QED  BY <1>1, <1>2, <1>4, <1>5, <1>6

LEMMA DrainVector ==
    ASSUME TypeOK, VectorInv, IteratorInv, NEW o \in Observables, Drain(o)
    PROVE  /\ Len(v_observables') = Len(v_observables) - 1
           /\ \A j \in 1..Len(v_observables) - 1 :
                v_observables'[j] = v_observables[j + 1]
           /\ o \in Attached
           /\ Attached' = Attached \ {o}
<1>1. /\ v_observables \in Seq(Observables)
      /\ 1 \in 1..Len(v_observables)
      /\ v_observables[1] = o
      /\ v_observables' = Tail(v_observables)
  BY DEF TypeOK, Drain, AtElement, Element, IteratorInv
<1>2. /\ v_observables' \in Seq(Observables)
      /\ Len(v_observables') = Len(v_observables) - 1
      /\ \A j \in 1..Len(v_observables) - 1 :
            v_observables'[j] = v_observables[j + 1]
  BY <1>1, TailFacts, EmptySeq
<1>3. /\ DOMAIN v_observables = 1..Len(v_observables)
      /\ DOMAIN v_observables' = 1..Len(v_observables) - 1
      /\ Len(v_observables) \in Nat
  BY <1>1, <1>2, LenProperties
<1>4. Attached' \subseteq Attached \ {o}
  <2> SUFFICES ASSUME NEW j \in 1..Len(v_observables) - 1
               PROVE  v_observables[j + 1] \in Attached \ {o}
    BY <1>2, <1>3 DEF Attached, Range
  <2>1. QED  BY <1>1, <1>3 DEF VectorInv, Attached, Range
<1>5. Attached \ {o} \subseteq Attached'
  <2> SUFFICES ASSUME NEW j \in 1..Len(v_observables), v_observables[j] # o
               PROVE  v_observables[j] \in Attached'
    BY <1>3 DEF Attached, Range
  <2>1. j - 1 \in 1..Len(v_observables) - 1 /\ (j - 1) + 1 = j
    BY <1>1, <1>3
  <2>2. v_observables'[j - 1] = v_observables[j]
    BY <1>2, <2>1
  <2>3. QED  BY <1>3, <2>1, <2>2 DEF Attached, Range
<1>6. o \in Attached
  BY <1>1, <1>3 DEF Attached, Range
<1>7. QED  BY <1>2, <1>4, <1>5, <1>6

LEMMA EnterFacts ==
    ASSUME TypeOK, NEW o \in Observables, NEW next, Enter(o, next)
    PROVE  /\ it'.pos = it.pos /\ it'.buf = it.buf /\ it'.obj = o
           /\ pc = "scan" /\ pc' = next
           /\ ~Stale
           /\ it.pos \in 1..Len(v_observables) /\ v_observables[it.pos] = o
           /\ o \in Attached
           /\ visited' = visited \cup {o}
<1>1. it' = [pos |-> it.pos, buf |-> it.buf, obj |-> o]
  BY DEF TypeOK, Enter
<1>2. it.pos \in 1..Len(v_observables) /\ v_observables[it.pos] = o
  BY DEF Enter, AtElement, Element
<1>3. QED  BY <1>1, <1>2, AttachedIndex DEF Enter, AtElement

LEMMA SpawnFacts ==
    ASSUME TypeOK, NEW o \in Observables, Spawn(o)
    PROVE  /\ "cur" \in tasks'[o]
           /\ "prev" \in tasks'[o] => "cur" \in tasks[o]
           /\ launches'[o] > 0 /\ (launches[o] = 0 => launches'[o] = 1)
           /\ sinceLaunch'[o] = 0
           /\ \A p \in Observables \ {o} :
                /\ tasks'[p] = tasks[p]
                /\ launches'[p] = launches[p]
                /\ sinceLaunch'[p] = sinceLaunch[p]
<1>1. launches[o] \in 0..2
  BY DEF TypeOK
<1>2. /\ launches'[o] = IF launches[o] < 2 THEN launches[o] + 1 ELSE 2
      /\ tasks'[o] = {"cur"} \cup IF "cur" \in tasks[o] THEN {"prev"} ELSE {}
  BY DEF TypeOK, Spawn
<1>3. /\ sinceLaunch'[o] = 0
      /\ \A p \in Observables \ {o} :
           /\ tasks'[p] = tasks[p]
           /\ launches'[p] = launches[p]
           /\ sinceLaunch'[p] = sinceLaunch[p]
  BY DEF TypeOK, Spawn
<1>4. QED  BY <1>1, <1>2, <1>3

LEMMA RearmFacts ==
    ASSUME TypeOK, NEW o \in Observables, Rearm(o)
    PROVE  /\ Mode[o] = "continuous" =>
                untilNext'[o] = Interval[o] /\ isFinish'[o] = isFinish[o]
           /\ Mode[o] = "singleshot" => isFinish'[o]
           /\ \A p \in Observables \ {o} :
                untilNext'[p] = untilNext[p] /\ isFinish'[p] = isFinish[p]
<1>1. /\ untilNext \in [Observables -> Nat]
      /\ isFinish \in [Observables -> BOOLEAN]
      /\ Mode[o] \in Modes
  BY TimerAssumption DEF TypeOK
<1>2. CASE Mode[o] = "continuous"
  BY <1>1, <1>2 DEF Rearm
<1>3. CASE Mode[o] = "singleshot"
  BY <1>1, <1>3 DEF Rearm
<1>4. QED  BY <1>1, <1>2, <1>3 DEF Modes

-----------------------------------------------------------------------------
(* Entering notify(), for whichever class.                                 *)

LEMMA EnterInv ==
    ASSUME TypeOK, VectorInv, IteratorInv, ScanInv, NEW o \in Observables,
           NEW next \in {"assign", "get", "join", "reap"}, Enter(o, next),
           UNCHANGED <<call, vecVars, destroyed>>,
           next = "assign" => Kind[o] = "timer",
           next = "get" => Kind[o] = "future",
           next = "join" => Kind[o] # "timer"
    PROVE  VectorInv' /\ IteratorInv' /\ ScanInv'
<1>1. /\ it'.pos = it.pos /\ it'.buf = it.buf /\ it'.obj = o
      /\ pc = "scan" /\ pc' = next
      /\ ~Stale
      /\ it.pos \in 1..Len(v_observables) /\ v_observables[it.pos] = o
      /\ o \in Attached
      /\ visited' = visited \cup {o}
  BY EnterFacts
<1>2. /\ v_observables' = v_observables /\ buffer' = buffer
      /\ call' = call /\ destroyed' = destroyed /\ Attached' = Attached
  BY DEF vecVars, Attached
<1>3. VectorInv'
  BY <1>1, <1>2 DEF VectorInv
<1>4. IteratorInv'
  BY <1>1, <1>2 DEF IteratorInv, Stale
<1>5. ASSUME NEW j \in 1..Len(v_observables)
      PROVE  v_observables[j] \in visited' <=> j <= it.pos
  <2>1. v_observables[j] \in visited <=> j < it.pos
    BY <1>1 DEF ScanInv
  <2>2. v_observables[j] = o <=> j = it.pos
    BY <1>1 DEF VectorInv
  <2>3. QED  BY <1>1, <2>1, <2>2
<1>6. ScanInv'
  BY <1>1, <1>2, <1>5 DEF ScanInv
<1>7. QED  BY <1>3, <1>4, <1>6

LEMMA SkipInv ==
    ASSUME TypeOK, TimerInvariant, NEW o \in Observables, Skip(o)
    PROVE  TimerInvariant'
<1>1. VectorInv' /\ IteratorInv' /\ ScanInv'
  BY EnterInv DEF TimerInvariant, Skip, apiVars, vecVars, objVars
<1>2. /\ pc = "scan" /\ pc' = "reap"
      /\ UNCHANGED <<call, tasks, isFinish, launches, retrieved, destroyed>>
      /\ UNCHANGED <<sinceLaunch, untilNext, crash>>
      /\ Attached' = Attached
  BY EnterFacts DEF Skip, apiVars, vecVars, objVars, Attached
<1>3. ASSUME NEW p \in Observables PROVE TaskOf(p)'
  BY <1>2 DEF TimerInvariant, TaskInv, TaskOf
<1>4. ASSUME NEW p \in Observables PROVE MarkOf(p)'
  BY <1>2 DEF TimerInvariant, MarkInv, MarkOf, toDestroy
<1>5. ASSUME NEW p \in Observables PROVE TimeOf(p)'
  BY <1>2 DEF TimerInvariant, TimeInv, TimeOf
<1>6. TerminateOnlyByFuture'
  BY <1>2 DEF TimerInvariant, TerminateOnlyByFuture
<1>7. QED  BY <1>1, <1>3, <1>4, <1>5, <1>6
           DEF TimerInvariant, TaskInv, MarkInv, TimeInv

LEMMA WatchInv ==
    ASSUME TypeOK, TimerInvariant, NEW o \in Observables, Watch(o)
    PROVE  TimerInvariant'
<1>1. VectorInv' /\ IteratorInv' /\ ScanInv'
  BY EnterInv DEF TimerInvariant, Watch, apiVars, vecVars, objVars
<1>2. /\ pc = "scan" /\ pc' = "get"
      /\ UNCHANGED <<call, tasks, isFinish, launches, retrieved, destroyed>>
      /\ UNCHANGED <<sinceLaunch, untilNext, crash>>
      /\ Attached' = Attached
  BY EnterFacts DEF Watch, apiVars, vecVars, objVars, Attached
<1>3. ASSUME NEW p \in Observables PROVE TaskOf(p)'
  BY <1>2 DEF TimerInvariant, TaskInv, TaskOf
<1>4. ASSUME NEW p \in Observables PROVE MarkOf(p)'
  BY <1>2 DEF TimerInvariant, MarkInv, MarkOf, toDestroy
<1>5. ASSUME NEW p \in Observables PROVE TimeOf(p)'
  BY <1>2 DEF TimerInvariant, TimeInv, TimeOf
<1>6. crash' # "terminate"
  BY <1>2 DEF TimerInvariant, TerminateOnlyByFuture
<1>7. QED  BY <1>1, <1>3, <1>4, <1>5, <1>6
           DEF TimerInvariant, TaskInv, MarkInv, TimeInv, TerminateOnlyByFuture

LEMMA LaunchSlotInv ==
    ASSUME TypeOK, TimerInvariant, NEW o \in Observables, LaunchSlot(o),
           crash = "none"
    PROVE  TimerInvariant'
<1>1. VectorInv' /\ IteratorInv' /\ ScanInv'
  BY EnterInv DEF TimerInvariant, LaunchSlot, apiVars, vecVars
<1>2. /\ pc = "scan" /\ pc' = "join" /\ it'.obj = o /\ o \in Attached
      /\ Kind[o] = "slot"
      /\ UNCHANGED <<call, retrieved, destroyed, crash>>
      /\ Attached' = Attached
  BY EnterFacts DEF LaunchSlot, apiVars, vecVars, Attached
<1>3. TaskOf(o) /\ MarkOf(o) /\ TimeOf(o)
  BY DEF TimerInvariant, TaskInv, MarkInv, TimeInv
<1>4. call[o] = "attached" /\ o \notin destroyed
  BY <1>2 DEF TimerInvariant, VectorInv
<1>5. Mode[o] \in {"singleshot", "continuous"}
  BY TimerAssumption DEF Modes
<1>6. /\ tasks[o] = {}
      /\ ~toDestroy(o)
      /\ Mode[o] = "singleshot" => launches[o] = 0
  <2>1. launches[o] \in Nat
    BY DEF TypeOK
  <2>2. QED  BY <1>2, <1>3, <2>1 DEF TaskOf, MarkOf, toDestroy
<1>7. /\ "prev" \notin tasks'[o]
      /\ launches'[o] > 0 /\ (launches[o] = 0 => launches'[o] = 1)
      /\ sinceLaunch'[o] = 0
      /\ \A p \in Observables \ {o} :
           /\ tasks'[p] = tasks[p]
           /\ launches'[p] = launches[p]
           /\ sinceLaunch'[p] = sinceLaunch[p]
  BY <1>6, SpawnFacts DEF LaunchSlot
<1>8. /\ Mode[o] = "continuous" =>
           untilNext'[o] = Interval[o] /\ isFinish'[o] = isFinish[o]
      /\ Mode[o] = "singleshot" => isFinish'[o]
      /\ \A p \in Observables \ {o} :
           untilNext'[p] = untilNext[p] /\ isFinish'[p] = isFinish[p]
  BY RearmFacts DEF LaunchSlot
<1>9. ASSUME NEW p \in Observables PROVE TaskOf(p)' /\ MarkOf(p)' /\ TimeOf(p)'
  <2>1. CASE p = o
    <3>1. TaskOf(o)'
      BY <1>2, <1>4, <1>7 DEF TaskOf
    <3>2. MarkOf(o)'
      BY <1>2, <1>3, <1>4, <1>5, <1>6, <1>7, <1>8 DEF MarkOf, toDestroy
    <3>3. TimeOf(o)'
      <4>1. Interval[o] \in Nat
        BY TimerAssumption
      <4>2. QED  BY <1>5, <1>7, <1>8, <4>1 DEF TimeOf
    <3>4. QED  BY <2>1, <3>1, <3>2, <3>3
  <2>2. CASE p # o
    <3>1. TaskOf(p) /\ MarkOf(p) /\ TimeOf(p)
      BY DEF TimerInvariant, TaskInv, MarkInv, TimeInv
    <3>2. TaskOf(p)'
      BY <1>2, <1>7, <2>2, <3>1 DEF TaskOf
    <3>3. MarkOf(p)'
      BY <1>2, <1>7, <1>8, <2>2, <3>1 DEF MarkOf, toDestroy
    <3>4. TimeOf(p)'
      BY <1>2, <1>7, <1>8, <2>2, <3>1 DEF TimeOf
    <3>5. QED  BY <3>2, <3>3, <3>4
  <2>3. QED  BY <2>1, <2>2
<1>10. QED  BY <1>1, <1>2, <1>9
            DEF TimerInvariant, TaskInv, MarkInv, TimeInv, TerminateOnlyByFuture

LEMMA LaunchTimerInv ==
    ASSUME TypeOK, TimerInvariant, NEW o \in Observables, LaunchTimer(o),
           crash = "none"
    PROVE  TimerInvariant'
<1>1. VectorInv' /\ IteratorInv' /\ ScanInv'
  BY EnterInv DEF TimerInvariant, LaunchTimer, apiVars, vecVars
<1>2. /\ pc = "scan" /\ pc' = "assign" /\ it'.obj = o /\ o \in Attached
      /\ Kind[o] = "timer"
      /\ UNCHANGED <<call, retrieved, destroyed, crash, untilNext, isFinish>>
      /\ Attached' = Attached
  BY EnterFacts DEF LaunchTimer, apiVars, vecVars, Attached
<1>3. TaskOf(o) /\ MarkOf(o) /\ TimeOf(o)
  BY DEF TimerInvariant, TaskInv, MarkInv, TimeInv
<1>4. call[o] = "attached" /\ o \notin destroyed
  BY <1>2 DEF TimerInvariant, VectorInv
<1>5. /\ "prev" \notin tasks[o]
      /\ ~toDestroy(o)
      /\ Mode[o] = "singleshot" => launches[o] = 0
  <2>1. launches[o] \in Nat
    BY DEF TypeOK
  <2>2. QED  BY <1>2, <1>3, <2>1 DEF TaskOf, MarkOf, toDestroy
<1>6. /\ launches'[o] > 0 /\ (launches[o] = 0 => launches'[o] = 1)
      /\ \A p \in Observables \ {o} :
           /\ tasks'[p] = tasks[p]
           /\ launches'[p] = launches[p]
           /\ sinceLaunch'[p] = sinceLaunch[p]
  BY SpawnFacts DEF LaunchTimer
<1>7. ASSUME NEW p \in Observables PROVE TaskOf(p)' /\ MarkOf(p)' /\ TimeOf(p)'
  <2>1. CASE p = o
    <3>1. TaskOf(o)'
      BY <1>2, <1>4 DEF TaskOf
    <3>2. MarkOf(o)'
      BY <1>2, <1>3, <1>4, <1>5, <1>6 DEF MarkOf, toDestroy
    <3>3. TimeOf(o)'
      BY <1>2 DEF TimeOf
    <3>4. QED  BY <2>1, <3>1, <3>2, <3>3
  <2>2. CASE p # o
    <3>1. TaskOf(p) /\ MarkOf(p) /\ TimeOf(p)
      BY DEF TimerInvariant, TaskInv, MarkInv, TimeInv
    <3>2. TaskOf(p)'
      BY <1>2, <1>6, <2>2, <3>1 DEF TaskOf
    <3>3. MarkOf(p)'
      BY <1>2, <1>6, <2>2, <3>1 DEF MarkOf, toDestroy
    <3>4. TimeOf(p)'
      BY <1>2, <1>6, <2>2, <3>1 DEF TimeOf
    <3>5. QED  BY <3>2, <3>3, <3>4
  <2>3. QED  BY <2>1, <2>2
<1>8. QED  BY <1>1, <1>2, <1>7
           DEF TimerInvariant, TaskInv, MarkInv, TimeInv, TerminateOnlyByFuture

LEMMA AssignInv ==
    ASSUME TypeOK, TimerInvariant, NEW o \in Observables, Assign(o),
           crash = "none"
    PROVE  TimerInvariant'
<1>1. /\ pc = "assign" /\ pc' = "reap" /\ it.obj = o
      /\ "prev" \notin tasks[o]
      /\ UNCHANGED <<call, retrieved, destroyed, crash, v_observables, buffer>>
      /\ UNCHANGED <<it, tasks, visited, launches, sinceLaunch>>
      /\ Attached' = Attached
  BY DEF Assign, PrevDone, apiVars, vecVars, histVars, Attached
<1>2. Kind[o] = "timer" /\ Mode[o] \in {"singleshot", "continuous"}
  BY <1>1, TimerAssumption DEF TimerInvariant, IteratorInv, Modes
<1>3. VectorInv' /\ IteratorInv' /\ ScanInv'
  <2>1. VectorInv'
    BY <1>1 DEF TimerInvariant, VectorInv
  <2>2. IteratorInv'
    BY <1>1 DEF TimerInvariant, IteratorInv, Stale
  <2>3. ScanInv'
    BY <1>1 DEF TimerInvariant, ScanInv, Stale
  <2>4. QED  BY <2>1, <2>2, <2>3
<1>4. /\ Mode[o] = "continuous" =>
           untilNext'[o] = Interval[o] /\ isFinish'[o] = isFinish[o]
      /\ Mode[o] = "singleshot" => isFinish'[o]
      /\ \A p \in Observables \ {o} :
           untilNext'[p] = untilNext[p] /\ isFinish'[p] = isFinish[p]
  BY RearmFacts DEF Assign
<1>5. ASSUME NEW p \in Observables PROVE TaskOf(p)' /\ MarkOf(p)' /\ TimeOf(p)'
  <2>1. TaskOf(p) /\ MarkOf(p) /\ TimeOf(p)
    BY DEF TimerInvariant, TaskInv, MarkInv, TimeInv
  <2>2. TaskOf(p)'
    BY <1>1, <2>1 DEF TaskOf
  <2>3. CASE p = o
    <3>1. call[o] = "attached"
      BY <1>1 DEF TimerInvariant, VectorInv, IteratorInv
    <3>2. MarkOf(o)'
      BY <1>1, <1>2, <1>4, <2>1, <2>3, <3>1 DEF MarkOf, toDestroy
    <3>3. TimeOf(o)'
      <4>1. Interval[o] \in Nat /\ sinceLaunch[o] \in Nat
        BY TimerAssumption DEF TypeOK
      <4>2. QED  BY <1>1, <1>2, <1>4, <4>1 DEF TimeOf
    <3>4. QED  BY <2>2, <2>3, <3>2, <3>3
  <2>4. CASE p # o
    <3>1. MarkOf(p)'
      BY <1>1, <1>4, <2>1, <2>4 DEF MarkOf, toDestroy
    <3>2. TimeOf(p)'
      BY <1>1, <1>4, <2>1, <2>4 DEF TimeOf
    <3>3. QED  BY <2>2, <3>1, <3>2
  <2>5. QED  BY <2>3, <2>4
<1>6. QED  BY <1>1, <1>3, <1>5
           DEF TimerInvariant, TaskInv, MarkInv, TimeInv, TerminateOnlyByFuture

LEMMA GetInv ==
    ASSUME TypeOK, TimerInvariant, NEW o \in Observables, Get(o),
           crash = "none"
    PROVE  TimerInvariant'
<1>1. /\ pc = "get" /\ it.obj = o
      /\ UNCHANGED <<call, destroyed, crash, v_observables, buffer>>
      /\ UNCHANGED <<it, visited, isFinish, untilNext>>
      /\ Attached' = Attached
  BY DEF Get, apiVars, vecVars, Attached
<1>2. Kind[o] = "future" /\ o \in Attached
  BY <1>1 DEF TimerInvariant, IteratorInv
<1>3. call[o] = "attached" /\ o \notin destroyed
  BY <1>2 DEF TimerInvariant, VectorInv
<1>4. \/ pc' = "reap" /\ UNCHANGED <<tasks, retrieved, sinceLaunch, launches>>
      \/ /\ pc' = "join" /\ ~retrieved[o]
         /\ retrieved' = [retrieved EXCEPT ![o] = TRUE]
         /\ Spawn(o)
  BY DEF Get
<1>5. VectorInv' /\ IteratorInv' /\ ScanInv'
  <2>1. VectorInv'
    BY <1>1 DEF TimerInvariant, VectorInv
  <2>2. IteratorInv'
    BY <1>1, <1>2, <1>4 DEF TimerInvariant, IteratorInv, Stale
  <2>3. ScanInv'
    BY <1>1, <1>4 DEF TimerInvariant, ScanInv, Stale
  <2>4. QED  BY <2>1, <2>2, <2>3
<1>6. CASE pc' = "reap" /\ UNCHANGED <<tasks, retrieved, sinceLaunch, launches>>
  <2>1. ASSUME NEW p \in Observables
        PROVE  TaskOf(p)' /\ MarkOf(p)' /\ TimeOf(p)'
    <3>1. TaskOf(p) /\ MarkOf(p) /\ TimeOf(p)
      BY DEF TimerInvariant, TaskInv, MarkInv, TimeInv
    <3>2. TaskOf(p)'
      BY <1>1, <1>6, <3>1 DEF TaskOf
    <3>3. MarkOf(p)'
      BY <1>1, <1>6, <3>1 DEF MarkOf, toDestroy
    <3>4. TimeOf(p)'
      BY <1>1, <1>6, <3>1 DEF TimeOf
    <3>5. QED  BY <3>2, <3>3, <3>4
  <2>2. QED  BY <1>1, <1>5, <2>1
             DEF TimerInvariant, TaskInv, MarkInv, TimeInv, TerminateOnlyByFuture
<1>7. CASE /\ pc' = "join" /\ ~retrieved[o]
           /\ retrieved' = [retrieved EXCEPT ![o] = TRUE]
           /\ Spawn(o)
  <2>1. /\ retrieved'[o]
        /\ \A p \in Observables \ {o} : retrieved'[p] = retrieved[p]
    BY <1>7 DEF TypeOK
  <2>2. TaskOf(o) /\ MarkOf(o)
    BY DEF TimerInvariant, TaskInv, MarkInv
  <2>3. tasks[o] = {} /\ launches[o] = 0 /\ ~isFinish[o]
    <3>1. launches[o] \in Nat
      BY DEF TypeOK
    <3>2. QED  BY <1>1, <1>2, <1>7, <2>2, <3>1 DEF TaskOf, MarkOf, toDestroy
  <2>4. /\ "prev" \notin tasks'[o]
        /\ launches'[o] = 1
        /\ \A p \in Observables \ {o} :
             /\ tasks'[p] = tasks[p]
             /\ launches'[p] = launches[p]
             /\ sinceLaunch'[p] = sinceLaunch[p]
    BY <1>7, <2>3, SpawnFacts
  <2>5. ASSUME NEW p \in Observables
        PROVE  TaskOf(p)' /\ MarkOf(p)' /\ TimeOf(p)'
    <3>1. TaskOf(p) /\ MarkOf(p) /\ TimeOf(p)
      BY DEF TimerInvariant, TaskInv, MarkInv, TimeInv
    <3>2. TaskOf(p)'
      BY <1>1, <1>2, <1>3, <1>7, <2>4, <3>1 DEF TaskOf
    <3>3. MarkOf(p)'
      BY <1>1, <1>2, <1>3, <1>7, <2>1, <2>3, <2>4, <3>1 DEF MarkOf, toDestroy
    <3>4. TimeOf(p)'
      BY <1>1, <1>2, <1>7, <2>4, <3>1 DEF TimeOf
    <3>5. QED  BY <3>2, <3>3, <3>4
  <2>6. QED  BY <1>1, <1>5, <2>5
             DEF TimerInvariant, TaskInv, MarkInv, TimeInv, TerminateOnlyByFuture
<1>8. QED  BY <1>4, <1>6, <1>7

LEMMA KeepInv ==
    ASSUME TypeOK, TimerInvariant, NEW o \in Observables, Keep(o),
           crash = "none"
    PROVE  TimerInvariant'
<1>1. /\ it'.pos = it.pos + 1 /\ it'.buf = it.buf
      /\ pc = "reap" /\ pc' = "scan" /\ ~toDestroy(o) /\ ~Stale
      /\ it.pos \in 1..Len(v_observables) /\ v_observables[it.pos] = o
      /\ UNCHANGED <<call, retrieved, destroyed, crash, v_observables, buffer>>
      /\ UNCHANGED <<tasks, visited, launches, sinceLaunch, isFinish, untilNext>>
      /\ Attached' = Attached
  <2>1. it' = [pos |-> it.pos + 1, buf |-> it.buf, obj |-> NoObject]
    BY DEF Keep, TypeOK
  <2>2. QED  BY <2>1 DEF Keep, AtElement, Element, apiVars, vecVars, objVars,
                         histVars, Attached
<1>2. it.obj = o
  BY <1>1 DEF TimerInvariant, IteratorInv
<1>3. Len(v_observables) \in Nat
  BY AttachedIndex
<1>4. VectorInv'
  BY <1>1 DEF TimerInvariant, VectorInv
<1>5. IteratorInv'
  BY <1>1, <1>3 DEF TimerInvariant, IteratorInv, Stale
<1>6. ScanInv'
  <2>1. ASSUME NEW j \in 1..Len(v_observables)
        PROVE  v_observables[j] \in visited <=> j < it.pos + 1
    <3>1. v_observables[j] \in visited <=> j <= it.pos
      BY <1>1 DEF TimerInvariant, ScanInv
    <3>2. QED  BY <1>1, <1>3, <3>1
  <2>2. QED  BY <1>1, <2>1 DEF ScanInv
<1>7. ASSUME NEW p \in Observables PROVE TaskOf(p)' /\ MarkOf(p)' /\ TimeOf(p)'
  <2>1. TaskOf(p) /\ MarkOf(p) /\ TimeOf(p)
    BY DEF TimerInvariant, TaskInv, MarkInv, TimeInv
  <2>2. TaskOf(p)'
    BY <1>1, <2>1 DEF TaskOf
  <2>3. MarkOf(p)'
    BY <1>1, <1>2, <2>1 DEF MarkOf, toDestroy
  <2>4. TimeOf(p)'
    BY <1>1, <2>1 DEF TimeOf
  <2>5. QED  BY <2>2, <2>3, <2>4
<1>8. QED  BY <1>1, <1>4, <1>5, <1>6, <1>7
           DEF TimerInvariant, TaskInv, MarkInv, TimeInv, TerminateOnlyByFuture

LEMMA DestroyInv ==
    ASSUME TypeOK, TimerInvariant, NEW o \in Observables, Destroy(o),
           crash = "none"
    PROVE  TimerInvariant'
<1>1. /\ pc = "reap" /\ pc' = "scan" /\ ~Stale
      /\ it'.pos = it.pos /\ it'.buf = it.buf
      /\ destroyed' = destroyed \cup {o}
      /\ Kind[o] = "timer" => "cur" \notin tasks[o]
      /\ UNCHANGED <<call, retrieved, crash, buffer>>
      /\ UNCHANGED <<tasks, visited, launches, sinceLaunch, isFinish, untilNext>>
  <2>1. it' = [pos |-> it.pos, buf |-> it.buf, obj |-> NoObject]
    BY DEF Destroy, AfterErase, TypeOK
  <2>2. QED  BY <2>1 DEF Destroy, AtElement, Destructible, apiVars, histVars
<1>2. /\ it.pos \in 1..Len(v_observables) /\ v_observables[it.pos] = o
      /\ Len(v_observables') = Len(v_observables) - 1
      /\ \A j \in 1..Len(v_observables) - 1 : v_observables'[j] =
           IF j < it.pos THEN v_observables[j] ELSE v_observables[j + 1]
      /\ o \in Attached
      /\ Attached' = Attached \ {o}
      /\ Len(v_observables) \in Nat
  BY DestroyVector, AttachedIndex DEF TimerInvariant
<1>3. it.obj = o
  BY <1>1, <1>2 DEF TimerInvariant, IteratorInv
<1>4. ASSUME NEW j \in 1..Len(v_observables) - 1
      PROVE  \E k \in 1..Len(v_observables) :
                /\ v_observables'[j] = v_observables[k]
                /\ k = IF j < it.pos THEN j ELSE j + 1
  <2>1. CASE j < it.pos
    BY <1>2, <2>1
  <2>2. CASE ~(j < it.pos)
    <3>1. j + 1 \in 1..Len(v_observables)
      BY <1>2
    <3>2. QED  BY <1>2, <2>2, <3>1
  <2>3. QED  BY <2>1, <2>2
<1>5. VectorInv'
  <2>1. ASSUME NEW i \in 1..Len(v_observables'), NEW j \in 1..Len(v_observables'),
               v_observables'[i] = v_observables'[j]
        PROVE  i = j
    <3>1. i \in 1..Len(v_observables) - 1 /\ j \in 1..Len(v_observables) - 1
      BY <1>2
    <3>2. PICK k \in 1..Len(v_observables) :
             /\ v_observables'[i] = v_observables[k]
             /\ k = IF i < it.pos THEN i ELSE i + 1
      BY <1>4, <3>1
    <3>3. PICK l \in 1..Len(v_observables) :
             /\ v_observables'[j] = v_observables[l]
             /\ l = IF j < it.pos THEN j ELSE j + 1
      BY <1>4, <3>1
    <3>4. k = l
      BY <2>1, <3>2, <3>3 DEF TimerInvariant, VectorInv
    <3>5. QED  BY <1>2, <3>1, <3>2, <3>3, <3>4
  <2>2. /\ \A p \in Attached' \cup destroyed' \cup visited' : call'[p] = "attached"
        /\ Attached' \cap destroyed' = {}
    BY <1>1, <1>2 DEF TimerInvariant, VectorInv
  <2>3. QED  BY <2>1, <2>2 DEF VectorInv
<1>6. IteratorInv'
  BY <1>1, <1>2 DEF TimerInvariant, IteratorInv, Stale
<1>7. ScanInv'
  <2>1. ASSUME NEW j \in 1..Len(v_observables) - 1
        PROVE  v_observables'[j] \in visited <=> j < it.pos
    <3>1. PICK k \in 1..Len(v_observables) :
             /\ v_observables'[j] = v_observables[k]
             /\ k = IF j < it.pos THEN j ELSE j + 1
      BY <1>4
    <3>2. v_observables[k] \in visited <=> k <= it.pos
      BY <1>1 DEF TimerInvariant, ScanInv
    <3>3. QED  BY <1>2, <3>1, <3>2
  <2>2. QED  BY <1>1, <1>2, <2>1 DEF ScanInv
<1>8. ASSUME NEW p \in Observables PROVE TaskOf(p)' /\ MarkOf(p)' /\ TimeOf(p)'
  <2>1. TaskOf(p) /\ MarkOf(p) /\ TimeOf(p)
    BY DEF TimerInvariant, TaskInv, MarkInv, TimeInv
  <2>2. TaskOf(p)'
    <3>1. p = o => tasks[o] = {}
      <4>1. tasks[o] \subseteq {"cur", "prev"}
        BY DEF TypeOK
      <4>2. QED  BY <1>1, <2>1, <4>1 DEF TaskOf
    <3>2. QED  BY <1>1, <2>1, <3>1 DEF TaskOf
  <2>3. MarkOf(p)'
    BY <1>1, <1>2, <1>3, <2>1 DEF MarkOf, toDestroy
  <2>4. TimeOf(p)'
    BY <1>1, <1>2, <2>1 DEF TimeOf
  <2>5. QED  BY <2>2, <2>3, <2>4
<1>9. QED  BY <1>1, <1>5, <1>6, <1>7, <1>8
           DEF TimerInvariant, TaskInv, MarkInv, TimeInv, TerminateOnlyByFuture

LEMMA DrainInv ==
    ASSUME TypeOK, TimerInvariant, NEW o \in Observables, Drain(o),
           crash = "none"
    PROVE  TimerInvariant'
<1>1. /\ pc = "drain" /\ pc' = "drain"
      /\ destroyed' = destroyed \cup {o}
      /\ Kind[o] = "timer" => "cur" \notin tasks[o]
      /\ UNCHANGED <<call, retrieved, crash, buffer, it>>
      /\ UNCHANGED <<tasks, visited, launches, sinceLaunch, isFinish, untilNext>>
  BY DEF Drain, Destructible, apiVars, histVars
<1>2. /\ Len(v_observables') = Len(v_observables) - 1
      /\ \A j \in 1..Len(v_observables) - 1 :
           v_observables'[j] = v_observables[j + 1]
      /\ o \in Attached
      /\ Attached' = Attached \ {o}
      /\ Len(v_observables) \in Nat
  BY DrainVector, AttachedIndex DEF TimerInvariant
<1>3. VectorInv'
  <2>1. ASSUME NEW i \in 1..Len(v_observables'), NEW j \in 1..Len(v_observables'),
               v_observables'[i] = v_observables'[j]
        PROVE  i = j
    <3>1. /\ i + 1 \in 1..Len(v_observables) /\ j + 1 \in 1..Len(v_observables)
          /\ v_observables[i + 1] = v_observables[j + 1]
      BY <1>2, <2>1
    <3>2. i + 1 = j + 1
      BY <3>1 DEF TimerInvariant, VectorInv
    <3>3. QED  BY <3>2
  <2>2. /\ \A p \in Attached' \cup destroyed' \cup visited' : call'[p] = "attached"
        /\ Attached' \cap destroyed' = {}
    BY <1>1, <1>2 DEF TimerInvariant, VectorInv
  <2>3. QED  BY <2>1, <2>2 DEF VectorInv
<1>4. IteratorInv' /\ ScanInv'
  BY <1>1 DEF TimerInvariant, IteratorInv, ScanInv
<1>5. ASSUME NEW p \in Observables PROVE TaskOf(p)' /\ MarkOf(p)' /\ TimeOf(p)'
  <2>1. TaskOf(p) /\ MarkOf(p) /\ TimeOf(p)
    BY DEF TimerInvariant, TaskInv, MarkInv, TimeInv
  <2>2. TaskOf(p)'
    <3>1. p = o => tasks[o] = {}
      <4>1. tasks[o] \subseteq {"cur", "prev"}
        BY DEF TypeOK
      <4>2. QED  BY <1>1, <2>1, <4>1 DEF TaskOf
    <3>2. QED  BY <1>1, <2>1, <3>1 DEF TaskOf
  <2>3. MarkOf(p)'
    BY <1>1, <1>2, <2>1 DEF MarkOf, toDestroy
  <2>4. TimeOf(p)'
    BY <1>1, <1>2, <2>1 DEF TimeOf
  <2>5. QED  BY <2>2, <2>3, <2>4
<1>6. QED  BY <1>1, <1>3, <1>4, <1>5
           DEF TimerInvariant, TaskInv, MarkInv, TimeInv, TerminateOnlyByFuture

LEMMA PushBackInv ==
    ASSUME TypeOK, TimerInvariant, NEW o \in Observables, PushBack(o),
           crash = "none"
    PROVE  TimerInvariant'
<1>1. /\ Len(v_observables') = Len(v_observables) + 1
      /\ \A j \in 1..Len(v_observables) : v_observables'[j] = v_observables[j]
      /\ v_observables'[Len(v_observables) + 1] = o
      /\ Attached' = Attached \cup {o}
      /\ \A j \in 1..Len(v_observables) : v_observables[j] \in Attached
      /\ Len(v_observables) \in Nat
  BY PushVector, AttachedIndex
<1>2. /\ call[o] = "push"
      /\ call'[o] = "attached"
      /\ \A p \in Observables \ {o} : call'[p] = call[p]
      /\ untilNext'[o] = Interval[o] /\ sinceLaunch'[o] = 0
      /\ \A p \in Observables \ {o} :
           untilNext'[p] = untilNext[p] /\ sinceLaunch'[p] = sinceLaunch[p]
      /\ buffer \in Nat /\ (buffer' = buffer \/ buffer' = buffer + 1)
      /\ UNCHANGED <<pc, it, visited, destroyed, crash>>
      /\ UNCHANGED <<tasks, launches, isFinish, retrieved>>
  BY DEF PushBack, TypeOK
<1>3. o \notin Attached \cup destroyed \cup visited
  BY <1>2 DEF TimerInvariant, VectorInv
<1>4. ~isFinish[o] /\ ~(launches[o] > 0) /\ tasks[o] = {}
  BY <1>2 DEF TimerInvariant, MarkInv, MarkOf
<1>5. VectorInv'
  <2>1. ASSUME NEW i \in 1..Len(v_observables'), NEW j \in 1..Len(v_observables'),
               v_observables'[i] = v_observables'[j]
        PROVE  i = j
    <3>1. CASE i \in 1..Len(v_observables) /\ j \in 1..Len(v_observables)
      <4>1. v_observables[i] = v_observables[j]
        BY <1>1, <2>1, <3>1
      <4>2. QED  BY <3>1, <4>1 DEF TimerInvariant, VectorInv
    <3>2. CASE i \in 1..Len(v_observables) /\ j = Len(v_observables) + 1
      BY <1>1, <1>3, <2>1, <3>2
    <3>3. CASE i = Len(v_observables) + 1 /\ j \in 1..Len(v_observables)
      BY <1>1, <1>3, <2>1, <3>3
    <3>4. QED  BY <1>1, <3>1, <3>2, <3>3
  <2>2. \A p \in Attached' \cup destroyed' \cup visited' : call'[p] = "attached"
    <3>1. Attached \subseteq Observables /\ destroyed \subseteq Observables
            /\ visited \subseteq Observables
      BY AttachedIndex DEF TypeOK
    <3>2. QED  BY <1>1, <1>2, <3>1 DEF TimerInvariant, VectorInv
  <2>3. Attached' \cap destroyed' = {}
    BY <1>1, <1>2, <1>3 DEF TimerInvariant, VectorInv
  <2>4. QED  BY <2>1, <2>2, <2>3 DEF VectorInv
<1>6. it.buf \in Nat /\ it.pos \in Nat \ {0} /\ it.buf <= buffer
  BY DEF TimerInvariant, IteratorInv, TypeOK
<1>7. Stale' \/ (~Stale /\ buffer' = buffer)
  BY <1>2, <1>6 DEF Stale
<1>8. IteratorInv'
  BY <1>1, <1>2, <1>6, <1>7 DEF TimerInvariant, IteratorInv, Stale
<1>9. ScanInv'
  <2>1. CASE Stale'
    BY <2>1 DEF ScanInv
  <2>2. CASE ~Stale
    <3>1. ASSUME NEW j \in 1..Len(v_observables'), pc = "scan"
          PROVE  v_observables'[j] \in visited <=> j < it.pos
      <4>1. CASE j \in 1..Len(v_observables)
        BY <1>1, <2>2, <3>1, <4>1 DEF TimerInvariant, ScanInv
      <4>2. CASE j = Len(v_observables) + 1
        BY <1>1, <1>3, <1>6, <2>2, <3>1, <4>2 DEF TimerInvariant, IteratorInv
      <4>3. QED  BY <1>1, <4>1, <4>2
    <3>2. ASSUME NEW j \in 1..Len(v_observables'),
                 pc \in {"assign", "get", "join", "reap"}
          PROVE  v_observables'[j] \in visited <=> j <= it.pos
      <4>1. CASE j \in 1..Len(v_observables)
        BY <1>1, <2>2, <3>2, <4>1 DEF TimerInvariant, ScanInv
      <4>2. CASE j = Len(v_observables) + 1
        BY <1>1, <1>3, <1>6, <2>2, <3>2, <4>2 DEF TimerInvariant, IteratorInv
      <4>3. QED  BY <1>1, <4>1, <4>2
    <3>3. QED  BY <1>2, <3>1, <3>2 DEF ScanInv
  <2>3. QED  BY <1>7, <2>1, <2>2
<1>10. ASSUME NEW p \in Observables PROVE TaskOf(p)' /\ MarkOf(p)' /\ TimeOf(p)'
  <2>1. TaskOf(p) /\ MarkOf(p) /\ TimeOf(p)
    BY DEF TimerInvariant, TaskInv, MarkInv, TimeInv
  <2>2. TaskOf(p)'
    BY <1>2, <2>1 DEF TaskOf
  <2>3. MarkOf(p)'
    BY <1>1, <1>2, <1>4, <2>1 DEF MarkOf, toDestroy
  <2>4. TimeOf(p)'
    <3>1. Interval[o] \in Nat
      BY TimerAssumption
    <3>2. QED  BY <1>1, <1>2, <2>1, <3>1 DEF TimeOf
  <2>5. QED  BY <2>2, <2>3, <2>4
<1>11. QED  BY <1>2, <1>5, <1>8, <1>9, <1>10
            DEF TimerInvariant, TaskInv, MarkInv, TimeInv, TerminateOnlyByFuture

LEMMA JoinInv ==
    ASSUME TypeOK, TimerInvariant, NEW o \in Observables, Join(o),
           crash = "none"
    PROVE  TimerInvariant'
<1>1. /\ pc = "join" /\ pc' = "reap" /\ it.obj = o /\ tasks[o] = {}
      /\ UNCHANGED <<call, v_observables, buffer, it, visited, destroyed, crash>>
      /\ UNCHANGED <<tasks, launches, isFinish, retrieved, sinceLaunch, untilNext>>
      /\ Attached' = Attached
  BY DEF Join, Joined, apiVars, vecVars, objVars, histVars, Attached
<1>2. VectorInv' /\ IteratorInv' /\ ScanInv'
  BY <1>1 DEF TimerInvariant, VectorInv, IteratorInv, ScanInv, Stale
<1>3. ASSUME NEW p \in Observables PROVE TaskOf(p)' /\ MarkOf(p)' /\ TimeOf(p)'
  <2>1. TaskOf(p) /\ MarkOf(p) /\ TimeOf(p)
    BY DEF TimerInvariant, TaskInv, MarkInv, TimeInv
  <2>2. TaskOf(p)'
    BY <1>1, <2>1 DEF TaskOf
  <2>3. MarkOf(p)' /\ TimeOf(p)'
    BY <1>1, <2>1 DEF MarkOf, TimeOf, toDestroy
  <2>4. QED  BY <2>2, <2>3
<1>4. QED  BY <1>1, <1>2, <1>3
           DEF TimerInvariant, TaskInv, MarkInv, TimeInv, TerminateOnlyByFuture

\* A task ends, by returning or by an exception.
LEMMA TaskEndsInv ==
    ASSUME TypeOK, TimerInvariant, crash = "none", NEW o \in Observables,
           NEW t \in {"cur", "prev"}, Return(o, t) \/ Fail(o, t)
    PROVE  TimerInvariant'
<1>1. /\ tasks[o] # {} /\ tasks'[o] \subseteq tasks[o]
      /\ isFinish'[o] = isFinish[o] \/ (Kind[o] = "future" /\ isFinish'[o])
      /\ \A p \in Observables \ {o} :
           tasks'[p] = tasks[p] /\ isFinish'[p] = isFinish[p]
      /\ UNCHANGED <<call, v_observables, buffer, it, visited, destroyed, crash, pc>>
      /\ UNCHANGED <<launches, retrieved, sinceLaunch, untilNext>>
      /\ Attached' = Attached
  <2>1. CASE Return(o, t)
    BY <2>1 DEF Return, TypeOK, apiVars, vecVars, histVars, Attached
  <2>2. CASE Fail(o, t)
    BY <2>2 DEF Fail, TypeOK, apiVars, vecVars, histVars, Attached
  <2>3. QED  BY <2>1, <2>2
<1>2. VectorInv' /\ IteratorInv' /\ ScanInv'
  BY <1>1 DEF TimerInvariant, VectorInv, IteratorInv, ScanInv, Stale
<1>3. ASSUME NEW p \in Observables PROVE TaskOf(p)' /\ MarkOf(p)' /\ TimeOf(p)'
  <2>1. TaskOf(p) /\ MarkOf(p) /\ TimeOf(p)
    BY DEF TimerInvariant, TaskInv, MarkInv, TimeInv
  <2>2. CASE p = o
    <3>1. TaskOf(o)'
      BY <1>1, <2>1, <2>2 DEF TaskOf
    <3>2. MarkOf(o)'
      BY <1>1, <2>1, <2>2 DEF MarkOf, TaskOf, toDestroy
    <3>3. TimeOf(o)'
      BY <1>1, <2>1, <2>2 DEF TimeOf
    <3>4. QED  BY <2>2, <3>1, <3>2, <3>3
  <2>3. CASE p # o
    BY <1>1, <2>1, <2>3 DEF TaskOf, MarkOf, TimeOf, toDestroy
  <2>4. QED  BY <2>2, <2>3
<1>4. crash' # "terminate"
  BY <1>1
<1>5. QED  BY <1>2, <1>3, <1>4
           DEF TimerInvariant, TaskInv, MarkInv, TimeInv, TerminateOnlyByFuture

LEMMA TickInv ==
    ASSUME TypeOK, TimerInvariant, Tick
    PROVE  TimerInvariant'
<1>1. /\ UNCHANGED <<call, v_observables, buffer, it, visited, destroyed, crash, pc>>
      /\ UNCHANGED <<tasks, launches, isFinish, retrieved, fut>>
      /\ Attached' = Attached
  BY DEF Tick, apiVars, vecVars, Attached
<1>2. VectorInv' /\ IteratorInv' /\ ScanInv' /\ TerminateOnlyByFuture'
  BY <1>1 DEF TimerInvariant, VectorInv, IteratorInv, ScanInv, Stale,
              TerminateOnlyByFuture
<1>3. ASSUME NEW p \in Observables PROVE TaskOf(p)' /\ MarkOf(p)' /\ TimeOf(p)'
  <2>1. TaskOf(p) /\ MarkOf(p) /\ TimeOf(p)
    BY DEF TimerInvariant, TaskInv, MarkInv, TimeInv
  <2>2. TaskOf(p)' /\ MarkOf(p)'
    BY <1>1, <2>1 DEF TaskOf, MarkOf, toDestroy
  <2>3. /\ untilNext[p] \in Nat /\ sinceLaunch[p] \in Nat /\ Interval[p] \in Nat
        /\ untilNext'[p] = IF untilNext[p] > 0 THEN untilNext[p] - 1 ELSE 0
        /\ sinceLaunch'[p] = IF sinceLaunch[p] < Interval[p]
                               THEN sinceLaunch[p] + 1 ELSE sinceLaunch[p]
    BY TimerAssumption DEF TypeOK, Tick
  <2>4. TimeOf(p)'
    BY <1>1, <2>1, <2>3 DEF TimeOf
  <2>5. QED  BY <2>2, <2>4
<1>4. QED  BY <1>2, <1>3 DEF TimerInvariant, TaskInv, MarkInv, TimeInv

\* sfut.get() of a future that is ready to throw.
LEMMA GetThrowsInv ==
    ASSUME TypeOK, TimerInvariant, NEW o \in Observables, GetThrows(o)
    PROVE  TimerInvariant'
<1>1. /\ UNCHANGED <<call, v_observables, buffer, it, visited, destroyed, pc>>
      /\ UNCHANGED <<tasks, launches, isFinish, retrieved, fut, sinceLaunch, untilNext>>
      /\ Attached' = Attached
      /\ pc = "get" /\ it.obj = o
      /\ fut[o] = "broken" \/ retrieved[o]
  BY DEF GetThrows, apiVars, vecVars, objVars, histVars, Attached
<1>2. VectorInv' /\ IteratorInv' /\ ScanInv'
  BY <1>1 DEF TimerInvariant, VectorInv, IteratorInv, ScanInv, Stale
<1>3. ASSUME NEW p \in Observables PROVE TaskOf(p)' /\ MarkOf(p)' /\ TimeOf(p)'
  BY <1>1 DEF TimerInvariant, TaskInv, MarkInv, TimeInv, TaskOf, MarkOf, TimeOf,
              toDestroy
<1>4. Kind[o] = "future" /\ o \in Attached
  BY <1>1 DEF TimerInvariant, IteratorInv
<1>5. retrieved[o] => launches[o] = 1 /\ ~isFinish[o]
  <2>1. MarkOf(o) /\ launches[o] \in Nat
    BY DEF TimerInvariant, MarkInv, TypeOK
  <2>2. QED  BY <1>1, <1>4, <2>1 DEF MarkOf, toDestroy
<1>6. TerminateOnlyByFuture'
  BY <1>1, <1>4, <1>5 DEF TerminateOnlyByFuture
<1>7. QED  BY <1>2, <1>3, <1>6 DEF TimerInvariant, TaskInv, MarkInv, TimeInv

\* Steps that touch neither the vector nor an observable, and move the
\* dispatcher at most between places outside of notify().
LEMMA QuietInv ==
    ASSUME TypeOK, TimerInvariant,
           UNCHANGED <<v_observables, buffer, destroyed, tasks, launches>>,
           UNCHANGED <<isFinish, retrieved, sinceLaunch, untilNext, visited>>,
           \A o \in Observables : call[o] = "attached" => call'[o] = "attached",
           crash' # "terminate",
           \/ UNCHANGED <<pc, it>>
           \/ /\ pc \notin {"assign", "get", "join", "reap"}
              /\ pc' \notin {"scan", "assign", "get", "join", "reap"}
              /\ it'.buf <= buffer
              /\ pc' = "drain" => it'.pos = 1
    PROVE  TimerInvariant'
<1>1. Attached' = Attached /\ Attached \subseteq Observables
  BY AttachedIndex DEF Attached
<1>2. VectorInv'
  BY <1>1 DEF TimerInvariant, VectorInv, TypeOK
<1>3. IteratorInv' /\ ScanInv'
  BY <1>1 DEF TimerInvariant, IteratorInv, ScanInv, Stale
<1>4. ASSUME NEW p \in Observables PROVE TaskOf(p)' /\ MarkOf(p)' /\ TimeOf(p)'
  <2>1. TaskOf(p) /\ MarkOf(p) /\ TimeOf(p)
    BY DEF TimerInvariant, TaskInv, MarkInv, TimeInv
  <2>2. TaskOf(p)'
    BY <2>1 DEF TaskOf
  <2>3. MarkOf(p)'
    BY <1>1, <2>1 DEF MarkOf, toDestroy
  <2>4. TimeOf(p)'
    BY <1>1, <2>1 DEF TimeOf
  <2>5. QED  BY <2>2, <2>3, <2>4
<1>5. QED  BY <1>2, <1>3, <1>4
           DEF TimerInvariant, TaskInv, MarkInv, TimeInv, TerminateOnlyByFuture

LEMMA WakeInv ==
    ASSUME TypeOK, TimerInvariant, Wake, crash = "none"
    PROVE  TimerInvariant'
<1>1. /\ UNCHANGED <<call, v_observables, buffer, destroyed, crash>>
      /\ UNCHANGED <<tasks, launches, isFinish, retrieved, sinceLaunch, untilNext>>
      /\ pc = "wait" /\ pc' = "scan" /\ visited' = {}
      /\ it'.pos = 1 /\ it'.buf = buffer
      /\ Attached' = Attached
  BY DEF Wake, Begin, apiVars, vecVars, objVars, Attached
<1>2. Len(v_observables) \in Nat /\ buffer \in Nat
  BY AttachedIndex DEF TypeOK
<1>3. VectorInv' /\ IteratorInv' /\ ScanInv'
  BY <1>1, <1>2 DEF TimerInvariant, VectorInv, IteratorInv, ScanInv, Stale
<1>4. ASSUME NEW p \in Observables PROVE TaskOf(p)' /\ MarkOf(p)' /\ TimeOf(p)'
  BY <1>1 DEF TimerInvariant, TaskInv, MarkInv, TimeInv, TaskOf, MarkOf, TimeOf,
              toDestroy
<1>5. QED  BY <1>1, <1>3, <1>4
           DEF TimerInvariant, TaskInv, MarkInv, TimeInv, TerminateOnlyByFuture

-----------------------------------------------------------------------------
(* The inductive invariant.                                                *)

LEMMA InvariantInit ==
    ASSUME Init
    PROVE  TimerInvariant
<1>1. v_observables = <<>> /\ Len(v_observables) = 0 /\ Attached = {}
  BY LenProperties, EmptySeq DEF Init, Attached, Range
<1>2. VectorInv /\ IteratorInv /\ ScanInv /\ TerminateOnlyByFuture
  BY <1>1 DEF Init, VectorInv, IteratorInv, ScanInv, TerminateOnlyByFuture, Stale
<1>3. ASSUME NEW o \in Observables PROVE TaskOf(o) /\ MarkOf(o) /\ TimeOf(o)
  BY <1>1 DEF Init, TaskOf, MarkOf, TimeOf, toDestroy
<1>4. QED  BY <1>2, <1>3 DEF TimerInvariant, TaskInv, MarkInv, TimeInv

LEMMA InvariantStep ==
    ASSUME TypeOK, TimerInvariant, [Next]_vars
    PROVE  TimerInvariant'
<1> USE DEF apiVars, vecVars, objVars, histVars
<1>1. ASSUME NEW o \in Observables, crash = "none",
             Call(o) \/ Start(o) \/ Detach(o)
      PROVE  TimerInvariant'
  <2>1. \A p \in Observables : call[p] = "attached" => call'[p] = "attached"
    BY <1>1 DEF Call, Start, Detach, TypeOK
  <2>2. it.buf <= buffer
    BY DEF TimerInvariant, IteratorInv
  <2>3. CASE Call(o)
    BY <1>1, <2>1, <2>2, <2>3, QuietInv DEF Call
  <2>4. CASE Start(o)
    BY <1>1, <2>1, <2>4, QuietInv DEF Start
  <2>5. CASE Detach(o)
    BY <1>1, <2>1, <2>5, QuietInv DEF Detach
  <2>6. QED  BY <1>1, <2>3, <2>4, <2>5
<1>2. ASSUME NEW o \in Observables, crash = "none", PushRaces(o)
      PROVE  TimerInvariant'
  <2>1. \A p \in Observables : call[p] = "attached" => call'[p] = "attached"
    BY <1>2 DEF PushRaces, TypeOK
  <2>2. QED  BY <1>2, <2>1, QuietInv DEF PushRaces
<1>3. ASSUME NEW o \in Observables, crash = "none", Resolve(o)
      PROVE  TimerInvariant'
  BY <1>3, QuietInv DEF Resolve
<1>4. ASSUME Stop \/ StaleAccess, crash = "none" PROVE TimerInvariant'
  BY <1>4, QuietInv DEF Stop, StaleAccess
<1>5. ASSUME Loop \/ While \/ EndScan \/ Exit, crash = "none"
      PROVE  TimerInvariant'
  <2>1. it.buf <= buffer /\ buffer \in Nat
    BY DEF TimerInvariant, IteratorInv, TypeOK
  <2>2. CASE Loop
    BY <1>5, <2>1, <2>2, QuietInv DEF Loop
  <2>3. CASE While
    BY <1>5, <2>1, <2>3, QuietInv DEF While, Begin
  <2>4. CASE EndScan
    BY <1>5, <2>1, <2>4, QuietInv DEF EndScan
  <2>5. CASE Exit
    BY <1>5, <2>1, <2>5, QuietInv DEF Exit
  <2>6. QED  BY <1>5, <2>2, <2>3, <2>4, <2>5
<1>6. ASSUME NEW o \in Observables, crash = "none",
             Notify(o) \/ Keep(o) \/ Destroy(o) \/ Drain(o)
      PROVE  TimerInvariant'
  BY <1>6, SkipInv, LaunchSlotInv, LaunchTimerInv, AssignInv, WatchInv, GetInv,
     GetThrowsInv, JoinInv, KeepInv, DestroyInv, DrainInv DEF Notify
<1>7. ASSUME NEW o \in Observables, crash = "none", Api(o) \/ Task(o) \/ Resolve(o)
      PROVE  TimerInvariant'
  BY <1>1, <1>2, <1>3, <1>7, PushBackInv, TaskEndsInv DEF Api, Attach, Task
<1>8. CASE UNCHANGED vars
  <2>1. Attached' = Attached
    BY <1>8 DEF vars, Attached
  <2>2. VectorInv' /\ IteratorInv' /\ ScanInv' /\ TerminateOnlyByFuture'
    BY <1>8, <2>1 DEF vars, TimerInvariant, VectorInv, IteratorInv, ScanInv,
                      TerminateOnlyByFuture, Stale
  <2>3. ASSUME NEW p \in Observables
        PROVE  TaskOf(p)' /\ MarkOf(p)' /\ TimeOf(p)'
    BY <1>8, <2>1 DEF vars, TimerInvariant, TaskInv, MarkInv, TimeInv, TaskOf,
                      MarkOf, TimeOf, toDestroy
  <2>4. QED  BY <2>2, <2>3 DEF TimerInvariant, TaskInv, MarkInv, TimeInv
<1>9. QED
  BY <1>4, <1>5, <1>6, <1>7, <1>8, WakeInv, TickInv DEF Next, Dispatcher

\* The parts of the invariant hold together in every reachable state.
THEOREM InvariantHolds == Spec => [](TypeOK /\ TimerInvariant)
<1>1. Init => TypeOK /\ TimerInvariant
  BY TypeInit, InvariantInit
<1>2. TypeOK /\ TimerInvariant /\ [Next]_vars => (TypeOK /\ TimerInvariant)'
  BY TypeStep, InvariantStep
<1>3. QED  BY <1>1, <1>2, PTL DEF Spec

\* Callbacks of slots and watched futures never run beside each other, and
\* the dispatcher waits for the one that runs: for every number of callbacks
\* and whatever they attach.
THEOREM SlotsAreSerial == Spec => []SlotCallbacksSerial
<1>1. TimerInvariant => SlotCallbacksSerial
  BY DEF TimerInvariant, TaskInv, TaskOf, SlotCallbacksSerial
<1>2. QED  BY <1>1, InvariantHolds, PTL

\* At most one Update() that was overtaken by its successor, and only while
\* the dispatcher waits for it.
THEOREM OverlapBounded == Spec => []OverlapIsBounded
<1>1. TimerInvariant => OverlapIsBounded
  BY DEF TimerInvariant, TaskInv, TaskOf, OverlapIsBounded
<1>2. QED  BY <1>1, InvariantHolds, PTL

\* No observable is destroyed under a callback that uses it.
THEOREM OwnersOutliveCallbacks == Spec => []CallbackOwnerAlive
<1>1. TimerInvariant => CallbackOwnerAlive
  BY DEF TimerInvariant, TaskInv, TaskOf, CallbackOwnerAlive
<1>2. QED  BY <1>1, InvariantHolds, PTL

\* Single shots and watched futures are launched at most once.
THEOREM SingleShotsFireOnce == Spec => []FiresOnce
<1>1. TimerInvariant => FiresOnce
  BY DEF TimerInvariant, MarkInv, MarkOf, FiresOnce
<1>2. QED  BY <1>1, InvariantHolds, PTL

\* A scan that comes to its end has left nobody out.
THEOREM ScansAreComplete == Spec => []ScanVisitsAll
<1>1. TypeOK /\ TimerInvariant => ScanVisitsAll
  <2> SUFFICES ASSUME TypeOK, TimerInvariant, pc = "scan", ~Stale,
                      it.pos > Len(v_observables), NEW o \in Attached
               PROVE  o \in visited
    BY DEF ScanVisitsAll, Attached
  <2>1. PICK j \in 1..Len(v_observables) : v_observables[j] = o
    BY AttachedIndex
  <2>2. it.pos \in Nat /\ Len(v_observables) \in Nat
    BY AttachedIndex DEF TypeOK
  <2>3. QED  BY <2>1, <2>2 DEF TimerInvariant, ScanInv
<1>2. QED  BY <1>1, InvariantHolds, PTL

\* The dispatcher dies of nothing but a watched future.
THEOREM OnlyFuturesTerminate == Spec => []TerminateOnlyByFuture
<1>1. TimerInvariant => TerminateOnlyByFuture
  BY DEF TimerInvariant
<1>2. QED  BY <1>1, InvariantHolds, PTL

\* No scan notifies an observable twice.
THEOREM NotifiedOnce == Spec => NotifiedOncePerScan
<1>1. TypeOK /\ TimerInvariant /\ [Next]_vars =>
        [pc = "scan" /\ pc' \in {"reap", "join", "get", "assign"}
           => it'.obj \notin visited]_vars
  <2> SUFFICES ASSUME TypeOK, TimerInvariant, Next, pc = "scan",
                      pc' \in {"reap", "join", "get", "assign"}
               PROVE  it'.obj \notin visited
    OBVIOUS
  <2>1. PICK o \in Observables : Enter(o, pc')
    BY DEF Next, Dispatcher, Notify, Api, Attach, Task, Stop, Call, Start, Detach,
           PushBack, PushRaces, Return, Fail, Resolve, Tick, Loop, While, Wake,
           EndScan, StaleAccess, Exit, Skip, LaunchSlot, LaunchTimer, Assign,
           Watch, Get, GetThrows, Join, Keep, Destroy, Drain, Enter
  <2>2. it'.obj = o /\ v_observables[it.pos] = o /\ ~Stale
          /\ it.pos \in 1..Len(v_observables)
    BY <2>1, EnterFacts
  <2>3. it.pos \in Nat
    BY DEF TypeOK
  <2>4. QED  BY <2>2, <2>3 DEF TimerInvariant, ScanInv
<1>2. QED  BY <1>1, InvariantHolds, PTL DEF Spec, NotifiedOncePerScan

\* A watch on a future that a callback of the same timer was to fulfil is a
\* deadlock of the dispatcher with itself.
THEOREM SelfWaitNeverEnds == Spec => SelfWaitIsForever
<1>1. TypeOK /\ [Next]_vars => [SelfWait => SelfWait']_vars
  <2> SUFFICES ASSUME TypeOK, Next, SelfWait PROVE SelfWait'
    OBVIOUS
  <2> DEFINE w == it.obj
  <2>1. /\ pc = "get" /\ fut[w] = "pending"
        /\ Resolver[w] \in Observables /\ tasks[Resolver[w]] = {}
    BY DEF SelfWait
  <2>2. pc' = "get" /\ it' = it
    BY <2>1 DEF Next, Dispatcher, Notify, Api, Attach, Task, Stop, Call, Start,
           Detach, PushBack, PushRaces, Return, Fail, Resolve, Tick, Loop, While,
           Wake, EndScan, StaleAccess, Exit, Skip, LaunchSlot, LaunchTimer,
           Assign, Watch, Get, GetThrows, Join, Keep, Destroy, Drain, Enter
  <2>3. fut'[w] = "pending"
    <3>1. CASE UNCHANGED fut
      BY <2>1, <3>1
    <3>2. ASSUME NEW o \in Observables, Resolve(o) PROVE fut'[w] = "pending"
      <4>1. Resolver[w] \notin Clients
        BY <2>1, TimerAssumption
      <4>2. o # w
        BY <2>1, <3>2, <4>1 DEF Resolve
      <4>3. fut \in [Observables -> FutStates]
        BY DEF TypeOK
      <4>4. PICK r : fut' = [fut EXCEPT ![o] = r]
        BY <3>2 DEF Resolve
      <4>5. QED  BY <2>1, <4>2, <4>3, <4>4
    <3>3. QED
      BY <3>1, <3>2 DEF Next, Dispatcher, Notify, Api, Attach, Task, Stop, Call,
           Start, Detach, PushBack, PushRaces, Return, Fail, Tick, Loop, While,
           Wake, EndScan, StaleAccess, Exit, Skip, LaunchSlot, LaunchTimer,
           Assign, Watch, Get, GetThrows, Join, Keep, Destroy, Drain, objVars
  <2>4. tasks'[Resolver[w]] = {}
    <3>1. CASE UNCHANGED tasks
      BY <2>1, <3>1
    <3>2. ASSUME NEW o \in Observables, NEW t \in {"cur", "prev"},
                 Return(o, t) \/ Fail(o, t)
          PROVE  tasks'[Resolver[w]] = {}
      BY <2>1, <3>2 DEF Return, Fail, TypeOK
    <3>3. QED
      BY <2>1, <3>1, <3>2 DEF Next, Dispatcher, Notify, Api, Attach, Task, Stop,
           Call, Start, Detach, PushBack, PushRaces, Resolve, Tick, Loop, While,
           Wake, EndScan, StaleAccess, Exit, Skip, LaunchSlot, LaunchTimer,
           Assign, Watch, Get, GetThrows, Join, Keep, Destroy, Drain, Enter, objVars
  <2>5. QED  BY <2>1, <2>2, <2>3, <2>4 DEF SelfWait
<1>2. QED  BY <1>1, TypeCorrect, PTL DEF Spec, SelfWaitIsForever

LEMMA LaunchIsDue ==
    ASSUME TypeOK, TimerInvariant, NEW o \in Observables,
           LaunchSlot(o) \/ LaunchTimer(o)
    PROVE  /\ sinceLaunch[o] >= Interval[o]
           /\ Mode[o] = "singleshot" => launches[o] = 0
           /\ o \in Attached /\ o \notin destroyed /\ it'.obj = o
           /\ pc = "scan" /\ Kind[o] # "future"
<1>1. /\ pc = "scan" /\ o \in Attached /\ it'.obj = o
      /\ untilNext[o] = 0 /\ Kind[o] # "future"
  BY EnterFacts DEF LaunchSlot, LaunchTimer
<1>2. TimeOf(o) /\ MarkOf(o)
  BY DEF TimerInvariant, TimeInv, MarkInv
<1>3. sinceLaunch[o] \in Nat /\ untilNext[o] \in Nat /\ launches[o] \in Nat
        /\ Interval[o] \in Nat
  <2>1. Interval[o] \in Nat
    BY TimerAssumption
  <2>2. sinceLaunch[o] \in Nat /\ untilNext[o] \in Nat
    BY DEF TypeOK
  <2>3. launches[o] \in Nat
    BY DEF TypeOK
  <2>4. QED  BY <2>1, <2>2, <2>3
<1>4. ~isFinish[o]
  BY <1>1, <1>2 DEF MarkOf, toDestroy
<1>5. QED  BY <1>1, <1>2, <1>3, <1>4
           DEF TimeOf, MarkOf, TimerInvariant, VectorInv

\* Launches of one observable are at least its interval apart, and the first
\* one is that far from the attach, however late or early the dispatcher
\* wakes up and however long the callbacks take.
THEOREM LaunchesAreSpaced == Spec => SpacedByInterval
<1>1. TypeOK /\ TimerInvariant /\ [Next]_vars =>
        [\A o \in Observables :
           pc = "scan" /\ pc' \in {"join", "assign"} /\ it'.obj = o
             => sinceLaunch[o] >= Interval[o]]_vars
  <2> SUFFICES ASSUME TypeOK, TimerInvariant, Next, NEW o \in Observables,
                      pc = "scan", pc' \in {"join", "assign"}, it'.obj = o
               PROVE  sinceLaunch[o] >= Interval[o]
    OBVIOUS
  <2>1. PICK p \in Observables : LaunchSlot(p) \/ LaunchTimer(p)
    BY DEF Next, Dispatcher, Notify, Api, Attach, Task, Stop, Call, Start, Detach,
           PushBack, PushRaces, Return, Fail, Resolve, Tick, Loop, While, Wake,
           EndScan, StaleAccess, Exit, Skip, Assign, Watch, Get, GetThrows, Join,
           Keep, Destroy, Drain, Enter
  <2>2. QED  BY <2>1, LaunchIsDue
<1>2. QED  BY <1>1, InvariantHolds, PTL DEF Spec, SpacedByInterval

-----------------------------------------------------------------------------
(* Timer implements TimerService.                                          *)

phaseOf   == [o \in Observables |-> PhaseOf(o)]
runningOf == [o \in Observables |-> RunningOf(o)]

\* The mapped state of an observable stays as it is while its place in the
\* vector and its tasks do.
LEMMA MappedFrame ==
    /\ Attached' = Attached /\ destroyed' = destroyed => phaseOf' = phaseOf
    /\ tasks' = tasks => runningOf' = runningOf
  BY DEF phaseOf, runningOf, PhaseOf, RunningOf, Attached

\* What a launch is in the service.
LEMMA SpawnFires ==
    ASSUME TypeOK, TimerInvariant, NEW o \in Observables, Spawn(o),
           o \in Attached, Attached' = Attached, destroyed' = destroyed,
           Mode[o] = "singleshot" \/ Kind[o] = "future" => launches[o] = 0,
           Kind[o] # "future" => sinceLaunch[o] >= Interval[o],
           "prev" \notin tasks[o],
           Kind[o] # "timer" =>
              \A p \in Observables : Kind[p] # "timer" => tasks[p] = {}
    PROVE  Service!Fire(o)
<1>1. phaseOf[o] = "armed" /\ phaseOf' = phaseOf
  BY MappedFrame DEF phaseOf, PhaseOf, TimerInvariant, VectorInv, Attached
<1>2. ~Service!Spent(o)
  BY DEF Service!Spent
<1>3. tasks \in [Observables -> SUBSET {"cur", "prev"}]
  BY DEF TypeOK
<1>4. Service!MayRun(o)
  <2>1. CASE Kind[o] = "timer"
    BY <1>3, <2>1 DEF Service!MayRun, RunningOf
  <2>2. CASE Kind[o] # "timer"
    BY <1>3, <2>2 DEF Service!MayRun, RunningOf
  <2>3. QED  BY <2>1, <2>2
<1>5. runningOf' = [runningOf EXCEPT ![o] = @ + 1]
  <2>1. tasks'[o] = {"cur"} \cup IF "cur" \in tasks[o] THEN {"prev"} ELSE {}
    BY <1>3 DEF Spawn
  <2>2. \A p \in Observables \ {o} : tasks'[p] = tasks[p]
    BY <1>3 DEF Spawn
  <2>3. tasks[o] = {} \/ tasks[o] = {"cur"}
    BY <1>3
  <2>4. RunningOf(o)' = RunningOf(o) + 1
    BY <2>1, <2>3 DEF RunningOf
  <2>5. \A p \in Observables \ {o} : RunningOf(p)' = RunningOf(p)
    BY <2>2 DEF RunningOf
  <2>6. QED  BY <2>4, <2>5 DEF runningOf
<1>6. QED  BY <1>1, <1>2, <1>4, <1>5 DEF Service!Fire, Spawn, phaseOf, runningOf

\* A destroyed observable is retired, and had nothing running.
LEMMA DestroyRetires ==
    ASSUME TypeOK, TimerInvariant, NEW o \in Observables,
           o \in Attached, Attached' = Attached \ {o},
           destroyed' = destroyed \cup {o}, tasks[o] = {},
           UNCHANGED <<tasks, sinceLaunch, launches>>
    PROVE  Service!Retire(o)
<1>1. o \notin destroyed
  BY DEF TimerInvariant, VectorInv
<1>2. phaseOf[o] = "armed" /\ runningOf[o] = 0
  BY <1>1 DEF phaseOf, PhaseOf, runningOf, RunningOf, Attached
<1>3. phaseOf' = [phaseOf EXCEPT ![o] = "retired"]
  <2>1. PhaseOf(o)' = "retired"
    BY DEF PhaseOf
  <2>2. \A p \in Observables \ {o} : PhaseOf(p)' = PhaseOf(p)
    BY DEF PhaseOf, Attached
  <2>3. QED  BY <2>1, <2>2 DEF phaseOf
<1>4. QED  BY <1>2, <1>3, MappedFrame DEF Service!Retire, phaseOf, runningOf

LEMMA TaskEndFinishes ==
    ASSUME TypeOK, NEW o \in Observables, NEW t \in {"cur", "prev"},
           Return(o, t) \/ Fail(o, t)
    PROVE  Service!Finish(o)
<1>1. /\ t \in tasks[o] /\ tasks' = [tasks EXCEPT ![o] = @ \ {t}]
      /\ UNCHANGED <<v_observables, destroyed, sinceLaunch, launches>>
      /\ tasks \in [Observables -> SUBSET {"cur", "prev"}]
  BY DEF Return, Fail, TypeOK, vecVars, histVars
<1>2. phaseOf' = phaseOf
  BY <1>1, MappedFrame DEF Attached
<1>3. RunningOf(o) > 0 /\ RunningOf(o)' = RunningOf(o) - 1
  <2>1. tasks[o] = {t} \/ tasks[o] = {"cur", "prev"}
    BY <1>1
  <2>2. CASE tasks[o] = {t}
    BY <1>1, <2>2 DEF RunningOf
  <2>3. CASE tasks[o] = {"cur", "prev"}
    <3>1. tasks'[o] # {} /\ tasks'[o] # {"cur", "prev"}
      BY <1>1, <2>3
    <3>2. QED  BY <2>3, <3>1 DEF RunningOf
  <2>4. QED  BY <2>1, <2>2, <2>3
<1>4. \A p \in Observables \ {o} : RunningOf(p)' = RunningOf(p)
  BY <1>1 DEF RunningOf
<1>5. runningOf' = [runningOf EXCEPT ![o] = @ - 1]
  BY <1>3, <1>4 DEF runningOf
<1>6. QED  BY <1>1, <1>2, <1>3, <1>5 DEF Service!Finish, phaseOf, runningOf

LEMMA StepImplements ==
    ASSUME TypeOK, TimerInvariant, [Next]_vars
    PROVE  [Service!ServiceNext]_(Service!serviceVars)
<1>1. ASSUME NEW o \in Observables, PushBack(o) PROVE Service!Arm(o)
  <2>1. Attached' = Attached \cup {o} /\ call[o] = "push"
    BY <1>1, PushVector DEF PushBack
  <2>2. o \notin Attached \cup destroyed
    BY <2>1 DEF TimerInvariant, VectorInv
  <2>3. /\ UNCHANGED <<destroyed, tasks, launches>>
        /\ sinceLaunch' = [sinceLaunch EXCEPT ![o] = 0]
    BY <1>1 DEF PushBack
  <2>4. phaseOf[o] = "free" /\ phaseOf' = [phaseOf EXCEPT ![o] = "armed"]
    <3>1. PhaseOf(o) = "free" /\ PhaseOf(o)' = "armed"
      BY <2>1, <2>2, <2>3 DEF PhaseOf, Attached
    <3>2. \A p \in Observables \ {o} : PhaseOf(p)' = PhaseOf(p)
      BY <2>1, <2>3 DEF PhaseOf, Attached
    <3>3. QED  BY <3>1, <3>2 DEF phaseOf
  <2>5. QED  BY <2>3, <2>4, MappedFrame DEF Service!Arm, phaseOf, runningOf
<1>2. ASSUME NEW o \in Observables, LaunchSlot(o) \/ LaunchTimer(o)
      PROVE  Service!Fire(o)
  <2>1. Spawn(o) /\ Attached' = Attached /\ destroyed' = destroyed
    BY <1>2 DEF LaunchSlot, LaunchTimer, vecVars, Attached
  <2>2. \A p \in Observables : TaskOf(p)
    BY DEF TimerInvariant, TaskInv
  <2>3. QED  BY <1>2, <2>1, <2>2, LaunchIsDue, SpawnFires DEF TaskOf
<1>3. ASSUME NEW o \in Observables, Get(o), tasks' # tasks
      PROVE  Service!Fire(o)
  <2>1. /\ Spawn(o) /\ ~retrieved[o] /\ pc = "get" /\ it.obj = o
        /\ Attached' = Attached /\ destroyed' = destroyed
    BY <1>3 DEF Get, vecVars, Attached
  <2>2. Kind[o] = "future" /\ o \in Attached
    BY <2>1 DEF TimerInvariant, IteratorInv
  <2>3. launches[o] = 0
    <3>1. launches[o] \in Nat /\ MarkOf(o)
      BY DEF TypeOK, TimerInvariant, MarkInv
    <3>2. QED  BY <2>1, <2>2, <3>1 DEF MarkOf
  <2>4. \A p \in Observables : TaskOf(p)
    BY DEF TimerInvariant, TaskInv
  <2>5. QED  BY <2>1, <2>2, <2>3, <2>4, SpawnFires DEF TaskOf
<1>4. ASSUME NEW o \in Observables, Destroy(o) PROVE Service!Retire(o)
  <2>1. tasks[o] = {}
    <3>1. tasks[o] \subseteq {"cur", "prev"} /\ TaskOf(o)
      BY DEF TypeOK, TimerInvariant, TaskInv
    <3>2. QED  BY <1>4, <3>1 DEF Destroy, Destructible, TaskOf
  <2>2. UNCHANGED <<tasks, sinceLaunch, launches>>
          /\ destroyed' = destroyed \cup {o}
    BY <1>4 DEF Destroy, histVars
  <2>3. QED  BY <1>4, <2>1, <2>2, DestroyVector, DestroyRetires DEF TimerInvariant
<1>5. ASSUME NEW o \in Observables, Drain(o) PROVE Service!Retire(o)
  <2>1. tasks[o] = {}
    <3>1. tasks[o] \subseteq {"cur", "prev"} /\ TaskOf(o)
      BY DEF TypeOK, TimerInvariant, TaskInv
    <3>2. QED  BY <1>5, <3>1 DEF Drain, Destructible, TaskOf
  <2>2. UNCHANGED <<tasks, sinceLaunch, launches>>
          /\ destroyed' = destroyed \cup {o}
    BY <1>5 DEF Drain, histVars
  <2>3. QED  BY <1>5, <2>1, <2>2, DrainVector, DestroyRetires DEF TimerInvariant
<1>6. ASSUME Tick PROVE Service!Pass
  BY <1>6, MappedFrame DEF Tick, Service!Pass, vecVars, Attached, phaseOf, runningOf
<1>7. ASSUME UNCHANGED <<v_observables, destroyed, tasks, sinceLaunch, launches>>
      PROVE  UNCHANGED Service!serviceVars
  <2>1. phaseOf' = phaseOf /\ runningOf' = runningOf
    BY <1>7, MappedFrame DEF Attached
  <2>2. QED  BY <1>7, <2>1 DEF Service!serviceVars, phaseOf, runningOf
<1>8. ASSUME Next
      PROVE  \/ \E o \in Observables :
                    \/ PushBack(o) \/ LaunchSlot(o) \/ LaunchTimer(o)
                    \/ (Get(o) /\ tasks' # tasks) \/ Destroy(o) \/ Drain(o)
                    \/ \E t \in {"cur", "prev"} : Return(o, t) \/ Fail(o, t)
             \/ Tick
             \/ UNCHANGED <<v_observables, destroyed, tasks, sinceLaunch, launches>>
  <2>1. ASSUME NEW o \in Observables, Get(o), tasks' = tasks
        PROVE  UNCHANGED <<v_observables, destroyed, tasks, sinceLaunch, launches>>
    <3>1. ~Spawn(o)
      <4>1. tasks[o] = {}
        BY <2>1 DEF Get, TimerInvariant, IteratorInv, TaskInv, TaskOf
      <4>2. tasks \in [Observables -> SUBSET {"cur", "prev"}]
        BY DEF TypeOK
      <4>3. QED  BY <2>1, <4>1, <4>2 DEF Spawn
    <3>2. QED  BY <2>1, <3>1 DEF Get, vecVars
  <2>2. QED
    BY <1>8, <2>1 DEF Next, Dispatcher, Notify, Api, Attach, Task, Stop, Call, Start,
           Detach, PushRaces, Resolve, Loop, While, Wake, EndScan, StaleAccess,
           Exit, Skip, Assign, Watch, GetThrows, Join, Keep, vecVars, objVars,
           histVars
<1>9. CASE UNCHANGED vars
  BY <1>7, <1>9 DEF vars, vecVars, objVars, histVars
<1>10. QED
  BY <1>1, <1>2, <1>3, <1>4, <1>5, <1>6, <1>7, <1>8, <1>9, TaskEndFinishes
     DEF Service!ServiceNext

\* Everything TimerService says of launching, overlapping, spacing and
\* destroying holds of the code.
THEOREM Refinement == Spec => ImplementsService
<1>1. Init => Service!ServiceInit
  <2> SUFFICES ASSUME Init PROVE Service!ServiceInit
    OBVIOUS
  <2>1. Range(v_observables) = {}
    BY EmptySeq, LenProperties DEF Init, Range
  <2>2. QED  BY <2>1 DEF Init, Service!ServiceInit, PhaseOf, RunningOf
<1>2. TypeOK /\ TimerInvariant /\ [Next]_vars =>
        [Service!ServiceNext]_(Service!serviceVars)
  BY StepImplements
<1>3. QED
  BY <1>1, <1>2, InvariantHolds, PTL
     DEF Spec, ImplementsService, Service!ServiceSpec


=============================================================================
