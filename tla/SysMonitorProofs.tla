-------------------------- MODULE SysMonitorProofs --------------------------
(***************************************************************************)
(* Proofs about SysMonitor for any set of sockets: type correctness, that  *)
(* the list holds the open sockets, and that a round under which no node   *)
(* was freed serves each of them and none twice.                           *)
(***************************************************************************)
EXTENDS SysMonitor, DataLemmas, SequenceTheorems, TLAPS

-----------------------------------------------------------------------------
(* The operations of the list.                                             *)

LEMMA ListFacts ==
    ASSUME TypeOK
    PROVE  /\ Len(list_observer_) \in Nat
           /\ DOMAIN list_observer_ = 1..Len(list_observer_)
           /\ Attached \subseteq Sockets
           /\ \A i \in 1..Len(list_observer_) : list_observer_[i] \in Attached
           /\ \A s \in Attached :
                \E i \in 1..Len(list_observer_) : list_observer_[i] = s
<1>1. list_observer_ \in Seq(Sockets)
  BY DEF TypeOK
<1>2. QED  BY <1>1, LenProperties, ElementOfSeq DEF Attached, Range

LEMMA PlaceFacts ==
    ASSUME TypeOK, NEW s \in Attached
    PROVE  /\ Place(s) \in 1..Len(list_observer_)
           /\ list_observer_[Place(s)] = s
  BY ListFacts DEF Place

\* push_back() puts the new node behind the others.
LEMMA PushedFacts ==
    ASSUME TypeOK, NEW s \in Sockets, list_observer_' = Pushed(s)
    PROVE  /\ list_observer_' \in Seq(Sockets)
           /\ Len(list_observer_') = Len(list_observer_) + 1
           /\ \A j \in 1..Len(list_observer_) :
                list_observer_'[j] = list_observer_[j]
           /\ list_observer_'[Len(list_observer_) + 1] = s
           /\ DOMAIN list_observer_' = 1..Len(list_observer_) + 1
           /\ Attached' = Attached \cup {s}
<1>1. list_observer_ \in Seq(Sockets) /\ list_observer_' = Append(list_observer_, s)
  BY DEF TypeOK, Pushed
<1>2. /\ list_observer_' \in Seq(Sockets)
      /\ Len(list_observer_') = Len(list_observer_) + 1
      /\ \A j \in 1..Len(list_observer_) : list_observer_'[j] = list_observer_[j]
      /\ list_observer_'[Len(list_observer_) + 1] = s
  BY <1>1, AppendProperties
<1>3. DOMAIN list_observer_' = 1..Len(list_observer_) + 1
  BY <1>2, LenProperties
<1>4. Attached' = Attached \cup {s}
  <2>1. Len(list_observer_) \in Nat /\ DOMAIN list_observer_ = 1..Len(list_observer_)
    BY ListFacts
  <2>2. ASSUME NEW o \in Attached' PROVE o \in Attached \cup {s}
    <3>1. PICK j \in 1..Len(list_observer_) + 1 : list_observer_'[j] = o
      BY <1>3, <2>2 DEF Attached, Range
    <3>2. QED  BY <1>2, <2>1, <3>1, ListFacts
  <2>3. ASSUME NEW o \in Attached PROVE o \in Attached'
    <3>1. PICK j \in 1..Len(list_observer_) : list_observer_[j] = o
      BY ListFacts
    <3>2. list_observer_'[j] = o /\ j \in DOMAIN list_observer_'
      BY <1>2, <1>3, <2>1, <3>1
    <3>3. QED  BY <3>2 DEF Attached, Range
  <2>4. s \in Attached'
    <3>1. Len(list_observer_) + 1 \in DOMAIN list_observer_'
      BY <1>3, <2>1
    <3>2. QED  BY <1>2, <3>1 DEF Attached, Range
  <2>5. QED  BY <2>2, <2>3, <2>4
<1>5. QED  BY <1>2, <1>3, <1>4

\* remove() takes out one node, and the others stay in their order.
LEMMA RemovedFacts ==
    ASSUME TypeOK, IsInjective(list_observer_), NEW s \in Attached,
           list_observer_' = Removed(s)
    PROVE  /\ list_observer_' \in Seq(Sockets)
           /\ Len(list_observer_') = Len(list_observer_) - 1
           /\ \A j \in 1..Len(list_observer_) - 1 :
                list_observer_'[j] = IF j < Place(s) THEN list_observer_[j]
                                                     ELSE list_observer_[j + 1]
           /\ DOMAIN list_observer_' = 1..Len(list_observer_) - 1
           /\ Attached' = Attached \ {s}
<1>1. /\ list_observer_ \in Seq(Sockets)
      /\ Place(s) \in 1..Len(list_observer_)
      /\ list_observer_' = RemoveAt(list_observer_, Place(s))
  BY PlaceFacts DEF TypeOK, Removed
<1>2. /\ list_observer_' \in Seq(Sockets)
      /\ Len(list_observer_') = Len(list_observer_) - 1
      /\ \A j \in 1..Len(list_observer_) - 1 :
           list_observer_'[j] = IF j < Place(s) THEN list_observer_[j]
                                                ELSE list_observer_[j + 1]
  BY <1>1, RemoveAtFacts
<1>3. DOMAIN list_observer_' = 1..Len(list_observer_) - 1
  BY <1>2, LenProperties
<1>4. PICK p \in 1..Len(list_observer_) : p = Place(s) /\ list_observer_[p] = s
  BY PlaceFacts
<1>5. \A i, j \in 1..Len(list_observer_) :
        list_observer_[i] = list_observer_[j] => i = j
  BY ListFacts DEF IsInjective
<1>6. Attached' = Attached \ {s}
  <2>1. Len(list_observer_) \in Nat
    BY ListFacts
  <2>2. ASSUME NEW o \in Attached' PROVE o \in Attached \ {s}
    <3>1. PICK j \in 1..Len(list_observer_) - 1 : list_observer_'[j] = o
      BY <1>3, <2>2 DEF Attached, Range
    <3>2. PICK i \in 1..Len(list_observer_) : i # p /\ list_observer_[i] = o
      <4>1. CASE j < p
        BY <1>2, <1>4, <2>1, <3>1, <4>1
      <4>2. CASE ~(j < p)
        <5>1. j + 1 \in 1..Len(list_observer_) /\ j + 1 # p
          BY <2>1, <4>2
        <5>2. list_observer_[j + 1] = o
          BY <1>2, <1>4, <3>1, <4>2
        <5>3. QED  BY <5>1, <5>2
      <4>3. QED  BY <4>1, <4>2
    <3>3. QED  BY <1>4, <1>5, <3>2, ListFacts
  <2>3. ASSUME NEW o \in Attached \ {s} PROVE o \in Attached'
    <3>1. PICK i \in 1..Len(list_observer_) : list_observer_[i] = o
      BY ListFacts
    <3>2. i # p
      BY <1>4, <2>3, <3>1
    <3>3. PICK j \in 1..Len(list_observer_) - 1 : list_observer_'[j] = o
      <4>1. CASE i < p
        <5>1. i \in 1..Len(list_observer_) - 1
          BY <2>1, <4>1
        <5>2. QED  BY <1>2, <1>4, <3>1, <4>1, <5>1
      <4>2. CASE ~(i < p)
        <5>1. i - 1 \in 1..Len(list_observer_) - 1 /\ ~(i - 1 < p) /\ (i - 1) + 1 = i
          BY <2>1, <3>2, <4>2
        <5>2. QED  BY <1>2, <1>4, <3>1, <5>1
      <4>3. QED  BY <4>1, <4>2
    <3>4. QED  BY <1>3, <3>3 DEF Attached, Range
  <2>4. QED  BY <2>2, <2>3
<1>7. QED  BY <1>2, <1>3, <1>6

-----------------------------------------------------------------------------
(* The list, the sockets and the thread of the event loop.                 *)

\* The worker is in the Update() of a node, and the socket whose handler runs
\* is there until it is freed.
WorkerInv == worker \in {"send", "next"} => elem \in Sockets
LoopInv   == loop \in {"attach", "greet", "echo", "detach", "destroy"} => ws \in alive

ListInv == TypeOK /\ WorkerInv /\ LoopInv /\ ListIsOpenSockets

LEMMA FirstNodeType ==
    ASSUME TypeOK PROVE FirstNode \in Sockets \cup {End}
<1>1. list_observer_ # <<>> => Head(list_observer_) \in Sockets
  BY HeadTailProperties DEF TypeOK
<1>2. QED  BY <1>1 DEF FirstNode

LEMMA SuccessorType ==
    ASSUME TypeOK, NEW s \in Attached PROVE Successor(s) \in Sockets \cup {End}
<1>1. Place(s) \in 1..Len(list_observer_) /\ Len(list_observer_) \in Nat
  BY PlaceFacts, ListFacts
<1>2. Place(s) # Len(list_observer_) => Place(s) + 1 \in 1..Len(list_observer_)
  BY <1>1
<1>3. QED  BY <1>2, ListFacts DEF Successor

LEMMA ListInit ==
    ASSUME Init PROVE ListInv
<1>1. TypeOK
  BY EmptySeq DEF Init, TypeOK, WorkerStates, LoopStates
<1>2. WorkerInv /\ LoopInv
  BY DEF Init, WorkerInv, LoopInv
<1>3. ListIsOpenSockets
  <2>1. Len(list_observer_) = 0 /\ DOMAIN list_observer_ = 1..0
    BY <1>1, EmptySeq, ListFacts DEF Init
  <2>2. QED  BY <2>1 DEF Init, ListIsOpenSockets, IsInjective, Attached, Range
<1>4. QED  BY <1>1, <1>2, <1>3 DEF ListInv

\* The worker changes neither the list nor the sockets.
LEMMA WorkerKeepsList ==
    ASSUME ListInv, Worker PROVE ListInv'
<1>1. UNCHANGED <<list_observer_, loop, ws, alive>>
  BY DEF Worker, Awake, Sample, Begin, EndRound, Update, Sent, Advance, loopVars
<1>2. ListIsOpenSockets' /\ LoopInv'
  BY <1>1 DEF ListInv, ListIsOpenSockets, LoopInv, Attached
<1>3. TypeOK' /\ WorkerInv'
  <2> USE DEF ListInv, TypeOK, WorkerInv, WorkerStates, LoopStates, loopVars
  <2>1. ASSUME Awake PROVE TypeOK' /\ WorkerInv'
    BY <2>1 DEF Awake
  <2>2. ASSUME Sample PROVE TypeOK' /\ WorkerInv'
    BY <2>2 DEF Sample
  <2>3. ASSUME Begin PROVE TypeOK' /\ WorkerInv'
    <3>1. elem' \in Sockets \cup {End}
      BY <2>3, FirstNodeType DEF Begin
    <3>2. QED  BY <2>3, <3>1 DEF Begin
  <2>4. ASSUME EndRound PROVE TypeOK' /\ WorkerInv'
    BY <2>4 DEF EndRound
  <2>5. ASSUME Update PROVE TypeOK' /\ WorkerInv'
    BY <2>5 DEF Update
  <2>6. ASSUME Sent PROVE TypeOK' /\ WorkerInv'
    BY <2>6 DEF Sent
  <2>7. ASSUME Advance PROVE TypeOK' /\ WorkerInv'
    <3>1. elem' \in Sockets \cup {End}
      BY <2>7, SuccessorType, ListFacts DEF Advance
    <3>2. QED  BY <2>7, <3>1 DEF Advance
  <2>8. QED  BY <2>1, <2>2, <2>3, <2>4, <2>5, <2>6, <2>7 DEF Worker
<1>4. QED  BY <1>2, <1>3 DEF ListInv

LEMMA AttachKeepsList ==
    ASSUME ListInv, Attach PROVE ListInv'
<1>1. /\ ws \in Sockets /\ ws \in alive /\ ws \notin Attached
      /\ list_observer_' = Pushed(ws)
      /\ Attached = alive \ {ws}
  BY DEF ListInv, Attach, TypeOK, LoopInv, ListIsOpenSockets
<1>2. /\ list_observer_' \in Seq(Sockets)
      /\ \A j \in 1..Len(list_observer_) : list_observer_'[j] = list_observer_[j]
      /\ list_observer_'[Len(list_observer_) + 1] = ws
      /\ DOMAIN list_observer_' = 1..Len(list_observer_) + 1
      /\ Attached' = Attached \cup {ws}
  BY <1>1, PushedFacts DEF ListInv
<1>3. TypeOK' /\ WorkerInv' /\ LoopInv'
  BY <1>1, <1>2
  DEF Attach, ListInv, TypeOK, WorkerInv, LoopInv, WorkerStates, LoopStates
<1>4. IsInjective(list_observer_')
  <2>1. /\ Len(list_observer_) \in Nat
        /\ \A i \in 1..Len(list_observer_) : list_observer_[i] \in Attached
        /\ \A i, j \in 1..Len(list_observer_) :
             list_observer_[i] = list_observer_[j] => i = j
    BY ListFacts DEF ListInv, ListIsOpenSockets, IsInjective
  <2>2. SUFFICES ASSUME NEW i \in 1..Len(list_observer_) + 1,
                        NEW j \in 1..Len(list_observer_) + 1,
                        list_observer_'[i] = list_observer_'[j]
                 PROVE  i = j
    BY <1>2 DEF IsInjective
  <2>3. CASE i \in 1..Len(list_observer_) /\ j \in 1..Len(list_observer_)
    BY <1>2, <2>1, <2>2, <2>3
  <2>4. CASE i \notin 1..Len(list_observer_) /\ j \in 1..Len(list_observer_)
    <3>1. i = Len(list_observer_) + 1
      BY <2>1, <2>4
    <3>2. QED  BY <1>1, <1>2, <2>1, <2>2, <2>4, <3>1
  <2>5. CASE i \in 1..Len(list_observer_) /\ j \notin 1..Len(list_observer_)
    <3>1. j = Len(list_observer_) + 1
      BY <2>1, <2>5
    <3>2. QED  BY <1>1, <1>2, <2>1, <2>2, <2>5, <3>1
  <2>6. CASE i \notin 1..Len(list_observer_) /\ j \notin 1..Len(list_observer_)
    BY <2>1, <2>6
  <2>7. QED  BY <2>3, <2>4, <2>5, <2>6
<1>5. ListIsOpenSockets'
  BY <1>1, <1>2, <1>4 DEF ListIsOpenSockets, Attach
<1>6. QED  BY <1>3, <1>5 DEF ListInv

LEMMA DetachKeepsList ==
    ASSUME ListInv, Detach PROVE ListInv'
<1>1. /\ ws \in Attached /\ ws \in alive
      /\ list_observer_' = Removed(ws)
      /\ Attached = alive
      /\ IsInjective(list_observer_)
  BY DEF ListInv, Detach, LoopInv, ListIsOpenSockets
<1>2. /\ list_observer_' \in Seq(Sockets)
      /\ \A j \in 1..Len(list_observer_) - 1 :
           list_observer_'[j] = IF j < Place(ws) THEN list_observer_[j]
                                                 ELSE list_observer_[j + 1]
      /\ DOMAIN list_observer_' = 1..Len(list_observer_) - 1
      /\ Attached' = Attached \ {ws}
  BY <1>1, RemovedFacts DEF ListInv
<1>3. TypeOK' /\ WorkerInv' /\ LoopInv'
  BY <1>1, <1>2
  DEF Detach, ListInv, TypeOK, WorkerInv, LoopInv, WorkerStates, LoopStates
<1>4. IsInjective(list_observer_')
  <2>1. /\ Len(list_observer_) \in Nat
        /\ Place(ws) \in 1..Len(list_observer_)
        /\ \A i, j \in 1..Len(list_observer_) :
             list_observer_[i] = list_observer_[j] => i = j
    BY <1>1, ListFacts, PlaceFacts DEF ListInv, IsInjective
  <2>2. SUFFICES ASSUME NEW i \in 1..Len(list_observer_) - 1,
                        NEW j \in 1..Len(list_observer_) - 1,
                        list_observer_'[i] = list_observer_'[j]
                 PROVE  i = j
    BY <1>2 DEF IsInjective
  <2>3. /\ i \in 1..Len(list_observer_) /\ i + 1 \in 1..Len(list_observer_)
        /\ j \in 1..Len(list_observer_) /\ j + 1 \in 1..Len(list_observer_)
    BY <2>1
  <2>4. (IF i < Place(ws) THEN i ELSE i + 1) = (IF j < Place(ws) THEN j ELSE j + 1)
    BY <1>2, <2>1, <2>2, <2>3
  <2>5. QED  BY <2>1, <2>4
<1>5. ListIsOpenSockets'
  BY <1>1, <1>2, <1>4 DEF ListIsOpenSockets, Detach
<1>6. QED  BY <1>3, <1>5 DEF ListInv

LEMMA ListStep ==
    ASSUME ListInv, [Next]_vars PROVE ListInv'
<1> USE DEF ListInv, TypeOK, WorkerInv, LoopInv, WorkerStates, LoopStates, loopVars,
            ListIsOpenSockets, Attached
<1>1. ASSUME Worker PROVE ListInv'
  BY <1>1, WorkerKeepsList
<1>2. ASSUME Listen PROVE ListInv'
  BY <1>2 DEF Listen
<1>3. ASSUME Return PROVE ListInv'
  BY <1>3 DEF Return
<1>4. ASSUME Attach PROVE ListInv'
  BY <1>4, AttachKeepsList
<1>5. ASSUME Greet PROVE ListInv'
  BY <1>5 DEF Greet
<1>6. ASSUME Echo PROVE ListInv'
  BY <1>6 DEF Echo
<1>7. ASSUME Detach PROVE ListInv'
  BY <1>7, DetachKeepsList
<1>8. ASSUME Destroy PROVE ListInv'
  BY <1>8 DEF Destroy
<1>9. ASSUME NEW s \in Sockets, Open(s) PROVE ListInv'
  BY <1>9 DEF Open
<1>10. ASSUME NEW s \in Sockets, Message(s) PROVE ListInv'
  BY <1>10 DEF Message
<1>11. ASSUME NEW s \in Sockets, Close(s) PROVE ListInv'
  BY <1>11 DEF Close
<1>12. ASSUME setRunB PROVE ListInv'
  BY <1>12, ZenonT(60) DEF setRunB
<1>13. ASSUME UNCHANGED vars PROVE ListInv'
  BY <1>13 DEF vars
<1>14. QED
  BY <1>1, <1>2, <1>3, <1>4, <1>5, <1>6, <1>7, <1>8, <1>9, <1>10, <1>11, <1>12,
     <1>13 DEF Next, Handler, Event

LEMMA ListHolds == Spec => []ListInv
<1>1. QED  BY ListInit, ListStep, PTL DEF Spec

\* The variables of the worker and of the event loop have their types.
THEOREM TypeCorrect == Spec => []TypeOK
<1>1. ListInv => TypeOK
  BY DEF ListInv
<1>2. QED  BY <1>1, ListHolds, PTL

\* Between two handlers the list holds each open socket once and no other, in
\* whatever order any number of them opens and closes.
THEOREM ListIsRight == Spec => []ListIsOpenSockets
<1>1. ListInv => ListIsOpenSockets
  BY DEF ListInv
<1>2. QED  BY <1>1, ListHolds, PTL

-----------------------------------------------------------------------------
(* A round.                                                                *)

LEMMA Distinct ==
    ASSUME ListInv
    PROVE  /\ Len(list_observer_) \in Nat
           /\ \A i, j \in 1..Len(list_observer_) :
                list_observer_[i] = list_observer_[j] => i = j
           /\ \A i \in 1..Len(list_observer_) : list_observer_[i] # End
           /\ \A i \in 1..Len(list_observer_) : list_observer_[i] \in Attached
<1>1. TypeOK /\ IsInjective(list_observer_)
  BY DEF ListInv, ListIsOpenSockets
<1>2. QED  BY <1>1, ListFacts, SysMonitorAssumption DEF IsInjective

LEMMA SuccessorFacts ==
    ASSUME ListInv, NEW i \in 1..Len(list_observer_)
    PROVE  Successor(list_observer_[i]) =
             IF i = Len(list_observer_) THEN End ELSE list_observer_[i + 1]
<1>1. Place(list_observer_[i]) = i
  BY Distinct, PlaceFacts DEF ListInv
<1>2. QED  BY <1>1 DEF Successor

LEMMA BeginRound ==
    ASSUME ListInv, ServedAreInFront, Begin PROVE ServedAreInFront'
<1>1. /\ served' = {} /\ worker' = "test" /\ elem' = FirstNode
      /\ UNCHANGED <<list_observer_, undefined>>
  BY DEF Begin
<1>2. CASE list_observer_ = <<>>
  BY <1>1, <1>2 DEF ServedAreInFront, FirstNode
<1>3. CASE list_observer_ # <<>>
  <2>1. list_observer_ \in Seq(Sockets) /\ Len(list_observer_) \in Nat
    BY Distinct DEF ListInv, TypeOK
  <2>2. Len(list_observer_) \in Nat \ {0}
    BY <1>3, <2>1, EmptySeq
  <2>3. 1 \in 1..Len(list_observer_) /\ elem' = list_observer_[1]
    BY <1>1, <1>3, <2>1, <2>2, HeadTailProperties DEF FirstNode
  <2>4. At(1)'
    BY <1>1, <2>3 DEF At
  <2>5. QED  BY <1>1, <2>3, <2>4 DEF ServedAreInFront
<1>4. QED  BY <1>2, <1>3

LEMMA SentInRound ==
    ASSUME ListInv, ServedAreInFront, Sent PROVE ServedAreInFront'
<1> SUFFICES ASSUME ~undefined PROVE ServedAreInFront'
  BY DEF ServedAreInFront, Sent
<1>1. /\ worker = "send" /\ InRound
      /\ UNCHANGED <<list_observer_, elem, undefined>>
  BY DEF Sent, InRound
<1>2. PICK i \in 1..Len(list_observer_) : At(i)
  BY <1>1 DEF ServedAreInFront
<1>3. CASE UNCHANGED <<worker, served>>
  BY <1>1, <1>3 DEF ServedAreInFront, At, InRound, Attached
<1>4. CASE worker' = "next" /\ served' = served \cup {elem}
  <2>1. ASSUME NEW j \in 1..Len(list_observer_)
        PROVE  list_observer_[j] \in served' <=> j < i \/ j = i
    BY <1>1, <1>2, <1>4, Distinct DEF At
  <2>2. At(i)'
    BY <1>1, <1>2, <1>4, <2>1 DEF At
  <2>3. served' \subseteq Attached'
    BY <1>1, <1>2, <1>4, Distinct DEF At, ServedAreInFront, Attached
  <2>4. QED  BY <1>1, <1>2, <2>2, <2>3 DEF ServedAreInFront
<1>5. QED  BY <1>3, <1>4 DEF Sent

LEMMA AdvanceInRound ==
    ASSUME ListInv, ServedAreInFront, Advance PROVE ServedAreInFront'
<1> SUFFICES ASSUME ~undefined PROVE ServedAreInFront'
  BY DEF ServedAreInFront, Advance
<1>1. /\ worker = "next" /\ InRound
      /\ UNCHANGED <<list_observer_, served, undefined>>
  BY DEF Advance, InRound
<1>2. PICK i \in 1..Len(list_observer_) : At(i)
  BY <1>1 DEF ServedAreInFront
<1>3. /\ worker' = "test"
      /\ elem' = IF i = Len(list_observer_) THEN End ELSE list_observer_[i + 1]
  BY <1>2, Distinct, SuccessorFacts DEF Advance, At
<1>4. served' \subseteq Attached'
  BY <1>1 DEF ServedAreInFront, Attached
<1>5. CASE i = Len(list_observer_)
  BY <1>1, <1>3, <1>4, <1>5 DEF ServedAreInFront
<1>6. CASE i # Len(list_observer_)
  <2>1. i + 1 \in 1..Len(list_observer_)
    BY <1>6, Distinct
  <2>2. At(i + 1)'
    <3>1. ASSUME NEW j \in 1..Len(list_observer_)
          PROVE  list_observer_[j] \in served <=> j < i + 1
      BY <1>1, <1>2, Distinct DEF At
    <3>2. QED  BY <1>1, <1>3, <1>6, <3>1 DEF At
  <2>3. QED  BY <1>1, <1>4, <2>1, <2>2 DEF ServedAreInFront
<1>7. QED  BY <1>5, <1>6

LEMMA AttachInRound ==
    ASSUME ListInv, ServedAreInFront, Attach PROVE ServedAreInFront'
<1> SUFFICES ASSUME ~undefined PROVE ServedAreInFront'
  BY DEF ServedAreInFront, Attach
<1>1. /\ ws \in Sockets /\ ws \notin Attached
      /\ list_observer_' = Pushed(ws)
      /\ UNCHANGED <<worker, elem, served, undefined>>
  BY DEF ListInv, Attach, TypeOK, LoopInv, ListIsOpenSockets
<1>2. /\ Len(list_observer_') = Len(list_observer_) + 1
      /\ \A j \in 1..Len(list_observer_) : list_observer_'[j] = list_observer_[j]
      /\ list_observer_'[Len(list_observer_) + 1] = ws
      /\ Attached' = Attached \cup {ws}
  BY <1>1, PushedFacts DEF ListInv
<1>3. served \subseteq Attached /\ ws \notin served
  BY <1>1 DEF ServedAreInFront
<1>4. ASSUME NEW i \in 1..Len(list_observer_), At(i) PROVE At(i)'
  <2>1. Len(list_observer_) \in Nat
    BY Distinct
  <2>2. elem' = list_observer_'[i]
    BY <1>1, <1>2, <1>4 DEF At
  <2>3. ASSUME NEW j \in 1..Len(list_observer_) + 1
        PROVE  list_observer_'[j] \in served' <=> j < i \/ (j = i /\ worker' = "next")
    <3>1. CASE j \in 1..Len(list_observer_)
      BY <1>1, <1>2, <1>4, <3>1 DEF At
    <3>2. CASE j = Len(list_observer_) + 1
      BY <1>1, <1>2, <1>3, <2>1, <3>2
    <3>3. QED  BY <2>1, <3>1, <3>2
  <2>4. QED  BY <1>2, <2>2, <2>3 DEF At
<1>5. \A i \in 1..Len(list_observer_) : i \in 1..Len(list_observer_')
  BY <1>2, Distinct
<1>6. QED  BY <1>1, <1>2, <1>3, <1>4, <1>5 DEF ServedAreInFront, InRound

LEMMA DetachInRound ==
    ASSUME ListInv, ServedAreInFront, Detach PROVE ServedAreInFront'
<1> SUFFICES ASSUME ~undefined' PROVE ServedAreInFront'
  BY DEF ServedAreInFront
<1>1. /\ ws \in Attached /\ IsInjective(list_observer_)
      /\ list_observer_' = Removed(ws)
      /\ served' = served \ {ws}
      /\ UNCHANGED <<worker, elem>>
      /\ ~undefined /\ ~(InRound /\ elem = ws)
  BY DEF ListInv, Detach, LoopInv, ListIsOpenSockets
<1>2. PICK p \in 1..Len(list_observer_) : p = Place(ws) /\ list_observer_[p] = ws
  BY <1>1, PlaceFacts DEF ListInv
<1>3. /\ Len(list_observer_') = Len(list_observer_) - 1
      /\ \A j \in 1..Len(list_observer_) - 1 :
           list_observer_'[j] = IF j < p THEN list_observer_[j]
                                         ELSE list_observer_[j + 1]
      /\ Attached' = Attached \ {ws}
  BY <1>1, <1>2, RemovedFacts DEF ListInv
<1>4. served' \subseteq Attached'
  BY <1>1, <1>3 DEF ServedAreInFront
<1>5. ASSUME NEW i \in 1..Len(list_observer_), At(i), InRound
      PROVE  \E k \in 1..Len(list_observer_') : At(k)'
  <2>1. Len(list_observer_) \in Nat /\ i # p
    BY <1>1, <1>2, <1>5, Distinct DEF At
  <2>2. PICK k \in 1..Len(list_observer_) - 1 : k = IF i < p THEN i ELSE i - 1
    BY <2>1
  <2>3. elem' = list_observer_'[k]
    BY <1>1, <1>3, <1>5, <2>1, <2>2 DEF At
  <2>4. ASSUME NEW j \in 1..Len(list_observer_) - 1
        PROVE  list_observer_'[j] \in served' <=> j < k \/ (j = k /\ worker' = "next")
    <3>1. CASE j < p
      <4>1. j \in 1..Len(list_observer_) /\ list_observer_'[j] = list_observer_[j]
        BY <1>3, <2>1, <3>1
      <4>2. list_observer_[j] # ws
        BY <1>2, <3>1, <4>1, Distinct
      <4>3. list_observer_'[j] \in served' <=> j < i \/ (j = i /\ worker = "next")
        BY <1>1, <1>5, <4>1, <4>2 DEF At
      <4>4. QED  BY <1>1, <2>1, <2>2, <3>1, <4>3
    <3>2. CASE ~(j < p)
      <4>1. /\ j + 1 \in 1..Len(list_observer_) /\ j + 1 # p
            /\ list_observer_'[j] = list_observer_[j + 1]
        BY <1>3, <2>1, <3>2
      <4>2. list_observer_[j + 1] # ws
        BY <1>2, <4>1, Distinct
      <4>3. list_observer_'[j] \in served' <=> j + 1 < i \/ (j + 1 = i /\ worker = "next")
        BY <1>1, <1>5, <4>1, <4>2 DEF At
      <4>4. QED  BY <1>1, <2>1, <2>2, <3>2, <4>3
    <3>3. QED  BY <3>1, <3>2
  <2>5. At(k)'
    BY <1>3, <2>3, <2>4 DEF At
  <2>6. QED  BY <1>3, <2>5
<1>6. InRound' = InRound
  BY <1>1 DEF InRound
<1>7. QED  BY <1>1, <1>4, <1>5, <1>6 DEF ServedAreInFront

LEMMA RoundStep ==
    ASSUME ListInv, ServedAreInFront, [Next]_vars PROVE ServedAreInFront'
<1> DEFINE Same == UNCHANGED <<list_observer_, elem, served, undefined>>
<1>1. ASSUME Same, worker' = worker \/ ~InRound' PROVE ServedAreInFront'
  BY <1>1 DEF ServedAreInFront, At, InRound, Attached
<1>2. ASSUME Awake \/ Sample \/ EndRound PROVE ServedAreInFront'
  BY <1>1, <1>2 DEF Awake, Sample, EndRound, InRound
<1>3. ASSUME Update PROVE ServedAreInFront'
  BY <1>3 DEF Update, ServedAreInFront, At, InRound, Attached
<1>4. ASSUME Begin PROVE ServedAreInFront'
  BY <1>4, BeginRound
<1>5. ASSUME Sent PROVE ServedAreInFront'
  BY <1>5, SentInRound
<1>6. ASSUME Advance PROVE ServedAreInFront'
  BY <1>6, AdvanceInRound
<1>7. ASSUME Attach PROVE ServedAreInFront'
  BY <1>7, AttachInRound
<1>8. ASSUME Detach PROVE ServedAreInFront'
  BY <1>8, DetachInRound
<1>9. ASSUME Listen \/ Return \/ Greet \/ Echo \/ Destroy PROVE ServedAreInFront'
  BY <1>1, <1>9 DEF Listen, Return, Greet, Echo, Destroy, loopVars
<1>10. ASSUME Event \/ setRunB \/ UNCHANGED vars PROVE ServedAreInFront'
  BY <1>1, <1>10 DEF Event, Open, Message, Close, setRunB, vars, loopVars
<1>11. QED
  BY <1>2, <1>3, <1>4, <1>5, <1>6, <1>7, <1>8, <1>9, <1>10
  DEF Next, Worker, Handler

LEMMA RoundHolds == Spec => [](ListInv /\ ServedAreInFront)
<1>1. Init => ServedAreInFront
  BY DEF Init, ServedAreInFront, InRound
<1>2. QED  BY <1>1, ListInit, ListStep, RoundStep, PTL DEF Spec

\* The nodes served in a round are those in front of the worker, unless a node
\* was ever freed under it.
THEOREM RoundIsOrdered == Spec => []ServedAreInFront
  BY RoundHolds, PTL

\* However sockets open and close during a round, none gets one sample twice
\* while it stays attached, unless a node was ever freed under the worker.
THEOREM NoneServedTwice == Spec => ServedOncePerRound
<1>1. ASSUME ListInv, ServedAreInFront, [Next]_vars,
             worker = "test", worker' = "send", ~undefined
      PROVE  elem \notin served
  <2>1. Update
    BY <1>1 DEF Next, Worker, Handler, Event, Awake, Sample, Begin, EndRound, Update,
                Sent, Advance, Listen, Return, Attach, Greet, Echo, Detach, Destroy,
                Open, Message, Close, setRunB, vars, loopVars
  <2>2. PICK i \in 1..Len(list_observer_) : At(i)
    BY <1>1, <2>1 DEF Update, ServedAreInFront, InRound
  <2>3. QED  BY <1>1, <2>2, Distinct DEF At
<1>2. QED  BY <1>1, RoundHolds, PTL DEF Spec, ServedOncePerRound

\* And when the worker reaches the end of the list, every observer then in it
\* has been served.
THEOREM AllServed == Spec => RoundServesAll
<1>1. ASSUME ListInv, ServedAreInFront, [Next]_vars,
             worker = "next", elem' = End, worker' = "test", ~undefined
      PROVE  Attached \subseteq served
  <2>1. Advance
    BY <1>1 DEF Next, Worker, Handler, Event, Awake, Sample, Begin, EndRound, Update,
                Sent, Advance, Listen, Return, Attach, Greet, Echo, Detach, Destroy,
                Open, Message, Close, setRunB, vars, loopVars
  <2>2. PICK i \in 1..Len(list_observer_) : At(i)
    BY <1>1 DEF ServedAreInFront, InRound
  <2>3. elem' = IF i = Len(list_observer_) THEN End ELSE list_observer_[i + 1]
    BY <1>1, <2>1, <2>2, Distinct, SuccessorFacts DEF Advance, At
  <2>4. i = Len(list_observer_)
    <3>1. i # Len(list_observer_) => i + 1 \in 1..Len(list_observer_)
      BY <1>1, Distinct
    <3>2. QED  BY <1>1, <2>3, <3>1, Distinct
  <2>5. ASSUME NEW s \in Attached PROVE s \in served
    <3>1. PICK j \in 1..Len(list_observer_) : list_observer_[j] = s
      BY <1>1, ListFacts DEF ListInv
    <3>2. j < i \/ j = i
      BY <1>1, <2>4, Distinct
    <3>3. QED  BY <1>1, <2>2, <3>1, <3>2 DEF At
  <2>6. QED  BY <2>5
<1>2. QED  BY <1>1, RoundHolds, PTL DEF Spec, RoundServesAll

=============================================================================
