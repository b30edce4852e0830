------------------------ MODULE TimerLifetimeProofs -------------------------
(***************************************************************************)
(* That callers share one timer, what the process may die of, and how soon *)
(* stop() works, for every number of threads and slots.                    *)
(***************************************************************************)
EXTENDS TimerLifetime, TLAPS

InstanceGone == pc[Main] \in {"exit", "ended"}
Later        == {"isRunning", "sleep", "free", "statics", "exit", "ended"}

\* main() is in a call of the API only while it has a slot to attach.
TypeInv ==
    /\ TypeOK
    /\ pc[Main] \in InCall \cup {"idle"} => attached < Len(MainSlots)

\* A timer that was not made has no thread, and no flag set; a thread makes
\* one at most.
BornInv ==
    /\ \A c \in Threads \ timers :
         dispatcher[c] = "unborn" /\ ~joinable[c] /\ ~b_isRunning[c]
    /\ \A t \in Threads :
         \/ pc[t] = "make"
         \/ pc[t] = "idle" /\ (t = Main => instance = NoTimer)
         => t \notin timers

\* main() has attached something when it is past that, and what it has left
\* behind when it has left its loop is known.
MainInv ==
    /\ \A t \in Others : pc[t] \notin Later
    /\ pc[Main] # "done"
    /\ pc[Main] \in Later => returned
    /\ ~locals => pc[Main] \in {"statics", "exit", "ended"}
    /\ MainLeft \/ ~leftOthers
    /\ MainLeft /\ ~leftOthers => MainIsAlone

\* The instance, once there, is there until the end of main().
InstanceInv ==
    /\ returned => instance # NoTimer \/ InstanceGone
    /\ \A t \in Threads :
         /\ pc[t] \in {"copy", "count", "start", "detach", "push"} =>
                instance # NoTimer \/ InstanceGone
         /\ pc[t] = "count" /\ target[t] = NoTimer => InstanceGone
         /\ pc[t] = "count" => target[t] \in timers \cup {NoTimer}
         /\ pc[t] \in Holding => target[t] \in timers
         /\ pc[t] = "assign" => target[t] = t
    /\ instance \in timers \cup {NoTimer}

\* The first call of all, alone.
InFirstCall(t) ==
    /\ \A u \in Threads \ {t} : pc[u] = "idle"
    /\ pc[t] \in InCall
    /\ timers = IF pc[t] = "make" THEN {} ELSE {t}
    /\ instance = IF pc[t] \in {"make", "assign"} THEN NoTimer ELSE t
    /\ pc[t] \notin {"make", "copy"} => target[t] = t
    /\ pc[t] \notin {"make", "push"} => joinable[t] /\ ~b_isRunning[t]
    /\ pc[t] = "push" => ~joinable[t] /\ (b_isRunning[t] \/ stopped)

\* Before it, nothing was made.
FirstCallInv ==
    ~raced /\ ~returned =>
        \/ /\ instance = NoTimer /\ timers = {}
           /\ \A t \in Threads : pc[t] = "idle"
        \/ \E t \in Threads : InFirstCall(t)

\* Afterwards every call gets the instance, whose thread is detached; start()
\* detaches again only when stop() has cleared the flag.
SharedInv ==
    ~raced /\ returned /\ ~InstanceGone =>
        /\ timers = {instance}
        /\ ~joinable[instance]
        /\ ~stopped => b_isRunning[instance]
        /\ \A t \in Threads :
             /\ pc[t] \notin {"make", "assign"}
             /\ pc[t] \in {"count", "start", "detach", "push"} =>
                    target[t] = instance
             /\ ~stopped => pc[t] # "detach"

LifetimeInv ==
    /\ TypeInv /\ BornInv /\ MainInv /\ InstanceInv /\ FirstCallInv /\ SharedInv
    /\ DeathsAreKnown

\* Where a slot may be that was attached.
AttachedInv ==
    \A c \in Threads : \A i \in DOMAIN v_observables[c] :
        LET s == v_observables[c][i]
        IN  /\ s \in Others => pc[s] = "done"
            /\ s \in Range(MainSlots) => \E k \in 1..attached : s = MainSlots[k]
            /\ \A j \in DOMAIN v_observables[c] :
                 v_observables[c][j] = s => i = j

\* A slot is launched after stop() only if it was not before, in this scan.
StopOf(c) ==
    /\ \A s \in Slots :
         /\ launched[c][s] < 2
         /\ b_isRunning[c] \/ dispatcher[c] \in {"unborn", "wait"} =>
                launched[c][s] = 0
         /\ launched[c][s] # 0 /\ dispatcher[c] # "exited" =>
                s \in Range(v_observables[c])
    /\ \A i \in DOMAIN v_observables[c] :
         \/ dispatcher[c] = "scan" /\ i >= at[c]
         \/ dispatcher[c] = "callback" /\ i > at[c]
         => launched[c][v_observables[c][i]] = 0

StopInv == \A c \in Threads : StopOf(c)

ScanInv == AttachedInv /\ StopInv

-----------------------------------------------------------------------------
(* Types.                                                                  *)

LEMMA InitType == Init => TypeInv
<1> SUFFICES ASSUME Init PROVE TypeInv
  OBVIOUS
<1>1. Len(MainSlots) \in Nat /\ Len(MainSlots) > 0
  BY TimerLifetimeAssumption
<1>2. << >> \in Seq(Slots)
  OBVIOUS
<1>3. v_observables \in [Threads -> Seq(Slots)]
  BY <1>2 DEF Init
<1>4. launched \in [Threads -> [Slots -> 0..2]]
  BY DEF Init
<1>5. pc \in [Threads \cup Stoppers -> Places]
  BY DEF Init, Places
<1>6. attached \in 0..Len(MainSlots) /\ attached < Len(MainSlots)
  BY <1>1 DEF Init
<1>7. target \in [Threads -> Threads \cup {NoTimer}]
  BY DEF Init
<1>8. at \in [Threads -> Nat \ {0}]
  BY DEF Init
<1> QED
  BY <1>3, <1>4, <1>5, <1>6, <1>7, <1>8 DEF Init, TypeInv, TypeOK

\* A thread goes to a place.
LEMMA GotoType ==
    ASSUME TypeInv, NEW t \in Threads \cup Stoppers, NEW place \in Places,
           Goto(t, place), attached' = attached,
           t = Main /\ place \in InCall => attached < Len(MainSlots),
           place # "idle"
    PROVE  /\ pc' \in [Threads \cup Stoppers -> Places]
           /\ (pc[Main] \in InCall \cup {"idle"} => attached < Len(MainSlots))'
<1>1. pc \in [Threads \cup Stoppers -> Places]
  BY DEF TypeInv, TypeOK
<1>2. pc' \in [Threads \cup Stoppers -> Places]
  BY <1>1 DEF Goto
<1>3. Main \in Threads
  BY DEF Threads
<1>4. CASE t = Main
  BY <1>1, <1>3, <1>4 DEF Goto
<1>5. CASE t # Main
  BY <1>1, <1>3, <1>5 DEF Goto, TypeInv
<1> QED
  BY <1>2, <1>4, <1>5

\* The flags and the process's end.
Faults == {"none", "null", "uncaught", "terminate", "freed timer", "freed local"}

\* The actions of a caller keep the types.
LEMMA ApiType ==
    ASSUME TypeInv, NEW t \in Threads, Api(t)
    PROVE  TypeInv'
<1>a. /\ Main \in Threads /\ MainSlots \in Seq(Slots) /\ Len(MainSlots) \in Nat
      /\ t \in Threads \cup Stoppers
  BY TimerLifetimeAssumption DEF Threads
<1>b. /\ InCall \subseteq Places /\ "threw" \in Places /\ "idle" \notin InCall
      /\ "done" \in Places /\ "isRunning" \in Places /\ "idle" \in Places
  BY DEF Places, InCall
<1>c. t = Main /\ pc[t] \in InCall \cup {"idle"} => attached < Len(MainSlots)
  BY DEF TypeInv
<1>d. /\ {"make", "assign", "copy", "count", "start", "detach", "push"} = InCall
      /\ fault \in Faults /\ "terminate" \in Faults /\ "uncaught" \in Faults
      /\ "null" \in Faults /\ "freed timer" \in Faults
  BY DEF InCall, Faults, TypeInv, TypeOK
<1>e. ASSUME NEW how \in Faults, Dies(how) PROVE TypeInv'
  BY <1>e, ZenonT(60) DEF Faults, Dies, TypeInv, TypeOK, timerVars, dispVars, mainVars, histVars
<1>f. Release => fault' \in Faults
  BY <1>d DEF Release
<1> DEFINE Going == /\ pc' \in [Threads \cup Stoppers -> Places]
                    /\ (pc[Main] \in InCall \cup {"idle"}
                            => attached < Len(MainSlots))'
<1>g. ASSUME NEW place \in InCall \cup {"threw"}, Goto(t, place),
             attached' = attached, pc[t] \in InCall \cup {"idle"}
      PROVE  Going
  BY <1>g, <1>a, <1>b, <1>c, GotoType
<1> HIDE DEF Going
<1> USE DEF timerVars, dispVars, mainVars, histVars
<1>1. CASE Call(t)
  <2>1. Going
    BY <1>1, <1>a, <1>d, <1>g DEF Call, MayCall
  <2> QED
    BY <1>1, <2>1 DEF Call, Going, TypeInv, TypeOK
<1>2. CASE Make(t)
  <2>1. Going
    BY <1>2, <1>d, <1>g DEF Make
  <2> QED
    BY <1>2, <2>1, ZenonT(60) DEF Make, Going, TypeInv, TypeOK
<1>3. CASE AssignInstance(t)
  <2>1. Going
    BY <1>3, <1>d, <1>g DEF AssignInstance
  <2> QED
    BY <1>3, <2>1, <1>f DEF AssignInstance, Going, TypeInv, TypeOK, Faults
<1>4. CASE Copy(t)
  <2>1. Going
    BY <1>4, <1>d, <1>g DEF Copy
  <2> QED
    BY <1>4, <2>1, ZenonT(60) DEF Copy, Going, TypeInv, TypeOK
<1>5. CASE Count(t)
  <2>1. CASE Dies("null") \/ Dies("freed timer")
    BY <2>1, <1>d, <1>e
  <2>2. CASE ~(Dies("null") \/ Dies("freed timer"))
    <3>1. Goto(t, "start") /\ UNCHANGED <<timerVars, dispVars, target, mainVars,
                                          fault, histVars, launched>>
      BY <2>2, <1>5 DEF Count
    <3>2. Going
      BY <1>5, <3>1, <1>d, <1>g DEF Count
    <3> QED
      BY <3>1, <3>2, ZenonT(60) DEF Going, TypeInv, TypeOK
  <2> QED
    BY <2>1, <2>2
<1>6. CASE Start(t)
  <2>1. Going
    BY <1>6, <1>d, <1>g DEF Start
  <2> QED
    BY <1>6, <2>1 DEF Start, Going, TypeInv, TypeOK
<1>7. CASE Detach(t)
  <2>1. Going
    BY <1>7, <1>d, <1>g DEF Detach
  <2>2. launched' \in [Threads -> [Slots -> 0..2]]
    <3>1. [s \in Slots |-> 0] \in [Slots -> 0..2]
      OBVIOUS
    <3>2. launched \in [Threads -> [Slots -> 0..2]]
      BY DEF TypeInv, TypeOK
    <3> QED
      BY <1>7, <3>1, <3>2 DEF Detach
  <2>3. /\ b_isRunning' \in [Threads -> BOOLEAN]
        /\ joinable' \in [Threads -> BOOLEAN]
    BY <1>7 DEF Detach, Detached, TypeInv, TypeOK
  <2>4. fault' \in Faults
    BY <1>7, <1>d, <1>f DEF Detach
  <2> QED
    BY <2>1, <2>2, <2>3, <2>4, <1>7 DEF Detach, Going, TypeInv, TypeOK, Faults
<1>8. CASE Push(t)
  <2> DEFINE c == target[t]
             s == IF t = Main THEN MainSlots[attached + 1] ELSE t
  <2>0. /\ attached \in 0..Len(MainSlots)
        /\ t = Main => attached < Len(MainSlots)
    BY <1>8, <1>c, <1>d DEF Push, TypeInv, TypeOK
  <2>1. s \in Slots
    <3>1. CASE t = Main
      <4>1. attached + 1 \in 1..Len(MainSlots)
        BY <2>0, <3>1, <1>a
      <4>2. MainSlots[attached + 1] \in Slots
        BY <4>1, <1>a
      <4> QED
        BY <4>2, <3>1
    <3>2. CASE t # Main
      BY <3>2 DEF Slots, Threads
    <3> QED
      BY <3>1, <3>2
  <2>2. v_observables' = [v_observables EXCEPT ![c] = Append(@, s)]
    BY <1>8 DEF Push
  <2>3. v_observables' \in [Threads -> Seq(Slots)]
    <3>1. v_observables \in [Threads -> Seq(Slots)]
      BY DEF TypeInv, TypeOK
    <3> HIDE DEF s, c
    <3>2. CASE c \in Threads
      <4>1. Append(v_observables[c], s) \in Seq(Slots)
        BY <2>1, <3>1, <3>2
      <4> QED
        BY <2>2, <3>1, <4>1
    <3>3. CASE c \notin Threads
      BY <2>2, <3>1, <3>3
    <3> QED
      BY <3>2, <3>3
  <2>4. attached \in Nat /\ attached' \in 0..Len(MainSlots)
    BY <1>8, <1>a, <2>0 DEF Push
  <2>5. Going
    <3>1. pc' \in [Threads \cup Stoppers -> Places]
      BY <1>8, <1>b DEF Push, Goto, TypeInv, TypeOK
    <3>2. pc'[Main] \in InCall \cup {"idle"} => attached' < Len(MainSlots)
      <4>1. CASE t # Main
        BY <4>1, <1>8, <1>a DEF Push, Goto, TypeInv, TypeOK
      <4>2. CASE t = Main
        BY <4>2, <1>8, <1>a DEF Push, Goto, InCall, TypeInv, TypeOK
      <4> QED
        BY <4>1, <4>2, Zenon
    <3> QED
      BY <3>1, <3>2 DEF Going
  <2>6. /\ target' \in [Threads -> Threads \cup {NoTimer}]
        /\ fault' \in Faults
    BY <1>8, <1>f DEF Push, TypeInv, TypeOK
  <2> QED
    BY <2>3, <2>4, <2>5, <2>6, <1>8 DEF Push, Going, TypeInv, TypeOK, Faults
<1> QED
  BY <1>1, <1>2, <1>3, <1>4, <1>5, <1>6, <1>7, <1>8 DEF Api

\* So do the dispatchers.
LEMMA DispatchType ==
    ASSUME TypeInv, NEW c \in Threads, Dispatch(c)
    PROVE  TypeInv'
<1> USE DEF timerVars, dispVars, mainVars, histVars
<1> DEFINE Spots == {"unborn", "loop", "outer", "wait", "scan", "callback",
                     "drain", "exited"}
<1>a. ASSUME NEW how \in Faults, Dies(how) PROVE TypeInv'
  BY <1>a, ZenonT(60) DEF Faults, Dies, TypeInv, TypeOK
<1>b. "freed timer" \in Faults /\ "freed local" \in Faults
  BY DEF Faults
<1>c. ASSUME NEW place \in Spots, Goes(c, place),
             at' \in [Threads -> Nat \ {0}], launched' \in [Threads -> [Slots -> 0..2]]
      PROVE  TypeInv'
  <2>1. dispatcher' \in [Threads -> Spots]
    BY <1>c DEF Goes, TypeInv, TypeOK
  <2> QED
    BY <1>c, <2>1, ZenonT(60) DEF Goes, TypeInv, TypeOK
<1>d. /\ "wait" \in Spots /\ "outer" \in Spots /\ "loop" \in Spots
      /\ "drain" \in Spots /\ "scan" \in Spots /\ "callback" \in Spots
      /\ "exited" \in Spots
  OBVIOUS
<1>e. at \in [Threads -> Nat \ {0}] /\ launched \in [Threads -> [Slots -> 0..2]]
  BY DEF TypeInv, TypeOK
<1>f. /\ [at EXCEPT ![c] = 1] \in [Threads -> Nat \ {0}]
      /\ [at EXCEPT ![c] = @ + 1] \in [Threads -> Nat \ {0}]
  BY <1>e
<1> HIDE DEF Spots
<1>1. CASE Loop(c)
  BY <1>1, <1>c, <1>d, <1>e DEF Loop
<1>2. CASE Outer(c)
  BY <1>2, <1>c, <1>d, <1>e DEF Outer
<1>3. CASE Wake(c)
  BY <1>3, <1>c, <1>d, <1>e, <1>f DEF Wake
<1>4. CASE Pass(c)
  BY <1>4, <1>c, <1>d, <1>e, <1>f DEF Pass
<1>5. CASE Launch(c)
  <2> DEFINE s == v_observables[c][at[c]]
  <2>1. s \in Slots
    <3>1. v_observables[c] \in Seq(Slots) /\ at[c] \in Nat \ {0}
      BY DEF TypeInv, TypeOK
    <3>2. at[c] <= Len(v_observables[c])
      BY <1>5 DEF Launch
    <3>3. at[c] \in 1..Len(v_observables[c])
      BY <3>1, <3>2
    <3> QED
      BY <3>1, <3>3
  <2>2. launched[c] \in [Slots -> 0..2]
    BY <1>e
  <2>3. launched' = launched
          \/ launched' = [launched EXCEPT ![c][s] = IF @ < 2 THEN @ + 1 ELSE 2]
    BY <1>5 DEF Launch
  <2> HIDE DEF s
  <2>4. launched' \in [Threads -> [Slots -> 0..2]]
    BY <2>1, <2>2, <2>3, <1>e
  <2> QED
    BY <1>5, <2>4, <1>c, <1>d, <1>e DEF Launch
<1>6. CASE Callback(c)
  BY <1>6, <1>a, <1>b, <1>c, <1>d, <1>e, <1>f DEF Callback
<1>7. CASE EndScan(c)
  BY <1>7, <1>c, <1>d, <1>e DEF EndScan
<1>8. CASE Drain(c)
  <2>1. << >> \in Seq(Slots)
    OBVIOUS
  <2>2. v_observables' \in [Threads -> Seq(Slots)]
    BY <1>8, <2>1 DEF Drain, TypeInv, TypeOK
  <2>3. dispatcher' \in [Threads -> Spots]
    BY <1>8, <1>d DEF Drain, TypeInv, TypeOK, Spots
  <2> QED
    BY <1>8, <2>2, <2>3, ZenonT(60) DEF Drain, TypeInv, TypeOK, Spots
<1>9. CASE Dies("freed timer")
  BY <1>9, <1>a, <1>b
<1> QED
  BY <1>1, <1>2, <1>3, <1>4, <1>5, <1>6, <1>7, <1>8, <1>9 DEF Dispatch

\* So do stop() and main()'s last steps.
LEMMA EndingType ==
    ASSUME TypeInv, (\E s \in Stoppers : StopBeside(s)) \/ Ending
    PROVE  TypeInv'
<1> USE DEF timerVars, dispVars, mainVars, histVars
<1>a. Main \in Threads /\ Main \in Threads \cup Stoppers
  BY DEF Threads
<1>b. /\ \A p \in {"done", "isRunning", "sleep", "free", "statics", "exit",
                   "ended"} : p \in Places /\ p # "idle" /\ p \notin InCall
      /\ "null" \in Faults
  BY DEF Places, InCall, Faults
<1>c. Release => fault' \in Faults
  BY DEF Release, Faults, TypeInv, TypeOK
<1> DEFINE Going == /\ pc' \in [Threads \cup Stoppers -> Places]
                    /\ (pc[Main] \in InCall \cup {"idle"}
                            => attached < Len(MainSlots))'
<1>d. ASSUME NEW t \in Threads \cup Stoppers,
             NEW place \in {"done", "isRunning", "sleep", "free", "statics",
                            "exit", "ended"},
             Goto(t, place), attached' = attached
      PROVE  Going
  BY <1>d, <1>b, GotoType
<1>e. Cleared \in [Threads -> BOOLEAN]
  BY DEF Cleared, TypeInv, TypeOK
<1> HIDE DEF Going
<1>1. ASSUME NEW s \in Stoppers, StopBeside(s) PROVE TypeInv'
  <2>1. CASE instance = NoTimer
    BY <1>1, <2>1 DEF StopBeside, TypeInv, TypeOK
  <2>2. CASE instance # NoTimer
    <3>1. Going
      BY <1>1, <2>2, <1>d DEF StopBeside
    <3> QED
      BY <1>1, <2>2, <3>1, <1>e DEF StopBeside, Stop, Going, TypeInv, TypeOK
  <2> QED
    BY <2>1, <2>2
<1>2. CASE IsRunning
  <2>1. CASE instance = NoTimer
    BY <1>2, <2>1 DEF IsRunning, Dies, TypeInv, TypeOK
  <2>2. CASE instance # NoTimer
    <3>1. Going
      BY <1>2, <2>2, <1>a, <1>d DEF IsRunning
    <3>2. leftOthers' \in BOOLEAN
      BY <1>2, <2>2 DEF IsRunning
    <3> QED
      BY <1>2, <2>2, <3>1, <3>2 DEF IsRunning, Going, TypeInv, TypeOK
  <2> QED
    BY <2>1, <2>2
<1>3. CASE SleepAndStop
  <2>1. Going
    BY <1>3, <1>a, <1>d DEF SleepAndStop
  <2> QED
    BY <1>3, <2>1, <1>e DEF SleepAndStop, Stop, Going, TypeInv, TypeOK
<1>4. CASE FreeLocals
  <2>1. Going
    BY <1>4, <1>a, <1>d DEF FreeLocals
  <2> QED
    BY <1>4, <2>1 DEF FreeLocals, Going, TypeInv, TypeOK
<1>5. CASE DestroyStatics
  <2>1. Going
    BY <1>5, <1>a, <1>d DEF DestroyStatics
  <2> QED
    BY <1>5, <2>1, <1>c DEF DestroyStatics, Going, TypeInv, TypeOK, Faults
<1>6. CASE Exit
  <2>1. Going
    BY <1>6, <1>a, <1>d DEF Exit
  <2> QED
    BY <1>6, <2>1, ZenonT(60) DEF Exit, Going, TypeInv, TypeOK
<1> QED
  BY <1>1, <1>2, <1>3, <1>4, <1>5, <1>6 DEF Ending

LEMMA NextType == TypeInv /\ [Next]_vars => TypeInv'
<1>1. ASSUME TypeInv, UNCHANGED vars PROVE TypeInv'
  BY <1>1, ZenonT(60) DEF vars, timerVars, dispVars, mainVars, histVars, TypeInv, TypeOK
<1> QED
  BY <1>1, ApiType, DispatchType, EndingType DEF Next

-----------------------------------------------------------------------------
(* The instance, who holds it, and what the process may die of.            *)

\* While some caller is about, main() has not left everything alone.
LEMMA Busy ==
    ASSUME LifetimeInv, NEW t \in Threads, pc[t] \in InCall \cup {"idle"}
    PROVE  ~MainLeft \/ leftOthers
<1>1. CASE t = Main
  BY <1>1 DEF MainLeft, InCall
<1>2. CASE t \in Others
  BY <1>2 DEF LifetimeInv, MainInv, MainIsAlone, InCall
<1> QED
  BY <1>1, <1>2 DEF Threads

\* Without a race there is one timer, that somebody holds.
LEMMA Sharing ==
    ASSUME LifetimeInv, ~raced, ~InstanceGone
    PROVE  \A c \in timers : timers = {c} /\ ~Freed(c)
<1>1. CASE returned
  BY <1>1 DEF LifetimeInv, SharedInv, Freed
<1>2. CASE ~returned
  <2>1. CASE timers = {}
    BY <2>1
  <2>2. ASSUME NEW t \in Threads, InFirstCall(t)
        PROVE  \A c \in timers : timers = {c} /\ ~Freed(c)
    BY <2>2 DEF InFirstCall, Freed, Holding
  <2> QED
    BY <1>2, <2>1, <2>2 DEF LifetimeInv, FirstCallInv
<1> QED
  BY <1>1, <1>2

\* A caller's step, and what main() knows.
LEMMA ApiMain ==
    ASSUME LifetimeInv, NEW t \in Threads, pc[t] \in InCall \cup {"idle"},
           NEW place \in InCall \cup {"threw", "done", "idle", "isRunning"},
           Goto(t, place), UNCHANGED <<leftOthers, locals>>,
           returned => returned',
           place = "isRunning" => t = Main /\ returned',
           place = "done" => t # Main
    PROVE  MainInv'
<1>1. pc \in [Threads \cup Stoppers -> Places] /\ Main \in Threads
      /\ Others \subseteq Threads
  BY DEF LifetimeInv, TypeInv, TypeOK, Threads
<1>2. /\ place \notin {"sleep", "free", "statics", "exit", "ended"}
      /\ pc[t] \notin Later
  BY DEF InCall, Later
<1>3. pc' = [pc EXCEPT ![t] = place]
  BY DEF Goto
<1>4. MainLeft' => MainLeft
  BY <1>1, <1>2, <1>3 DEF MainLeft
<1>5. MainLeft => MainLeft'
  BY <1>1, <1>2, <1>3 DEF MainLeft, Later
<1>6. ~MainLeft' \/ leftOthers'
  BY <1>4, Busy
<1>7. \A u \in Others : pc'[u] \notin Later
  BY <1>1, <1>2, <1>3, TimerLifetimeAssumption
     DEF LifetimeInv, MainInv, Later
<1>8. /\ pc'[Main] # "done"
      /\ pc'[Main] \in Later => returned'
  BY <1>1, <1>2, <1>3 DEF LifetimeInv, MainInv, Later
<1>9. ~locals' => pc'[Main] \in {"statics", "exit", "ended"}
  BY <1>1, <1>2, <1>3 DEF LifetimeInv, MainInv, Later
<1> QED
  BY <1>5, <1>6, <1>7, <1>8, <1>9 DEF LifetimeInv, MainInv, MainLeft

\* The death of the process changes nothing else.
LEMMA DiesKeeps ==
    ASSUME LifetimeInv, TypeInv', NEW how, Dies(how), DeathsAreKnown'
    PROVE  LifetimeInv'
<1>1. UNCHANGED <<timerVars, dispVars, pc, target, mainVars, histVars, launched>>
  BY DEF Dies
<1> QED
  BY <1>1 DEF LifetimeInv, BornInv, MainInv, InstanceInv, FirstCallInv, SharedInv,
     InFirstCall, MainLeft, MainIsAlone, InstanceGone, timerVars, dispVars,
     mainVars, histVars

LEMMA CallKeeps ==
    ASSUME LifetimeInv, TypeInv', Alive, NEW t \in Threads, Call(t)
    PROVE  LifetimeInv'
<1> USE DEF timerVars, dispVars, mainVars, histVars
<1> DEFINE place == IF NoInstance THEN "make" ELSE "copy"
<1>1. /\ pc \in [Threads \cup Stoppers -> Places] /\ timers \subseteq Threads
      /\ Main \in Threads /\ NoTimer \notin Threads
  BY TimerLifetimeAssumption DEF LifetimeInv, TypeInv, TypeOK, Threads
<1>2. /\ pc[t] = "idle" /\ pc' = [pc EXCEPT ![t] = place]
      /\ raced' = (raced \/ (~returned /\ \E u \in Threads : pc[u] \in InCall))
      /\ UNCHANGED <<timerVars, dispVars, target, mainVars, fault, returned,
                     hasty, stopped, leftOthers, launched>>
      /\ place = IF instance = NoTimer THEN "make" ELSE "copy"
  BY DEF Call, MayCall, NoInstance, Goto
<1>3. MainInv'
  <2>1. place \in InCall \cup {"threw", "done", "idle", "isRunning"}
        /\ place # "isRunning" /\ place # "done"
    BY DEF InCall
  <2> HIDE DEF place
  <2>2. Goto(t, place)
    BY <1>2 DEF Goto
  <2>3. UNCHANGED <<leftOthers, locals>> /\ (returned => returned')
    BY <1>2
  <2> QED
    BY <1>2, <2>1, <2>2, <2>3, ApiMain
<1>4. InstanceGone' <=> InstanceGone
  BY <1>1, <1>2 DEF InstanceGone
<1> HIDE DEF place
<1>5. BornInv'
  BY <1>1, <1>2 DEF LifetimeInv, BornInv
<1>6. InstanceInv'
  BY <1>1, <1>2, <1>4 DEF LifetimeInv, InstanceInv, Holding
<1>7. FirstCallInv'
  <2> SUFFICES ASSUME ~raced', ~returned' PROVE FirstCallInv'
    BY DEF FirstCallInv
  <2>1. /\ instance = NoTimer /\ timers = {}
        /\ \A u \in Threads : pc[u] = "idle"
    BY <1>2 DEF LifetimeInv, FirstCallInv, InFirstCall
  <2>2. InFirstCall(t)'
    BY <1>1, <1>2, <2>1 DEF InFirstCall, InCall
  <2> QED
    BY <2>2 DEF FirstCallInv
<1>8. SharedInv'
  BY <1>1, <1>2, <1>4 DEF LifetimeInv, SharedInv
<1>9. DeathsAreKnown'
  BY <1>2 DEF Alive, DeathsAreKnown
<1> QED
  BY <1>3, <1>5, <1>6, <1>7, <1>8, <1>9 DEF LifetimeInv

LEMMA MakeKeeps ==
    ASSUME LifetimeInv, TypeInv', Alive, NEW t \in Threads, Make(t)
    PROVE  LifetimeInv'
<1> USE DEF timerVars, dispVars, mainVars, histVars
<1>1. /\ pc \in [Threads \cup Stoppers -> Places] /\ timers \subseteq Threads
      /\ joinable \in [Threads -> BOOLEAN] /\ Main \in Threads
      /\ target \in [Threads -> Threads \cup {NoTimer}]
  BY DEF LifetimeInv, TypeInv, TypeOK, Threads
<1>2. /\ pc[t] = "make" /\ pc' = [pc EXCEPT ![t] = "assign"]
      /\ timers' = timers \cup {t}
      /\ target' = [target EXCEPT ![t] = t]
      /\ joinable' = [joinable EXCEPT ![t] = TRUE]
      /\ UNCHANGED <<instance, b_isRunning, v_observables, at, mainVars, fault,
                     histVars, launched>>
  BY DEF Make, Goto
<1>3. MainInv'
  BY <1>2, ApiMain DEF Make, InCall
<1>4. InstanceGone' <=> InstanceGone
  BY <1>1, <1>2 DEF InstanceGone
<1>5. t \notin timers
  BY <1>2 DEF LifetimeInv, BornInv
<1>6. BornInv'
  <2>1. \A c \in Threads \ timers' : dispatcher'[c] = dispatcher[c]
    BY <1>2, ZenonT(60) DEF Make, LifetimeInv, TypeInv, TypeOK
  <2> QED
    BY <1>1, <1>2, <2>1 DEF LifetimeInv, BornInv
<1>7. InstanceInv'
  BY <1>1, <1>2, <1>4 DEF LifetimeInv, InstanceInv, Holding
<1>8. FirstCallInv'
  <2> SUFFICES ASSUME ~raced', ~returned' PROVE FirstCallInv'
    BY DEF FirstCallInv
  <2>1. InFirstCall(t)
    BY <1>2 DEF LifetimeInv, FirstCallInv, InFirstCall
  <2>2. ~b_isRunning[t]
    BY <1>5 DEF LifetimeInv, BornInv
  <2>3. InFirstCall(t)'
    BY <1>1, <1>2, <2>1, <2>2 DEF InFirstCall, InCall
  <2> QED
    BY <2>3 DEF FirstCallInv
<1>9. SharedInv'
  BY <1>2, <1>4 DEF LifetimeInv, SharedInv
<1>10. DeathsAreKnown'
  BY <1>2 DEF Alive, DeathsAreKnown
<1> QED
  BY <1>3, <1>6, <1>7, <1>8, <1>9, <1>10 DEF LifetimeInv

LEMMA AssignKeeps ==
    ASSUME LifetimeInv, TypeInv', Alive, NEW t \in Threads, AssignInstance(t)
    PROVE  LifetimeInv'
<1> USE DEF timerVars, dispVars, mainVars, histVars
<1>1. /\ pc \in [Threads \cup Stoppers -> Places] /\ timers \subseteq Threads
      /\ Main \in Threads /\ NoTimer \notin Threads
      /\ target \in [Threads -> Threads \cup {NoTimer}]
  BY TimerLifetimeAssumption DEF LifetimeInv, TypeInv, TypeOK, Threads
<1>2. /\ pc[t] = "assign" /\ pc' = [pc EXCEPT ![t] = "copy"]
      /\ instance' = t
      /\ target' = [target EXCEPT ![t] = NoTimer]
      /\ UNCHANGED <<timers, joinable, b_isRunning, v_observables, dispVars,
                     mainVars, histVars, launched>>
  BY DEF AssignInstance, Goto
<1>3. MainInv'
  BY <1>2, ApiMain DEF AssignInstance, InCall
<1>4. InstanceGone' <=> InstanceGone
  BY <1>1, <1>2 DEF InstanceGone
<1>5. t \in timers
  BY <1>2 DEF LifetimeInv, InstanceInv, Holding
<1>6. BornInv'
  BY <1>1, <1>2 DEF LifetimeInv, BornInv
<1>7. InstanceInv'
  BY <1>1, <1>2, <1>4, <1>5 DEF LifetimeInv, InstanceInv, Holding
<1>8. ~raced /\ ~returned => InFirstCall(t)
  BY <1>2 DEF LifetimeInv, FirstCallInv, InFirstCall
<1>9. FirstCallInv'
  <2> SUFFICES ASSUME ~raced', ~returned' PROVE FirstCallInv'
    BY DEF FirstCallInv
  <2>1. InFirstCall(t)'
    BY <1>1, <1>2, <1>8 DEF InFirstCall, InCall
  <2> QED
    BY <2>1 DEF FirstCallInv
<1>10. SharedInv'
  BY <1>2, <1>4 DEF LifetimeInv, SharedInv
<1>11. DeathsAreKnown'
  <2> SUFFICES ASSUME ~raced, ~leftOthers PROVE fault' = "none"
    BY <1>2 DEF AssignInstance, Release, Alive, DeathsAreKnown
  <2>1. ~InstanceGone
    BY <1>2, Busy DEF InCall, InstanceGone, MainLeft
  <2>2. ~returned
    BY <1>2, <2>1 DEF LifetimeInv, SharedInv
  <2>3. timers = {t}
    BY <1>2, <1>8, <2>2 DEF InFirstCall
  <2>4. \A c \in timers : ~Freed(c)'
    BY <1>2, <2>3 DEF Freed
  <2> QED
    BY <2>4 DEF AssignInstance, Release, Alive
<1> QED
  BY <1>3, <1>6, <1>7, <1>9, <1>10, <1>11 DEF LifetimeInv

LEMMA CopyKeeps ==
    ASSUME LifetimeInv, TypeInv', Alive, NEW t \in Threads, Copy(t)
    PROVE  LifetimeInv'
<1> USE DEF timerVars, dispVars, mainVars, histVars
<1>1. /\ pc \in [Threads \cup Stoppers -> Places] /\ timers \subseteq Threads
      /\ Main \in Threads
      /\ target \in [Threads -> Threads \cup {NoTimer}]
  BY DEF LifetimeInv, TypeInv, TypeOK, Threads
<1>2. /\ pc[t] = "copy" /\ pc' = [pc EXCEPT ![t] = "count"]
      /\ target' = [target EXCEPT ![t] = instance]
      /\ UNCHANGED <<timerVars, dispVars, mainVars, fault, histVars, launched>>
  BY DEF Copy, Goto
<1>3. MainInv'
  BY <1>2, ApiMain DEF Copy, InCall
<1>4. InstanceGone' <=> InstanceGone
  BY <1>1, <1>2 DEF InstanceGone
<1>5. BornInv'
  BY <1>1, <1>2 DEF LifetimeInv, BornInv
<1>6. InstanceInv'
  BY <1>1, <1>2, <1>4 DEF LifetimeInv, InstanceInv, Holding
<1>7. FirstCallInv'
  <2> SUFFICES ASSUME ~raced', ~returned' PROVE FirstCallInv'
    BY DEF FirstCallInv
  <2>1. InFirstCall(t)
    BY <1>2 DEF LifetimeInv, FirstCallInv, InFirstCall
  <2>2. InFirstCall(t)'
    BY <1>1, <1>2, <2>1 DEF InFirstCall, InCall
  <2> QED
    BY <2>2 DEF FirstCallInv
<1>8. SharedInv'
  BY <1>1, <1>2, <1>4 DEF LifetimeInv, SharedInv
<1>9. DeathsAreKnown'
  BY <1>2 DEF Alive, DeathsAreKnown
<1> QED
  BY <1>3, <1>5, <1>6, <1>7, <1>8, <1>9 DEF LifetimeInv

LEMMA CountKeeps ==
    ASSUME LifetimeInv, TypeInv', Alive, NEW t \in Threads, Count(t)
    PROVE  LifetimeInv'
<1> USE DEF timerVars, dispVars, mainVars, histVars
<1>1. /\ pc \in [Threads \cup Stoppers -> Places] /\ timers \subseteq Threads
      /\ Main \in Threads
      /\ target \in [Threads -> Threads \cup {NoTimer}]
  BY DEF LifetimeInv, TypeInv, TypeOK, Threads
<1>2. pc[t] = "count" /\ (~MainLeft \/ leftOthers)
  BY Busy DEF Count, InCall
<1>3. CASE target[t] = NoTimer
  <2>1. Dies("null")
    BY <1>3 DEF Count
  <2>2. leftOthers
    BY <1>2, <1>3 DEF LifetimeInv, InstanceInv, InstanceGone, MainLeft
  <2>3. DeathsAreKnown'
    BY <2>1, <2>2 DEF Dies, DeathsAreKnown
  <2> QED
    BY <2>1, <2>3, DiesKeeps
<1>4. CASE target[t] # NoTimer /\ Freed(target[t])
  <2>1. Dies("freed timer")
    BY <1>4 DEF Count
  <2>2. target[t] \in timers
    BY <1>4 DEF Freed
  <2>3. raced \/ InstanceGone
    BY <1>4, <2>2, Sharing
  <2>4. raced \/ leftOthers
    BY <1>2, <2>3 DEF InstanceGone, MainLeft
  <2>5. DeathsAreKnown'
    BY <2>1, <2>4 DEF Dies, DeathsAreKnown
  <2> QED
    BY <2>1, <2>5, DiesKeeps
<1>5. CASE target[t] # NoTimer /\ ~Freed(target[t])
  <2>1. /\ pc' = [pc EXCEPT ![t] = "start"]
        /\ UNCHANGED <<timerVars, dispVars, target, mainVars, fault, histVars,
                       launched>>
    BY <1>5 DEF Count, Goto
  <2>2. MainInv'
    BY <1>2, <2>1, ApiMain DEF Goto, InCall
  <2>3. InstanceGone' <=> InstanceGone
    BY <1>1, <1>2, <2>1 DEF InstanceGone
  <2>4. BornInv'
    BY <1>1, <2>1 DEF LifetimeInv, BornInv
  <2>5. InstanceInv'
    BY <1>1, <1>2, <1>5, <2>1, <2>3 DEF LifetimeInv, InstanceInv, Holding
  <2>6. FirstCallInv'
    <3> SUFFICES ASSUME ~raced', ~returned' PROVE FirstCallInv'
      BY DEF FirstCallInv
    <3>1. InFirstCall(t)
      BY <1>2, <2>1 DEF LifetimeInv, FirstCallInv, InFirstCall
    <3>2. InFirstCall(t)'
      BY <1>1, <1>2, <2>1, <3>1 DEF InFirstCall, InCall
    <3> QED
      BY <3>2 DEF FirstCallInv
  <2>7. SharedInv'
    BY <1>1, <1>2, <2>1, <2>3 DEF LifetimeInv, SharedInv
  <2>8. DeathsAreKnown'
    BY <2>1 DEF Alive, DeathsAreKnown
  <2> QED
    BY <2>2, <2>4, <2>5, <2>6, <2>7, <2>8 DEF LifetimeInv
<1> QED
  BY <1>3, <1>4, <1>5

LEMMA StartKeeps ==
    ASSUME LifetimeInv, TypeInv', Alive, NEW t \in Threads, Start(t)
    PROVE  LifetimeInv'
<1> USE DEF timerVars, dispVars, mainVars, histVars
<1> DEFINE place == IF b_isRunning[target[t]] THEN "push" ELSE "detach"
<1>1. /\ pc \in [Threads \cup Stoppers -> Places] /\ timers \subseteq Threads
      /\ Main \in Threads
  BY DEF LifetimeInv, TypeInv, TypeOK, Threads
<1>2. /\ pc[t] = "start" /\ pc' = [pc EXCEPT ![t] = place]
      /\ UNCHANGED <<timerVars, dispVars, target, mainVars, fault, histVars,
                     launched>>
  BY DEF Start, Goto
<1>3. MainInv'
  <2>1. place \in InCall \cup {"threw", "done", "idle", "isRunning"}
        /\ place # "isRunning" /\ place # "done"
    BY DEF InCall
  <2> HIDE DEF place
  <2>2. Goto(t, place) /\ pc[t] \in InCall
    BY <1>2 DEF Goto, InCall
  <2>3. UNCHANGED <<leftOthers, locals>> /\ (returned => returned')
    BY <1>2
  <2> QED
    BY <1>2, <2>1, <2>2, <2>3, ApiMain
<1>4. InstanceGone' <=> InstanceGone
  BY <1>1, <1>2 DEF InstanceGone
<1>5. BornInv'
  BY <1>1, <1>2 DEF LifetimeInv, BornInv
<1>6. InstanceInv'
  BY <1>1, <1>2, <1>4 DEF LifetimeInv, InstanceInv, Holding
<1>7. FirstCallInv'
  <2> SUFFICES ASSUME ~raced', ~returned' PROVE FirstCallInv'
    BY DEF FirstCallInv
  <2>1. InFirstCall(t)
    BY <1>2 DEF LifetimeInv, FirstCallInv, InFirstCall
  <2>2. place = "detach"
    BY <1>2, <2>1 DEF InFirstCall
  <2>3. InFirstCall(t)'
    BY <1>1, <1>2, <2>1, <2>2 DEF InFirstCall, InCall
  <2> QED
    BY <2>3 DEF FirstCallInv
<1>8. SharedInv'
  BY <1>1, <1>2, <1>4 DEF LifetimeInv, SharedInv
<1>9. DeathsAreKnown'
  BY <1>2 DEF Alive, DeathsAreKnown
<1> QED
  BY <1>3, <1>5, <1>6, <1>7, <1>8, <1>9 DEF LifetimeInv

LEMMA DetachKeeps ==
    ASSUME LifetimeInv, TypeInv', Alive, NEW t \in Threads, Detach(t)
    PROVE  LifetimeInv'
<1> USE DEF timerVars, dispVars, mainVars, histVars
<1> DEFINE c     == target[t]
           place == IF joinable[c] THEN "push" ELSE "threw"
<1>1. /\ pc \in [Threads \cup Stoppers -> Places] /\ timers \subseteq Threads
      /\ Main \in Threads /\ NoTimer \notin Threads
      /\ joinable \in [Threads -> BOOLEAN]
      /\ b_isRunning \in [Threads -> BOOLEAN]
  BY TimerLifetimeAssumption DEF LifetimeInv, TypeInv, TypeOK, Threads
<1>2. /\ pc[t] = "detach" /\ pc' = [pc EXCEPT ![t] = place]
      /\ b_isRunning' = [b_isRunning EXCEPT ![c] = TRUE]
      /\ joinable' = [joinable EXCEPT ![c] = FALSE]
      /\ UNCHANGED <<instance, timers, v_observables, dispVars, target,
                     mainVars, histVars>>
  BY DEF Detach, Detached, Goto
<1>3. MainInv'
  <2>1. place \in InCall \cup {"threw", "done", "idle", "isRunning"}
        /\ place # "isRunning" /\ place # "done"
    BY DEF InCall
  <2> HIDE DEF place
  <2>2. Goto(t, place) /\ pc[t] \in InCall
    BY <1>2 DEF Goto, InCall
  <2>3. UNCHANGED <<leftOthers, locals>> /\ (returned => returned')
    BY <1>2
  <2> QED
    BY <1>2, <2>1, <2>2, <2>3, ApiMain
<1>4. InstanceGone' <=> InstanceGone
  BY <1>1, <1>2 DEF InstanceGone
<1>c. c \in timers /\ c \in Threads
  BY <1>1, <1>2 DEF LifetimeInv, InstanceInv, Holding
<1>5. BornInv'
  BY <1>1, <1>2, <1>c DEF LifetimeInv, BornInv
<1>6. InstanceInv'
  BY <1>1, <1>2, <1>4 DEF LifetimeInv, InstanceInv, Holding
<1>7. ~raced /\ ~returned => InFirstCall(t)
  BY <1>2 DEF LifetimeInv, FirstCallInv, InFirstCall
<1>8. FirstCallInv'
  <2> SUFFICES ASSUME ~raced', ~returned' PROVE FirstCallInv'
    BY DEF FirstCallInv
  <2>1. InFirstCall(t) /\ c = t /\ place = "push"
    BY <1>2, <1>7 DEF InFirstCall
  <2>2. InFirstCall(t)'
    BY <1>1, <1>2, <2>1 DEF InFirstCall, InCall
  <2> QED
    BY <2>2 DEF FirstCallInv
<1>9. SharedInv'
  <2> SUFFICES ASSUME ~raced', returned', ~InstanceGone' PROVE SharedInv'
    BY DEF SharedInv
  <2>1. SharedInv /\ ~raced /\ returned /\ ~InstanceGone
    BY <1>2, <1>4 DEF LifetimeInv
  <2>2. c = instance
    BY <1>2, <2>1 DEF SharedInv
  <2> QED
    BY <1>1, <1>2, <1>c, <2>1, <2>2 DEF SharedInv
<1>10. DeathsAreKnown'
  <2>1. raced \/ leftOthers \/ ~InstanceGone
    BY <1>2, Busy DEF InCall, InstanceGone, MainLeft
  <2>2. CASE ~joinable[c] /\ t = Main
    <3>1. fault' = "uncaught"
      BY <2>2 DEF Detach
    <3>2. ~InstanceGone
      BY <1>2, <2>2 DEF InstanceGone
    <3>3. raced \/ returned
      BY <1>2, <1>7, <2>2 DEF InFirstCall
    <3>4. raced \/ stopped
      BY <1>2, <3>2, <3>3 DEF LifetimeInv, SharedInv
    <3> QED
      BY <1>2, <3>1, <3>4 DEF DeathsAreKnown
  <2>3. CASE ~(~joinable[c] /\ t = Main)
    <3>1. Release
      BY <2>3 DEF Detach
    <3>2. CASE raced \/ leftOthers
      BY <1>2, <3>1, <3>2 DEF Release, Alive, DeathsAreKnown
    <3>3. CASE ~raced /\ ~InstanceGone
      <4>1. timers = {instance}
        <5>1. CASE returned
          BY <3>3, <5>1 DEF LifetimeInv, SharedInv
        <5>2. CASE ~returned
          BY <1>2, <1>7, <3>3, <5>2 DEF InFirstCall
        <5> QED
          BY <5>1, <5>2
      <4>2. \A d \in timers : ~Freed(d)'
        BY <1>2, <4>1 DEF Freed
      <4> QED
        BY <3>1, <4>2 DEF Release, Alive, DeathsAreKnown
    <3> QED
      BY <2>1, <3>2, <3>3
  <2> QED
    BY <2>2, <2>3
<1> QED
  BY <1>3, <1>5, <1>6, <1>8, <1>9, <1>10 DEF LifetimeInv

LEMMA PushKeeps ==
    ASSUME LifetimeInv, TypeInv', Alive, NEW t \in Threads, Push(t)
    PROVE  LifetimeInv'
<1> USE DEF timerVars, dispVars, mainVars, histVars
<1> DEFINE place == IF t # Main THEN "done"
                    ELSE IF attached' < Len(MainSlots) THEN "idle"
                    ELSE "isRunning"
<1>1. /\ pc \in [Threads \cup Stoppers -> Places] /\ timers \subseteq Threads
      /\ Main \in Threads /\ NoTimer \notin Threads
      /\ target \in [Threads -> Threads \cup {NoTimer}]
  BY TimerLifetimeAssumption DEF LifetimeInv, TypeInv, TypeOK, Threads
<1>2. /\ pc[t] = "push" /\ pc' = [pc EXCEPT ![t] = place]
      /\ target' = [target EXCEPT ![t] = NoTimer]
      /\ returned' = TRUE
      /\ UNCHANGED <<instance, timers, joinable, b_isRunning, dispVars,
                     locals, raced, hasty, stopped, leftOthers, launched>>
      /\ Release
  BY DEF Push, Goto
<1>p. /\ place \in {"done", "idle", "isRunning"}
      /\ t # Main <=> place = "done"
  OBVIOUS
<1> HIDE DEF place
<1>3. MainInv'
  <2>1. Goto(t, place) /\ pc[t] \in InCall
    BY <1>2 DEF Goto, InCall
  <2> QED
    BY <1>2, <1>p, <2>1, ApiMain
<1>4. InstanceGone' <=> InstanceGone
  BY <1>1, <1>2, <1>p DEF InstanceGone
<1>5. instance # NoTimer \/ InstanceGone
  BY <1>2 DEF LifetimeInv, InstanceInv
<1>6. BornInv'
  BY <1>1, <1>2, <1>p, <1>5 DEF LifetimeInv, BornInv, InstanceGone
<1>7. InstanceInv'
  BY <1>1, <1>2, <1>p, <1>4, <1>5 DEF LifetimeInv, InstanceInv, Holding
<1>8. FirstCallInv'
  BY <1>2 DEF FirstCallInv
<1>9. ~raced /\ ~returned => InFirstCall(t)
  BY <1>2 DEF LifetimeInv, FirstCallInv, InFirstCall
<1>10. SharedInv'
  <2> SUFFICES ASSUME ~raced', returned', ~InstanceGone' PROVE SharedInv'
    BY DEF SharedInv
  <2>1. CASE returned
    BY <1>1, <1>2, <1>p, <1>4, <2>1 DEF LifetimeInv, SharedInv
  <2>2. CASE ~returned
    BY <1>1, <1>2, <1>p, <1>9, <2>2 DEF InFirstCall, SharedInv
  <2> QED
    BY <2>1, <2>2
<1>11. DeathsAreKnown'
  <2> SUFFICES ASSUME ~raced, ~leftOthers PROVE fault' = "none"
    BY <1>2 DEF Release, Alive, DeathsAreKnown
  <2>1. ~InstanceGone
    BY <1>2, Busy DEF InCall, InstanceGone, MainLeft
  <2>2. timers = {instance}
    BY <1>2, <1>4, <1>10, <2>1 DEF SharedInv
  <2>3. \A d \in timers : ~Freed(d)'
    BY <1>2, <2>2 DEF Freed
  <2> QED
    BY <1>2, <2>3 DEF Release, Alive
<1> QED
  BY <1>3, <1>6, <1>7, <1>8, <1>10, <1>11 DEF LifetimeInv

LEMMA StopKeeps ==
    ASSUME LifetimeInv, TypeInv', Alive, NEW s \in Stoppers, StopBeside(s)
    PROVE  LifetimeInv'
<1> USE DEF timerVars, dispVars, mainVars, histVars
<1>1. /\ pc \in [Threads \cup Stoppers -> Places] /\ timers \subseteq Threads
      /\ Main \in Threads /\ NoTimer \notin Threads /\ s \notin Threads
      /\ Others \subseteq Threads
      /\ b_isRunning \in [Threads -> BOOLEAN]
  BY TimerLifetimeAssumption DEF LifetimeInv, TypeInv, TypeOK, Threads
<1>2. /\ pc[s] = "idle" /\ (\A t \in Threads : pc'[t] = pc[t])
      /\ hasty' = (hasty \/ ~returned)
      /\ UNCHANGED <<instance, timers, joinable, v_observables, dispVars, target,
                     mainVars, returned, raced, leftOthers, launched>>
  BY <1>1 DEF StopBeside, Stop, Goto
<1>3. ~MainLeft \/ leftOthers
  BY <1>2 DEF LifetimeInv, MainInv, MainIsAlone
<1>4. MainLeft' <=> MainLeft
  BY <1>1, <1>2 DEF MainLeft
<1>5. InstanceGone' <=> InstanceGone
  BY <1>1, <1>2 DEF InstanceGone
<1>6. MainInv'
  BY <1>1, <1>2, <1>3, <1>4 DEF LifetimeInv, MainInv
<1>7. InstanceInv'
  BY <1>1, <1>2, <1>5 DEF LifetimeInv, InstanceInv, Holding
<1>8. CASE instance = NoTimer
  <2>1. UNCHANGED <<b_isRunning, stopped>> /\ fault' = "null"
    BY <1>8 DEF StopBeside
  <2>2. BornInv'
    BY <1>1, <1>2, <2>1 DEF LifetimeInv, BornInv
  <2>3. FirstCallInv'
    BY <1>1, <1>2, <2>1 DEF LifetimeInv, FirstCallInv, InFirstCall
  <2>4. SharedInv'
    BY <1>1, <1>2, <1>5, <2>1 DEF LifetimeInv, SharedInv
  <2>5. returned => leftOthers
    BY <1>3, <1>8 DEF LifetimeInv, InstanceInv, InstanceGone, MainLeft
  <2>6. DeathsAreKnown'
    BY <1>2, <2>1, <2>5 DEF DeathsAreKnown
  <2> QED
    BY <1>6, <1>7, <2>2, <2>3, <2>4, <2>6 DEF LifetimeInv
<1>9. CASE instance # NoTimer
  <2>1. /\ b_isRunning' = [b_isRunning EXCEPT ![instance] = FALSE]
        /\ stopped' = TRUE /\ fault' = fault
    BY <1>9 DEF StopBeside, Stop, Cleared
  <2>2. BornInv'
    BY <1>1, <1>2, <2>1 DEF LifetimeInv, BornInv
  <2>3. FirstCallInv'
    <3> SUFFICES ASSUME ~raced', ~returned' PROVE FirstCallInv'
      BY DEF FirstCallInv
    <3>1. PICK t \in Threads : InFirstCall(t)
      BY <1>2, <1>9 DEF LifetimeInv, FirstCallInv
    <3>2. InFirstCall(t)'
      BY <1>1, <1>2, <2>1, <3>1 DEF InFirstCall
    <3> QED
      BY <3>2 DEF FirstCallInv
  <2>4. SharedInv'
    BY <1>1, <1>2, <1>5, <2>1 DEF LifetimeInv, SharedInv
  <2>5. DeathsAreKnown'
    BY <2>1 DEF Alive, DeathsAreKnown
  <2> QED
    BY <1>6, <1>7, <2>2, <2>3, <2>4, <2>5 DEF LifetimeInv
<1> QED
  BY <1>8, <1>9

LEMMA EndingKeeps ==
    ASSUME LifetimeInv, TypeInv', Alive, Ending
    PROVE  LifetimeInv'
<1> USE DEF timerVars, dispVars, mainVars, histVars
<1>1. /\ pc \in [Threads \cup Stoppers -> Places] /\ timers \subseteq Threads
      /\ Main \in Threads /\ NoTimer \notin Threads /\ Main \notin Others
      /\ Others \subseteq Threads /\ Main \notin Stoppers
      /\ b_isRunning \in [Threads -> BOOLEAN]
  BY TimerLifetimeAssumption DEF LifetimeInv, TypeInv, TypeOK, Threads
<1>2. CASE IsRunning
  <2>1. pc[Main] = "isRunning" /\ returned
    BY <1>2 DEF IsRunning, LifetimeInv, MainInv, Later
  <2>2. instance # NoTimer
    BY <2>1 DEF LifetimeInv, InstanceInv, InstanceGone
  <2>3. /\ pc' = [pc EXCEPT ![Main] = IF b_isRunning[instance] THEN "sleep"
                                      ELSE "free"]
        /\ leftOthers' = (~b_isRunning[instance] /\ ~MainIsAlone)
        /\ UNCHANGED <<timerVars, dispVars, target, mainVars, fault, returned,
                       raced, hasty, stopped, launched>>
    BY <1>2, <2>2 DEF IsRunning, Goto
  <2>4. \A t \in Others \cup Stoppers : pc'[t] = pc[t]
    BY <1>1, <2>3
  <2>5. MainIsAlone' <=> MainIsAlone
    BY <2>3, <2>4 DEF MainIsAlone
  <2>6. MainInv'
    BY <1>1, <2>1, <2>3, <2>4, <2>5
       DEF LifetimeInv, MainInv, MainLeft, Later
  <2>7. BornInv' /\ InstanceInv' /\ FirstCallInv'
    BY <1>1, <2>1, <2>2, <2>3
       DEF LifetimeInv, BornInv, InstanceInv, FirstCallInv, Holding,
           InstanceGone
  <2>8. SharedInv'
    BY <1>1, <2>1, <2>3 DEF LifetimeInv, SharedInv, InstanceGone
  <2>9. DeathsAreKnown'
    BY <2>3 DEF Alive, DeathsAreKnown
  <2> QED
    BY <2>6, <2>7, <2>8, <2>9 DEF LifetimeInv
<1>3. CASE SleepAndStop
  <2>1. /\ pc[Main] = "sleep" /\ pc' = [pc EXCEPT ![Main] = "isRunning"]
        /\ b_isRunning' = [b_isRunning EXCEPT ![instance] = FALSE]
        /\ stopped' = TRUE /\ returned
        /\ UNCHANGED <<instance, timers, joinable, v_observables, dispVars,
                       target, mainVars, fault, returned, raced, leftOthers,
                       launched>>
    BY <1>3 DEF SleepAndStop, Stop, Cleared, Goto, LifetimeInv, MainInv, Later
  <2>2. MainInv'
    BY <1>1, <2>1 DEF LifetimeInv, MainInv, MainLeft, Later
  <2>3. BornInv' /\ InstanceInv' /\ FirstCallInv'
    BY <1>1, <2>1 DEF LifetimeInv, BornInv, InstanceInv, FirstCallInv, Holding,
       InstanceGone
  <2>4. SharedInv'
    BY <1>1, <2>1 DEF LifetimeInv, SharedInv, InstanceGone
  <2>5. DeathsAreKnown'
    BY <2>1 DEF Alive, DeathsAreKnown
  <2> QED
    BY <2>2, <2>3, <2>4, <2>5 DEF LifetimeInv
<1>4. CASE FreeLocals \/ Exit
  <2> DEFINE place == IF pc[Main] = "free" THEN "statics" ELSE "ended"
  <2>1. /\ pc[Main] = "free" \/ pc[Main] = "exit"
        /\ pc[Main] = "exit" => locals' = locals
        /\ pc' = [pc EXCEPT ![Main] = place] /\ returned
        /\ UNCHANGED <<timerVars, dispVars, target, attached, fault, histVars,
                       launched>>
    BY <1>4 DEF FreeLocals, Exit, Goto, LifetimeInv, MainInv, Later
  <2>2. \A t \in Others \cup Stoppers : pc'[t] = pc[t]
    BY <1>1, <2>1
  <2>3. MainIsAlone' <=> MainIsAlone
    BY <2>1, <2>2 DEF MainIsAlone
  <2>4. /\ pc'[Main] \in {"statics", "ended"}
        /\ InstanceGone' <=> InstanceGone
    BY <1>1, <2>1 DEF InstanceGone
  <2>5. MainInv'
    BY <1>1, <2>1, <2>2, <2>3, <2>4 DEF LifetimeInv, MainInv, MainLeft, Later
  <2>6. BornInv' /\ InstanceInv' /\ FirstCallInv'
    BY <1>1, <2>1, <2>4 DEF LifetimeInv, BornInv, InstanceInv, FirstCallInv,
       Holding
  <2>7. SharedInv'
    BY <1>1, <2>1, <2>4 DEF LifetimeInv, SharedInv
  <2>8. DeathsAreKnown'
    BY <2>1 DEF Alive, DeathsAreKnown
  <2> QED
    BY <2>5, <2>6, <2>7, <2>8 DEF LifetimeInv
<1>5. CASE DestroyStatics
  <2>1. /\ pc[Main] = "statics" /\ pc' = [pc EXCEPT ![Main] = "exit"]
        /\ instance' = NoTimer /\ returned
        /\ UNCHANGED <<timers, joinable, b_isRunning, v_observables, dispVars,
                       target, mainVars, histVars, launched>>
        /\ Release
    BY <1>5 DEF DestroyStatics, Goto, LifetimeInv, MainInv, Later
  <2>2. \A t \in Others \cup Stoppers : pc'[t] = pc[t]
    BY <1>1, <2>1
  <2>3. MainIsAlone' <=> MainIsAlone
    BY <2>1, <2>2 DEF MainIsAlone
  <2>4. InstanceGone'
    BY <1>1, <2>1 DEF InstanceGone
  <2>5. MainInv'
    BY <1>1, <2>1, <2>2, <2>3 DEF LifetimeInv, MainInv, MainLeft, Later
  <2>6. BornInv' /\ InstanceInv' /\ FirstCallInv' /\ SharedInv'
    BY <1>1, <2>1, <2>4 DEF LifetimeInv, BornInv, InstanceInv, FirstCallInv,
       SharedInv, Holding
  <2>7. DeathsAreKnown'
    <3>1. ~raced => \A c \in timers : ~joinable[c]
      BY <2>1 DEF LifetimeInv, SharedInv, InstanceGone
    <3>2. fault' = "terminate" => raced
      BY <2>1, <3>1 DEF Release, Alive
    <3>3. fault' \in {"none", "terminate"}
      BY <2>1 DEF Release, Alive
    <3> QED
      BY <2>1, <3>2, <3>3 DEF DeathsAreKnown
  <2> QED
    BY <2>5, <2>6, <2>7 DEF LifetimeInv
<1> QED
  BY <1>2, <1>3, <1>4, <1>5 DEF Ending

LEMMA DispatchKeeps ==
    ASSUME LifetimeInv, TypeInv', Alive, NEW c \in Threads, Dispatch(c)
    PROVE  LifetimeInv'
<1> USE DEF timerVars, dispVars, mainVars, histVars
<1>1. c \in timers /\ dispatcher[c] # "exited"
  BY DEF Dispatch, LifetimeInv, BornInv
<1>2. ~MainLeft \/ leftOthers
  BY <1>1 DEF LifetimeInv, MainInv, MainIsAlone
<1>3. CASE Freed(c)
  <2>1. Dies("freed timer")
    BY <1>3 DEF Dispatch
  <2>2. raced \/ leftOthers
    BY <1>1, <1>2, <1>3, Sharing DEF InstanceGone, MainLeft
  <2>3. DeathsAreKnown'
    BY <2>1, <2>2 DEF Dies, DeathsAreKnown
  <2> QED
    BY <2>1, <2>3, DiesKeeps
<1>4. CASE Callback(c) /\ Dies("freed local")
  <2>1. ~locals
    BY <1>4 DEF Callback, Goes, Dies, Alive
  <2>2. leftOthers
    BY <1>2, <2>1 DEF LifetimeInv, MainInv, MainLeft
  <2>3. DeathsAreKnown'
    BY <1>4, <2>2 DEF Dies, DeathsAreKnown
  <2> QED
    BY <1>4, <2>3, DiesKeeps
<1>5. ASSUME \A d \in Threads \ {c} : dispatcher'[d] = dispatcher[d],
             UNCHANGED <<instance, timers, joinable, b_isRunning, pc, target,
                         mainVars, fault, histVars>>
      PROVE  LifetimeInv'
  <2>1. BornInv'
    BY <1>1, <1>5 DEF LifetimeInv, BornInv
  <2>2. MainInv'
    BY <1>2, <1>5 DEF LifetimeInv, MainInv, MainLeft
  <2>3. InstanceInv' /\ FirstCallInv' /\ SharedInv' /\ DeathsAreKnown'
    BY <1>5, ZenonT(60) DEF LifetimeInv, InstanceInv, FirstCallInv, InFirstCall, SharedInv,
       DeathsAreKnown, InstanceGone
  <2> QED
    BY <2>1, <2>2, <2>3 DEF LifetimeInv
<1>6. dispatcher \in [Threads -> {"unborn", "loop", "outer", "wait", "scan",
                                   "callback", "drain", "exited"}]
  BY DEF LifetimeInv, TypeInv, TypeOK
<1>7. ASSUME NEW place, Goes(c, place) PROVE LifetimeInv'
  <2>1. \A d \in Threads \ {c} : dispatcher'[d] = dispatcher[d]
    BY <1>6, <1>7 DEF Goes
  <2> QED
    BY <1>5, <1>7, <2>1 DEF Goes
<1>8. CASE Drain(c)
  <2>1. \A d \in Threads \ {c} : dispatcher'[d] = dispatcher[d]
    BY <1>6, <1>8 DEF Drain
  <2> QED
    BY <1>5, <1>8, <2>1 DEF Drain
<1>9. CASE Loop(c) \/ Outer(c) \/ Wake(c) \/ Pass(c) \/ Launch(c) \/ EndScan(c)
  BY <1>7, <1>9 DEF Loop, Outer, Wake, Pass, Launch, EndScan
<1>10. CASE Callback(c)
  BY <1>4, <1>7, <1>10 DEF Callback
<1> QED
  BY <1>3, <1>8, <1>9, <1>10 DEF Dispatch

LEMMA InitLifetime == Init => LifetimeInv
<1> SUFFICES ASSUME Init PROVE LifetimeInv
  OBVIOUS
<1>1. TypeInv
  BY InitType
<1>2. Main \in Threads /\ Others \subseteq Threads
  BY DEF Threads
<1>3. BornInv /\ FirstCallInv /\ SharedInv
  BY DEF Init, BornInv, FirstCallInv, SharedInv
<1>4. InstanceInv
  BY DEF Init, InstanceInv, Holding
<1>5. MainInv
  BY <1>2 DEF Init, MainInv, Later, MainLeft
<1>6. DeathsAreKnown
  BY DEF Init, DeathsAreKnown
<1> QED
  BY <1>1, <1>3, <1>4, <1>5, <1>6 DEF LifetimeInv

LEMMA NextLifetime == LifetimeInv /\ [Next]_vars => LifetimeInv'
<1> SUFFICES ASSUME LifetimeInv, [Next]_vars PROVE LifetimeInv'
  OBVIOUS
<1>1. TypeInv'
  BY NextType DEF LifetimeInv
<1>2. CASE UNCHANGED vars
  <2> USE <1>2 DEF vars, timerVars, dispVars, mainVars, histVars
  <2>1. BornInv' /\ MainInv' /\ DeathsAreKnown'
    BY DEF LifetimeInv, BornInv, MainInv, DeathsAreKnown, MainLeft, MainIsAlone
  <2>2. InstanceInv'
    BY DEF LifetimeInv, InstanceInv, InstanceGone
  <2>3. FirstCallInv'
    BY DEF LifetimeInv, FirstCallInv, InFirstCall
  <2>4. SharedInv'
    BY DEF LifetimeInv, SharedInv, InstanceGone
  <2> QED
    BY <1>1, <2>1, <2>2, <2>3, <2>4 DEF LifetimeInv
<1>3. CASE Next
  <2>1. ASSUME NEW t \in Threads, Api(t) PROVE LifetimeInv'
    BY <1>1, <1>3, <2>1, CallKeeps, MakeKeeps, AssignKeeps, CopyKeeps,
       CountKeeps, StartKeeps, DetachKeeps, PushKeeps DEF Api, Next
  <2> QED
    BY <1>1, <1>3, <2>1, StopKeeps, EndingKeeps, DispatchKeeps DEF Next
<1> QED
  BY <1>2, <1>3

LEMMA LifetimeHolds == Spec => []LifetimeInv
BY InitLifetime, NextLifetime, PTL DEF Spec

\* TypeOK is an invariant.
THEOREM TypeCorrect == Spec => []TypeOK
<1>1. LifetimeInv => TypeOK
  BY DEF LifetimeInv, TypeInv
<1> QED
  BY <1>1, LifetimeHolds, PTL

\* Timer.instance: when the first call of all is alone, all callers share one
\* timer, and nobody frees it until main() has left its loop.
THEOREM Shared == Spec => []CallersShareTimer
<1>1. LifetimeInv => CallersShareTimer
  BY Sharing DEF CallersShareTimer, MainLeft, InstanceGone
<1> QED
  BY <1>1, LifetimeHolds, PTL

\* The null instance, the second detach(), the destructor of a joinable thread
\* and the freed timer or local each need a race of first calls, a stop() or a
\* main() that leaves somebody behind.
THEOREM KnownDeaths == Spec => []DeathsAreKnown
<1>1. LifetimeInv => DeathsAreKnown
  BY DEF LifetimeInv
<1> QED
  BY <1>1, LifetimeHolds, PTL

-----------------------------------------------------------------------------
(* stop() and the scan that is under way.                                  *)

\* A thread that is done stays so.
LEMMA DoneStays ==
    ASSUME LifetimeInv, Next, NEW u \in Others, pc[u] = "done"
    PROVE  pc'[u] = "done"
<1>1. /\ pc \in [Threads \cup Stoppers -> Places]
      /\ u \in Threads /\ u # Main /\ u \notin Stoppers
  BY TimerLifetimeAssumption DEF LifetimeInv, TypeInv, TypeOK, Threads
<1>2. ASSUME NEW t, pc[t] # "done", NEW place, Goto(t, place)
      PROVE  pc'[u] = "done"
  BY <1>1, <1>2 DEF Goto
<1>3. ASSUME UNCHANGED pc PROVE pc'[u] = "done"
  BY <1>3
<1>4. ASSUME NEW t \in Threads, Api(t) PROVE pc'[u] = "done"
  <2>1. CASE Call(t) \/ Make(t) \/ AssignInstance(t) \/ Copy(t)
    BY <2>1, <1>2 DEF Call, MayCall, Make, AssignInstance, Copy
  <2>2. CASE Count(t)
    BY <2>2, <1>2, <1>3 DEF Count, Dies
  <2>3. CASE Start(t) \/ Detach(t) \/ Push(t)
    BY <2>3, <1>2 DEF Start, Detach, Push
  <2> QED
    BY <1>4, <2>1, <2>2, <2>3 DEF Api
<1>5. ASSUME NEW s \in Stoppers, StopBeside(s) PROVE pc'[u] = "done"
  BY <1>2, <1>3, <1>5 DEF StopBeside
<1>6. CASE Ending
  <2>1. CASE IsRunning
    BY <2>1, <1>2, <1>3 DEF IsRunning, Dies
  <2>2. CASE SleepAndStop \/ FreeLocals \/ DestroyStatics \/ Exit
    BY <2>2, <1>2 DEF SleepAndStop, FreeLocals, DestroyStatics, Exit
  <2> QED
    BY <1>6, <2>1, <2>2 DEF Ending
<1>7. ASSUME NEW c \in Threads, Dispatch(c) PROVE pc'[u] = "done"
  BY <1>3, <1>7 DEF Dispatch, Dies, Loop, Outer, Wake, Pass, Launch, Callback,
     EndScan, Drain, Goes
<1> QED
  BY <1>4, <1>5, <1>6, <1>7 DEF Next

\* Nothing else tells where the slots are.
LEMMA AttachedFrame ==
    ASSUME LifetimeInv, AttachedInv, Next, UNCHANGED <<v_observables, attached>>
    PROVE  AttachedInv'
BY DoneStays DEF AttachedInv

\* Nothing of what a scan depends on changes, but for a flag that is cleared.
LEMMA StopFrame ==
    ASSUME StopInv, UNCHANGED <<launched, dispatcher, at, v_observables>>,
           \A c \in Threads : b_isRunning'[c] => b_isRunning[c]
    PROVE  StopInv'
BY DEF StopInv, StopOf

\* The slot that a caller attaches is not there.
LEMMA PushScan ==
    ASSUME LifetimeInv, LifetimeInv', ScanInv, Next, NEW t \in Threads, Push(t)
    PROVE  ScanInv'
<1> USE DEF timerVars, dispVars, mainVars, histVars
<1> DEFINE c == target[t]
           s == IF t = Main THEN MainSlots[attached + 1] ELSE t
           n == Len(v_observables[c])
<1>1. /\ pc[t] = "push"
      /\ v_observables' = [v_observables EXCEPT ![c] = Append(@, s)]
      /\ attached' = IF t = Main THEN attached + 1 ELSE attached
      /\ UNCHANGED <<launched, dispatcher, at, b_isRunning>>
  BY DEF Push
<1>2. /\ c \in Threads
      /\ v_observables \in [Threads -> Seq(Slots)]
      /\ attached \in Nat /\ attached <= Len(MainSlots)
      /\ t = Main => attached < Len(MainSlots)
      /\ MainSlots \in Seq(Slots) /\ Len(MainSlots) \in Nat
      /\ pc \in [Threads \cup Stoppers -> Places]
      /\ launched \in [Threads -> [Slots -> 0..2]]
  <2>1. c \in timers
    BY <1>1 DEF LifetimeInv, InstanceInv, Holding
  <2>2. /\ pc[t] \in InCall
        /\ MainSlots \in Seq(Slots) /\ Len(MainSlots) \in Nat
    BY <1>1, TimerLifetimeAssumption DEF InCall
  <2>3. /\ v_observables \in [Threads -> Seq(Slots)]
        /\ pc \in [Threads \cup Stoppers -> Places]
        /\ launched \in [Threads -> [Slots -> 0..2]]
        /\ timers \subseteq Threads
    BY DEF LifetimeInv, TypeInv, TypeOK
  <2>4. /\ attached \in 0..Len(MainSlots)
        /\ t = Main => attached < Len(MainSlots)
    BY <2>2 DEF LifetimeInv, TypeInv, TypeOK
  <2> HIDE DEF c
  <2> QED
    BY <2>1, <2>2, <2>3, <2>4
<1>3. t # Main => t \in Others /\ pc'[t] = "done" /\ s = t
  BY <1>2 DEF Push, Goto, Threads
<1>4. t = Main => s = MainSlots[attached + 1] /\ attached + 1 \in DOMAIN MainSlots
  BY <1>2
<1>5. s \in Slots /\ (s \in Others <=> t # Main) /\ (s \in Others => s = t)
  <2>1. CASE t = Main
    <3>1. s \in Range(MainSlots)
      BY <1>4, <2>1 DEF Range
    <3> QED
      BY <2>1, <3>1, TimerLifetimeAssumption DEF Slots
  <2>2. CASE t # Main
    BY <1>3, <2>2 DEF Slots
  <2> QED
    BY <2>1, <2>2
<1> HIDE DEF s
<1>6. \A d \in Threads : \A i \in DOMAIN v_observables[d] : v_observables[d][i] # s
  <2> SUFFICES ASSUME NEW d \in Threads, NEW i \in DOMAIN v_observables[d],
                      v_observables[d][i] = s
               PROVE  FALSE
    OBVIOUS
  <2>1. CASE t # Main
    BY <1>1, <1>3, <2>1 DEF ScanInv, AttachedInv
  <2>2. CASE t = Main
    <3>1. PICK k \in 1..attached : s = MainSlots[k]
      <4>1. s \in Range(MainSlots)
        BY <1>5, <2>2 DEF Slots
      <4> QED
        BY <4>1 DEF ScanInv, AttachedInv
    <3>2. k \in DOMAIN MainSlots /\ k # attached + 1
      BY <1>2, <3>1
    <3> QED
      BY <1>4, <2>2, <3>1, <3>2, TimerLifetimeAssumption
  <2> QED
    BY <2>1, <2>2
<1>7. v_observables[c] \in Seq(Slots) /\ n \in Nat
  BY <1>2
<1>8. /\ v_observables'[c] = Append(v_observables[c], s)
      /\ \A d \in Threads : d # c => v_observables'[d] = v_observables[d]
  BY <1>1, <1>2
<1>9. /\ DOMAIN v_observables'[c] = 1..(n + 1)
      /\ DOMAIN v_observables[c] = 1..n
      /\ v_observables'[c][n + 1] = s
      /\ \A i \in 1..n : v_observables'[c][i] = v_observables[c][i]
  BY <1>5, <1>7, <1>8
<1> HIDE DEF n, c
<1>10. AttachedInv'
  <2> SUFFICES ASSUME NEW d \in Threads, NEW i \in DOMAIN v_observables'[d]
               PROVE  LET r == v_observables'[d][i]
                      IN  /\ r \in Others => pc'[r] = "done"
                          /\ r \in Range(MainSlots) =>
                               \E k \in 1..attached' : r = MainSlots[k]
                          /\ \A j \in DOMAIN v_observables'[d] :
                               v_observables'[d][j] = r => i = j
    BY DEF AttachedInv
  <2> DEFINE r == v_observables'[d][i]
  <2>0. attached' \in Nat /\ attached <= attached'
    BY <1>1, <1>2
  <2>1. ASSUME NEW j \in DOMAIN v_observables[d], r = v_observables[d][j]
        PROVE  /\ r \in Others => pc'[r] = "done"
               /\ r \in Range(MainSlots) =>
                    \E k \in 1..attached' : r = MainSlots[k]
    <3>1. r \in Others => pc'[r] = "done"
      BY <2>1, DoneStays DEF ScanInv, AttachedInv
    <3>2. ASSUME r \in Range(MainSlots)
          PROVE  \E k \in 1..attached' : r = MainSlots[k]
      <4>1. PICK k \in 1..attached : r = MainSlots[k]
        BY <2>1, <3>2 DEF ScanInv, AttachedInv
      <4>2. k \in 1..attached'
        BY <1>2, <2>0
      <4> QED
        BY <4>1, <4>2, Zenon
    <3> QED
      BY <3>1, <3>2
  <2>2. CASE d # c
    <3>1. v_observables'[d] = v_observables[d]
      BY <1>8, <2>2
    <3>2. \A j \in DOMAIN v_observables'[d] : v_observables'[d][j] = r => i = j
      BY <3>1 DEF ScanInv, AttachedInv
    <3> QED
      BY <2>1, <3>1, <3>2
  <2>3. CASE d = c /\ i \in 1..n
    <3>1. i \in DOMAIN v_observables[d] /\ r = v_observables[d][i] /\ r # s
      BY <1>6, <1>9, <2>3
    <3>2. ASSUME NEW j \in DOMAIN v_observables'[d], v_observables'[d][j] = r
          PROVE  i = j
      <4>1. j # n + 1
        BY <1>9, <2>3, <3>1, <3>2
      <4>2. j \in 1..n
        BY <1>7, <1>9, <2>3, <4>1
      <4>3. j \in DOMAIN v_observables[d] /\ v_observables[d][j] = v_observables[d][i]
        BY <1>9, <2>3, <3>1, <3>2, <4>2
      <4>4. \A m \in DOMAIN v_observables[d] :
              v_observables[d][m] = v_observables[d][i] => i = m
        BY <3>1 DEF ScanInv, AttachedInv
      <4> QED
        BY <4>3, <4>4, Zenon
    <3> QED
      BY <2>1, <3>1, <3>2
  <2>4. CASE d = c /\ i = n + 1
    <3>1. r = s
      BY <1>9, <2>4
    <3>2. r \in Others => pc'[r] = "done"
      BY <1>3, <1>5, <3>1
    <3>3. r \in Range(MainSlots) => \E k \in 1..attached' : r = MainSlots[k]
      <4>1. r \in Range(MainSlots) => t = Main
        BY <1>5, <3>1, TimerLifetimeAssumption
      <4>2. t = Main => attached + 1 \in 1..attached' /\ r = MainSlots[attached + 1]
        BY <1>1, <1>2, <1>4, <3>1
      <4> QED
        BY <4>1, <4>2, Zenon
    <3>4. ASSUME NEW j \in DOMAIN v_observables'[d], v_observables'[d][j] = r
          PROVE  i = j
      <4>1. j \notin 1..n
        BY <1>2, <1>6, <1>9, <2>4, <3>1, <3>4
      <4> QED
        BY <1>7, <1>9, <2>4, <4>1
    <3> QED
      BY <3>2, <3>3, <3>4
  <2> QED
    BY <1>7, <1>9, <2>2, <2>3, <2>4
<1>11. StopInv'
  <2> SUFFICES ASSUME NEW d \in Threads PROVE StopOf(d)'
    BY DEF StopInv
  <2>1. StopOf(d)
    BY DEF ScanInv, StopInv
  <2>2. CASE d # c
    <3>1. v_observables'[d] = v_observables[d]
      BY <1>8, <2>2
    <3> QED
      BY <1>1, <2>1, <3>1 DEF StopOf
  <2>3. CASE d = c
    <3>1. \A r \in Range(v_observables[c]) : r \in Range(v_observables'[c])
      BY <1>7, <1>9 DEF Range
    <3>2. s \notin Range(v_observables[c])
      BY <1>2, <1>6 DEF Range
    <3>3. dispatcher[c] # "exited" => launched[c][s] = 0
      BY <1>5, <2>1, <2>3, <3>2 DEF StopOf
    <3>4. ASSUME NEW i \in DOMAIN v_observables'[c],
                 \/ dispatcher'[c] = "scan" /\ i >= at'[c]
                 \/ dispatcher'[c] = "callback" /\ i > at'[c]
          PROVE  launched'[c][v_observables'[c][i]] = 0
      <4>1. CASE i = n + 1
        BY <1>1, <1>9, <3>3, <3>4, <4>1
      <4>2. CASE i \in 1..n
        BY <1>1, <1>9, <2>1, <2>3, <3>4, <4>2 DEF StopOf
      <4> QED
        BY <1>7, <1>9, <4>1, <4>2
    <3> QED
      BY <1>1, <2>1, <2>3, <3>1, <3>4 DEF StopOf
  <2> QED
    BY <2>2, <2>3
<1> QED
  BY <1>10, <1>11 DEF ScanInv

\* The step of a dispatcher.
LEMMA DispatchScan ==
    ASSUME LifetimeInv, ScanInv, Next, NEW c \in Threads, Dispatch(c)
    PROVE  ScanInv'
<1> USE DEF timerVars, dispVars, mainVars, histVars
<1> DEFINE seq == v_observables[c]
           n   == Len(seq)
<1>1. /\ v_observables \in [Threads -> Seq(Slots)]
      /\ launched \in [Threads -> [Slots -> 0..2]]
      /\ at \in [Threads -> Nat \ {0}]
      /\ dispatcher \in [Threads -> {"unborn", "loop", "outer", "wait", "scan",
                                      "callback", "drain", "exited"}]
  BY DEF LifetimeInv, TypeInv, TypeOK
<1>2. seq \in Seq(Slots) /\ n \in Nat /\ DOMAIN seq = 1..n /\ at[c] \in Nat \ {0}
  BY <1>1
<1>3. AttachedInv /\ StopInv /\ StopOf(c)
  BY DEF ScanInv, StopInv
<1>4. ASSUME UNCHANGED <<v_observables, attached, b_isRunning>>,
             StopOf(c)',
             \A d \in Threads \ {c} : /\ dispatcher'[d] = dispatcher[d]
                                      /\ at'[d] = at[d]
                                      /\ launched'[d] = launched[d]
      PROVE  ScanInv'
  <2>1. ASSUME NEW d \in Threads \ {c} PROVE StopOf(d)'
    BY <1>3, <1>4, <2>1 DEF StopInv, StopOf
  <2> QED
    BY <1>3, <1>4, <2>1, AttachedFrame DEF ScanInv, StopInv
<1>5. ASSUME NEW how, Dies(how) PROVE ScanInv'
  BY <1>3, <1>5, AttachedFrame, StopFrame DEF Dies, ScanInv
<1>6. ASSUME NEW place, Goes(c, place)
      PROVE  /\ dispatcher'[c] = place
             /\ UNCHANGED <<v_observables, attached, b_isRunning>>
             /\ \A d \in Threads \ {c} : dispatcher'[d] = dispatcher[d]
  BY <1>1, <1>6 DEF Goes
<1> HIDE DEF seq, n
<1>7. CASE Loop(c) \/ Outer(c)
  <2>1. /\ dispatcher[c] \in {"loop", "outer"}
        /\ dispatcher'[c] = "wait" => b_isRunning[c]
        /\ dispatcher'[c] \in {"loop", "outer", "wait", "drain"}
        /\ UNCHANGED <<v_observables, attached, b_isRunning, at, launched>>
        /\ \A d \in Threads \ {c} : dispatcher'[d] = dispatcher[d]
    BY <1>6, <1>7 DEF Loop, Outer
  <2>2. StopOf(c)'
    BY <1>3, <2>1 DEF StopOf
  <2> QED
    BY <1>4, <2>1, <2>2
<1>8. CASE Wake(c)
  <2>1. /\ dispatcher[c] = "wait" /\ dispatcher'[c] = "scan"
        /\ UNCHANGED <<v_observables, attached, b_isRunning, launched>>
        /\ \A d \in Threads \ {c} : /\ dispatcher'[d] = dispatcher[d]
                                    /\ at'[d] = at[d]
    BY <1>1, <1>6, <1>8 DEF Wake
  <2>2. \A i \in DOMAIN seq : seq[i] \in Slots
    BY <1>2
  <2>3. StopOf(c)'
    BY <1>3, <2>1, <2>2 DEF StopOf, seq
  <2> QED
    BY <1>4, <2>1, <2>3
<1>9. CASE Pass(c) \/ EndScan(c)
  <2>1. /\ dispatcher[c] = "scan"
        /\ \/ dispatcher'[c] = "loop"
           \/ dispatcher'[c] = "scan" /\ at'[c] = at[c] + 1
        /\ UNCHANGED <<v_observables, attached, b_isRunning, launched>>
        /\ \A d \in Threads \ {c} : /\ dispatcher'[d] = dispatcher[d]
                                    /\ at'[d] = at[d]
    <3>1. CASE Pass(c)
      BY <1>1, <1>6, <3>1 DEF Pass
    <3>2. CASE EndScan(c)
      BY <1>6, <3>2 DEF EndScan
    <3> QED
      BY <1>9, <3>1, <3>2
  <2>2. \A i \in DOMAIN seq : i >= at[c] + 1 => i >= at[c]
    BY <1>2
  <2>3. StopOf(c)'
    BY <1>3, <2>1, <2>2 DEF StopOf, seq
  <2> QED
    BY <1>4, <2>1, <2>3
<1>10. CASE Launch(c)
  <2> DEFINE s == seq[at[c]]
  <2>1. /\ dispatcher[c] = "scan" /\ dispatcher'[c] = "callback"
        /\ at[c] <= n
        /\ UNCHANGED <<v_observables, attached, b_isRunning, at>>
        /\ \A d \in Threads \ {c} : dispatcher'[d] = dispatcher[d]
        /\ launched' = IF b_isRunning[c] THEN launched
                       ELSE [launched EXCEPT ![c][s] = IF @ < 2 THEN @ + 1 ELSE 2]
    BY <1>6, <1>10 DEF Launch, seq, n
  <2>2. at[c] \in DOMAIN seq
    BY <1>2, <2>1
  <2>3. s \in Slots /\ s \in Range(seq)
    BY <1>2, <2>2 DEF Range
  <2>4. launched[c][s] = 0
    BY <1>2, <1>3, <2>1, <2>2 DEF StopOf, seq
  <2>5. /\ \A i \in DOMAIN seq : i > at[c] => i >= at[c] /\ seq[i] # s
        /\ \A i \in DOMAIN seq : seq[i] \in Slots
    BY <1>2, <1>3, <2>2 DEF AttachedInv, seq
  <2> HIDE DEF s
  <2>6. CASE b_isRunning[c]
    <3>1. StopOf(c)'
      BY <1>3, <2>1, <2>5, <2>6 DEF StopOf, seq
    <3> QED
      BY <1>4, <2>1, <2>6, <3>1
  <2>7. CASE ~b_isRunning[c]
    <3>1. /\ launched'[c][s] = 1
          /\ \A r \in Slots : r # s => launched'[c][r] = launched[c][r]
          /\ \A d \in Threads \ {c} : launched'[d] = launched[d]
      BY <1>1, <2>1, <2>3, <2>4, <2>7
    <3>2. \A r \in Slots :
            /\ launched'[c][r] < 2
            /\ launched'[c][r] # 0 => r \in Range(seq)
      BY <1>3, <2>1, <2>3, <3>1 DEF StopOf, seq
    <3>3. \A i \in DOMAIN seq : i > at[c] => launched'[c][seq[i]] = 0
      BY <1>3, <2>1, <2>5, <3>1 DEF StopOf, seq
    <3>4. StopOf(c)'
      BY <2>1, <2>7, <3>2, <3>3 DEF StopOf, seq
    <3> QED
      BY <1>4, <2>1, <3>1, <3>4
  <2> QED
    BY <2>6, <2>7
<1>11. CASE Callback(c)
  <2>1. CASE Dies("freed local")
    BY <1>5, <2>1
  <2>2. CASE Goes(c, "scan") /\ at' = [at EXCEPT ![c] = @ + 1] /\ UNCHANGED launched
    <3>1. /\ dispatcher[c] = "callback" /\ dispatcher'[c] = "scan"
          /\ at'[c] = at[c] + 1
          /\ UNCHANGED <<v_observables, attached, b_isRunning, launched>>
          /\ \A d \in Threads \ {c} : /\ dispatcher'[d] = dispatcher[d]
                                      /\ at'[d] = at[d]
      BY <1>1, <1>6, <1>11, <2>2 DEF Callback
    <3>2. \A i \in DOMAIN seq : i >= at[c] + 1 => i > at[c]
      BY <1>2
    <3>3. StopOf(c)'
      BY <1>3, <3>1, <3>2 DEF StopOf, seq
    <3> QED
      BY <1>4, <3>1, <3>3
  <2> QED
    BY <1>11, <2>1, <2>2 DEF Callback
<1>12. CASE Drain(c)
  <2>1. /\ v_observables' = [v_observables EXCEPT ![c] = << >>]
        /\ dispatcher' = [dispatcher EXCEPT ![c] = "exited"]
        /\ dispatcher[c] = "drain"
        /\ UNCHANGED <<attached, b_isRunning, at, launched, pc>>
    BY <1>12 DEF Drain
  <2>2. /\ v_observables'[c] = << >> /\ dispatcher'[c] = "exited"
        /\ \A d \in Threads \ {c} : /\ v_observables'[d] = v_observables[d]
                                    /\ dispatcher'[d] = dispatcher[d]
    BY <1>1, <2>1
  <2>3. AttachedInv'
    BY <1>3, <2>1, <2>2 DEF AttachedInv
  <2>4. StopOf(c)'
    BY <1>3, <2>1, <2>2 DEF StopOf
  <2>5. ASSUME NEW d \in Threads \ {c} PROVE StopOf(d)'
    BY <1>3, <2>1, <2>2, <2>5 DEF StopInv, StopOf
  <2> QED
    BY <2>3, <2>4, <2>5 DEF ScanInv, StopInv
<1> QED
  BY <1>5, <1>7, <1>8, <1>9, <1>10, <1>11, <1>12 DEF Dispatch

LEMMA NextScan == LifetimeInv /\ ScanInv /\ [Next]_vars => ScanInv'
<1> SUFFICES ASSUME LifetimeInv, ScanInv, [Next]_vars PROVE ScanInv'
  OBVIOUS
<1> USE DEF timerVars, dispVars, mainVars, histVars
<1>1. CASE UNCHANGED vars
  BY <1>1 DEF vars, ScanInv, AttachedInv, StopInv, StopOf
<1>2. CASE Next
  <2>1. LifetimeInv'
    BY NextLifetime
  <2>2. b_isRunning \in [Threads -> BOOLEAN]
        /\ launched \in [Threads -> [Slots -> 0..2]]
        /\ dispatcher \in [Threads -> {"unborn", "loop", "outer", "wait", "scan",
                                      "callback", "drain", "exited"}]
    BY DEF LifetimeInv, TypeInv, TypeOK
  <2>3. ASSUME UNCHANGED <<launched, dispatcher, at, v_observables, attached>>,
               \A c \in Threads : b_isRunning'[c] => b_isRunning[c]
        PROVE  ScanInv'
    BY <1>2, <2>3, AttachedFrame, StopFrame DEF ScanInv
  <2>4. ASSUME NEW t \in Threads, Call(t) \/ AssignInstance(t) \/ Copy(t)
                                    \/ Count(t) \/ Start(t)
        PROVE  ScanInv'
    BY <2>3, <2>4 DEF Call, AssignInstance, Copy, Count, Start, Dies
  <2>5. ASSUME NEW t \in Threads, Make(t) PROVE ScanInv'
    <3>1. AttachedInv'
      BY <1>2, <2>5, AttachedFrame DEF Make, ScanInv
    <3>2. dispatcher[t] = "unborn"
      BY <2>5 DEF Make, LifetimeInv, BornInv
    <3>3. /\ \A c \in Threads : c # t => dispatcher'[c] = dispatcher[c]
          /\ dispatcher'[t] = "loop"
          /\ UNCHANGED <<launched, at, v_observables, b_isRunning>>
      BY <2>2, <2>5 DEF Make
    <3>4. ASSUME NEW c \in Threads PROVE StopOf(c)'
      BY <3>2, <3>3 DEF ScanInv, StopInv, StopOf
    <3> QED
      BY <3>1, <3>4 DEF ScanInv, StopInv
  <2>6. ASSUME NEW t \in Threads, Detach(t) PROVE ScanInv'
    <3> DEFINE d == target[t]
    <3>1. AttachedInv'
      BY <1>2, <2>6, AttachedFrame DEF Detach, ScanInv
    <3>2. /\ UNCHANGED <<dispatcher, at, v_observables>>
          /\ \A c \in Threads : c # d => /\ launched'[c] = launched[c]
                                         /\ b_isRunning'[c] = b_isRunning[c]
          /\ d \in Threads => \A s \in Slots : launched'[d][s] = 0
      BY <2>2, <2>6 DEF Detach
    <3>3. \A c \in Threads : \A i \in DOMAIN v_observables[c] :
              v_observables[c][i] \in Slots
      <4>1. v_observables \in [Threads -> Seq(Slots)]
        BY DEF LifetimeInv, TypeInv, TypeOK
      <4> QED
        BY <4>1
    <3> HIDE DEF d
    <3>4. ASSUME NEW c \in Threads PROVE StopOf(c)'
      <4>1. CASE c = d
        BY <3>2, <3>3, <4>1 DEF StopOf
      <4>2. CASE c # d
        BY <3>2, <4>2 DEF ScanInv, StopInv, StopOf
      <4> QED
        BY <4>1, <4>2, Zenon
    <3> QED
      BY <3>1, <3>4 DEF ScanInv, StopInv
  <2>7. ASSUME NEW s \in Stoppers, StopBeside(s) PROVE ScanInv'
    BY <2>2, <2>3, <2>7 DEF StopBeside, Stop, Cleared
  <2>8. CASE Ending
    BY <2>2, <2>3, <2>8 DEF Ending, IsRunning, SleepAndStop, FreeLocals,
       DestroyStatics, Exit, Stop, Cleared, Dies
  <2> QED
    BY <1>2, <2>1, <2>4, <2>5, <2>6, <2>7, <2>8, PushScan, DispatchScan
       DEF Next, Api
<1> QED
  BY <1>1, <1>2

\* stop() does not end the scan under way, and b_isRunning is looked at only
\* between scans; yet no slot is launched twice after it.
THEOREM PromptStop == Spec => []StopIsPrompt
<1>1. Init => ScanInv
  BY DEF Init, ScanInv, AttachedInv, StopInv, StopOf
<1>2. LifetimeInv /\ ScanInv => StopIsPrompt
  BY DEF ScanInv, StopInv, StopOf, StopIsPrompt
<1> QED
  BY <1>1, <1>2, NextScan, LifetimeHolds, PTL DEF Spec

=============================================================================
