--------------------------- MODULE TimerLifetime ----------------------------
(***************************************************************************)
(* How a Timer of lib/util/timer.hpp comes to be, is shared and is freed,  *)
(* under example/simplemonitor: main() attaches slots that capture its     *)
(* locals, asks isRunning(), sleeps for a minute, stops the timer and      *)
(* returns, beside other threads that attach a slot or stop the timer.     *)
(*                                                                         *)
(* Module Timer has one timer for ever and looks into its dispatcher; here *)
(* there may be several, and of the dispatchers only what tells when they  *)
(* use the timer and what the callbacks have captured.  All slots are      *)
(* periodic, as in simplemonitor, and may be due at any scan; what a       *)
(* push_back does to a scan under way is left to Timer.                    *)
(*                                                                         *)
(* Undefined behaviour and the end of the process by std::terminate are    *)
(* noted in fault; nothing is modelled after.                              *)
(***************************************************************************)
EXTENDS Naturals, Sequences, SequencesExt

CONSTANTS
    Main,           \* the thread of main()
    Others,         \* threads that attach a slot each, named like the thread
    Stoppers,       \* threads that call Timer::stop() once
    MainSlots       \* the slots main() attaches, in order

NoTimer == "none"
Threads == Others \cup {Main}
Slots   == Range(MainSlots) \cup Others

ASSUME TimerLifetimeAssumption ==
    /\ Main \notin Others
    /\ Stoppers \cap Threads = {}
    /\ NoTimer \notin Threads
    /\ MainSlots \in Seq(Slots) /\ MainSlots # << >>
    /\ \A i, j \in DOMAIN MainSlots : MainSlots[i] = MainSlots[j] => i = j
    /\ Range(MainSlots) \cap Others = {}

VARIABLES
    instance,       \* Timer::instance
    timers,         \* those that were made, each named by the thread it made
    joinable,       \* of each: wait_thread->joinable()
    b_isRunning,    \* of each
    v_observables,  \* of each, the slots
    dispatcher,     \* of each, where its thread is
    at,             \* and the place its iterator has in v_observables
    pc,             \* where each thread is
    target,         \* the timer its call of the API is for
    attached,       \* how many slots main() has attached
    locals,         \* whether the locals of main() are there
    fault,          \* how the process died, or "none"
    returned,       \* history: a call has returned
    raced,          \* history: before that, another was begun beside it
    hasty,          \* history: stop() was called before that
    stopped,        \* history: stop() was called
    leftOthers,    \* history: main() left its loop without being alone
    launched        \* history: launches of each slot since stop(), up to 2

timerVars == <<instance, timers, joinable, b_isRunning, v_observables>>
dispVars  == <<dispatcher, at>>
mainVars  == <<attached, locals>>
histVars  == <<returned, raced, hasty, stopped, leftOthers>>
vars      == <<timerVars, dispVars, pc, target, mainVars, fault, histVars,
               launched>>

Places  == {"idle", "make", "assign", "copy", "count", "start", "detach", "push",
            "threw", "done", "isRunning", "sleep", "free", "statics", "exit",
            "ended"}
InCall  == {"make", "assign", "copy", "count", "start", "detach", "push"}
Holding == {"assign", "start", "detach", "push"}

TypeOK ==
    /\ instance \in Threads \cup {NoTimer}
    /\ timers \subseteq Threads
    /\ joinable \in [Threads -> BOOLEAN]
    /\ b_isRunning \in [Threads -> BOOLEAN]
    /\ v_observables \in [Threads -> Seq(Slots)]
    /\ dispatcher \in [Threads -> {"unborn", "loop", "outer", "wait", "scan",
                                   "callback", "drain", "exited"}]
    /\ at \in [Threads -> Nat \ {0}]
    /\ pc \in [Threads \cup Stoppers -> Places]
    /\ target \in [Threads -> Threads \cup {NoTimer}]
    /\ attached \in 0..Len(MainSlots)
    /\ locals \in BOOLEAN
    /\ fault \in {"none", "null", "uncaught", "terminate", "freed timer",
                  "freed local"}
    /\ returned \in BOOLEAN /\ raced \in BOOLEAN /\ hasty \in BOOLEAN
    /\ stopped \in BOOLEAN /\ leftOthers \in BOOLEAN
    /\ launched \in [Threads -> [Slots -> 0..2]]

Init ==
    /\ instance = NoTimer
    /\ timers = {}
    /\ joinable = [c \in Threads |-> FALSE]
    /\ b_isRunning = [c \in Threads |-> FALSE]
    /\ v_observables = [c \in Threads |-> << >>]
    /\ dispatcher = [c \in Threads |-> "unborn"]
    /\ at = [c \in Threads |-> 1]
    /\ pc = [t \in Threads \cup Stoppers |-> "idle"]
    /\ target = [t \in Threads |-> NoTimer]
    /\ attached = 0
    /\ locals = TRUE
    /\ fault = "none"
    /\ returned = FALSE /\ raced = FALSE /\ hasty = FALSE
    /\ stopped = FALSE /\ leftOthers = FALSE
    /\ launched = [c \in Threads |-> [s \in Slots |-> 0]]

Goto(t, place) == pc' = [pc EXCEPT ![t] = place]

\* The instance and each call that got a shared_ptr hold a timer; it is freed
\* when nobody does.
Freed(c) ==
    /\ c \in timers
    /\ instance # c
    /\ \A t \in Threads : ~(pc[t] \in Holding /\ target[t] = c)

\* ~Timer() of those freed by this step: the destructor of a std::thread that
\* was not detached ends the process.
Release ==
    fault' = IF \E c \in timers : ~Freed(c) /\ Freed(c)' /\ joinable[c]
               THEN "terminate" ELSE fault

Dies(how) ==
    /\ fault' = how
    /\ UNCHANGED <<timerVars, dispVars, pc, target, mainVars, histVars, launched>>

-----------------------------------------------------------------------------
(* singleShot, periodicShot, futureWatch: createTimer() and the attaching. *)

\* Slip: no test.
FindsNone == TRUE

\* instance == nullptr
NoInstance == instance = NoTimer

MayCall(t) ==
    /\ pc[t] = "idle"
    /\ t = Main => attached < Len(MainSlots)

Call(t) ==
    /\ MayCall(t)
    /\ Goto(t, IF NoInstance THEN "make" ELSE "copy")
    /\ raced' = (raced \/ (~returned /\ \E u \in Threads : pc[u] \in InCall))
    /\ UNCHANGED <<timerVars, dispVars, target, mainVars, fault, returned,
                   hasty, stopped, leftOthers, launched>>

\* make_shared: the constructor starts the dispatcher.
Make(t) ==
    /\ pc[t] = "make"
    /\ timers' = timers \cup {t}
    /\ joinable' = [joinable EXCEPT ![t] = TRUE]
    /\ dispatcher' = [dispatcher EXCEPT ![t] = "loop"]
    /\ target' = [target EXCEPT ![t] = t]
    /\ Goto(t, "assign")
    /\ UNCHANGED <<instance, b_isRunning, v_observables, at, mainVars, fault,
                   histVars, launched>>

\* The assignment frees the timer that another thread put there meanwhile,
\* unless a call still holds it.
AssignInstance(t) ==
    /\ pc[t] = "assign"
    /\ instance' = t
    /\ target' = [target EXCEPT ![t] = NoTimer]
    /\ Goto(t, "copy")
    /\ UNCHANGED <<timers, joinable, b_isRunning, v_observables, dispVars,
                   mainVars, histVars, launched>>
    /\ Release

\* return instance: the pointer is read, then its holders are counted.
Copy(t) ==
    /\ pc[t] = "copy"
    /\ target' = [target EXCEPT ![t] = instance]
    /\ Goto(t, "count")
    /\ UNCHANGED <<timerVars, dispVars, mainVars, fault, histVars, launched>>

Count(t) ==
    /\ pc[t] = "count"
    /\ IF target[t] = NoTimer THEN Dies("null")
       ELSE IF Freed(target[t]) THEN Dies("freed timer")
       ELSE /\ Goto(t, "start")
            /\ UNCHANGED <<timerVars, dispVars, target, mainVars, fault,
                           histVars, launched>>

\* start(): the test of the flag.
Start(t) ==
    /\ pc[t] = "start"
    /\ Goto(t, IF b_isRunning[target[t]] THEN "push" ELSE "detach")
    /\ UNCHANGED <<timerVars, dispVars, target, mainVars, fault, histVars,
                   launched>>

\* Slip: the thread is not detached.
NotDetached(c) == joinable

\* joinable after detach().
Detached(c) == [joinable EXCEPT ![c] = FALSE]

\* start(): the flag, then detach(), which throws the second time.  main()
\* catches nothing; what another thread does about it is its own.
Detach(t) ==
    LET c == target[t]
    IN  /\ pc[t] = "detach"
        /\ b_isRunning' = [b_isRunning EXCEPT ![c] = TRUE]
        /\ launched' = [launched EXCEPT ![c] = [s \in Slots |-> 0]]
        /\ joinable' = Detached(c)
        /\ Goto(t, IF joinable[c] THEN "push" ELSE "threw")
        /\ UNCHANGED <<instance, timers, v_observables, dispVars, target,
                       mainVars, histVars>>
        /\ IF ~joinable[c] /\ t = Main THEN fault' = "uncaught" ELSE Release

\* push_back, and the call is over.
Push(t) ==
    LET c == target[t]
        s == IF t = Main THEN MainSlots[attached + 1] ELSE t
    IN  /\ pc[t] = "push"
        /\ v_observables' = [v_observables EXCEPT ![c] = Append(@, s)]
        /\ attached' = IF t = Main THEN attached + 1 ELSE attached
        /\ Goto(t, IF t # Main THEN "done"
                   ELSE IF attached' < Len(MainSlots) THEN "idle"
                   ELSE "isRunning")
        /\ target' = [target EXCEPT ![t] = NoTimer]
        /\ returned' = TRUE
        /\ UNCHANGED <<instance, timers, joinable, b_isRunning, dispVars,
                       locals, raced, hasty, stopped, leftOthers, launched>>
        /\ Release

\* Slip: stop() leaves the flag as it is.
NotCleared == b_isRunning

\* b_isRunning after stop().
Cleared == [b_isRunning EXCEPT ![instance] = FALSE]

\* Timer::stop().
Stop ==
    /\ b_isRunning' = Cleared
    /\ stopped' = TRUE
    /\ hasty' = (hasty \/ ~returned)

StopBeside(s) ==
    /\ pc[s] = "idle"
    /\ IF instance = NoTimer
         THEN /\ fault' = "null"
              /\ hasty' = (hasty \/ ~returned)
              /\ UNCHANGED <<b_isRunning, stopped, pc>>
         ELSE Stop /\ Goto(s, "done") /\ UNCHANGED fault
    /\ UNCHANGED <<instance, timers, joinable, v_observables, dispVars, target,
                   mainVars, returned, raced, leftOthers, launched>>

-----------------------------------------------------------------------------
(* main() after it has attached its slots.                                 *)

\* No dispatcher runs, and no other thread will use the timer.
MainIsAlone ==
    /\ \A c \in timers : dispatcher[c] = "exited"
    /\ \A t \in Others \cup Stoppers : pc[t] \in {"done", "threw"}

\* while (Timer::isRunning())
IsRunning ==
    /\ pc[Main] = "isRunning"
    /\ IF instance = NoTimer THEN Dies("null")
       ELSE /\ Goto(Main, IF b_isRunning[instance] THEN "sleep" ELSE "free")
            /\ leftOthers' =
                 (~b_isRunning[instance] /\ ~MainIsAlone)
            /\ UNCHANGED <<timerVars, dispVars, target, mainVars, fault,
                           returned, raced, hasty, stopped, launched>>

\* A minute has passed: stop().
SleepAndStop ==
    /\ pc[Main] = "sleep"
    /\ Stop
    /\ Goto(Main, "isRunning")
    /\ UNCHANGED <<instance, timers, joinable, v_observables, dispVars, target,
                   mainVars, fault, returned, raced, leftOthers, launched>>

\* main() returns.
FreeLocals ==
    /\ pc[Main] = "free"
    /\ locals' = FALSE
    /\ Goto(Main, "statics")
    /\ UNCHANGED <<timerVars, dispVars, target, attached, fault, histVars,
                   launched>>

\* The static instance is destroyed.
DestroyStatics ==
    /\ pc[Main] = "statics"
    /\ instance' = NoTimer
    /\ Goto(Main, "exit")
    /\ UNCHANGED <<timers, joinable, b_isRunning, v_observables, dispVars,
                   target, mainVars, histVars, launched>>
    /\ Release

\* The process ends, and all its threads.
Exit ==
    /\ pc[Main] = "exit"
    /\ Goto(Main, "ended")
    /\ UNCHANGED <<timerVars, dispVars, target, mainVars, fault, histVars,
                   launched>>

-----------------------------------------------------------------------------
(* The dispatcher of timer c, which is detached or was never.              *)

Goes(c, place) ==
    /\ dispatcher' = [dispatcher EXCEPT ![c] = place]
    /\ UNCHANGED <<timerVars, pc, target, mainVars, fault, histVars>>

\* Slip: the inner loop does not look at the flag.
LoopOn(c) ==
    /\ dispatcher[c] = "loop"
    /\ Goes(c, "wait")
    /\ UNCHANGED <<at, launched>>

Loop(c) ==
    /\ dispatcher[c] = "loop"
    /\ Goes(c, IF b_isRunning[c] THEN "wait" ELSE "outer")
    /\ UNCHANGED <<at, launched>>

Outer(c) ==
    /\ dispatcher[c] = "outer"
    /\ Goes(c, IF b_isRunning[c] THEN "loop" ELSE "drain")
    /\ UNCHANGED <<at, launched>>

Wake(c) ==
    /\ dispatcher[c] = "wait"
    /\ Goes(c, "scan")
    /\ at' = [at EXCEPT ![c] = 1]
    /\ UNCHANGED launched

\* A slot that is not due.
Pass(c) ==
    /\ dispatcher[c] = "scan"
    /\ at[c] <= Len(v_observables[c])
    /\ Goes(c, "scan")
    /\ at' = [at EXCEPT ![c] = @ + 1]
    /\ UNCHANGED launched

\* One that is: its callback is started, and waited for.
Launch(c) ==
    /\ dispatcher[c] = "scan"
    /\ at[c] <= Len(v_observables[c])
    /\ Goes(c, "callback")
    /\ launched' =
         IF b_isRunning[c] THEN launched
         ELSE [launched EXCEPT ![c][v_observables[c][at[c]]] =
                                                IF @ < 2 THEN @ + 1 ELSE 2]
    /\ UNCHANGED at

\* The callback of a slot of main() uses its locals.
Callback(c) ==
    /\ dispatcher[c] = "callback"
    /\ IF v_observables[c][at[c]] \in Range(MainSlots) /\ ~locals
         THEN Dies("freed local")
         ELSE /\ Goes(c, "scan")
              /\ at' = [at EXCEPT ![c] = @ + 1]
              /\ UNCHANGED launched

EndScan(c) ==
    /\ dispatcher[c] = "scan"
    /\ at[c] > Len(v_observables[c])
    /\ Goes(c, "loop")
    /\ UNCHANGED <<at, launched>>

Drain(c) ==
    /\ dispatcher[c] = "drain"
    /\ v_observables' = [v_observables EXCEPT ![c] = << >>]
    /\ dispatcher' = [dispatcher EXCEPT ![c] = "exited"]
    /\ UNCHANGED <<instance, timers, joinable, b_isRunning, at, pc, target,
                   mainVars, fault, histVars, launched>>

\* Every step of it uses the timer.
Dispatch(c) ==
    /\ dispatcher[c] \notin {"unborn", "exited"}
    /\ IF Freed(c) THEN Dies("freed timer")
       ELSE \/ Loop(c) \/ Outer(c) \/ Wake(c) \/ Pass(c) \/ Launch(c)
            \/ Callback(c) \/ EndScan(c) \/ Drain(c)

-----------------------------------------------------------------------------

Api(t) ==
    \/ Call(t) \/ Make(t) \/ AssignInstance(t) \/ Copy(t) \/ Count(t)
    \/ Start(t) \/ Detach(t) \/ Push(t)

Ending == IsRunning \/ SleepAndStop \/ FreeLocals \/ DestroyStatics \/ Exit

Alive == fault = "none" /\ pc[Main] # "ended"

Next ==
    /\ Alive
    /\ \/ \E t \in Threads : Api(t)
       \/ \E s \in Stoppers : StopBeside(s)
       \/ Ending
       \/ \E c \in Threads : Dispatch(c)

MainGoes == Alive /\ (Api(Main) \/ Ending)

Spec == Init /\ [][Next]_vars /\ WF_vars(MainGoes)

-----------------------------------------------------------------------------

MainLeft == pc[Main] \in {"free", "statics", "exit", "ended"}

\* While the first call of all is alone until it returns, and until main()
\* leaves its loop, there is one timer that all callers share, and it is not
\* freed.
CallersShareTimer ==
    raced \/ MainLeft \/ \A c \in timers : timers = {c} /\ ~Freed(c)

\* What the process may die of here, where a push_back that moves the vector
\* under a scan, which is another way (module Timer), is left out: a null
\* instance only if stop() comes before the first attach has returned or main()
\* has left its caller behind, an exception only after a race of first calls or
\* a stop(), and of what was freed only after such a race or when main() has
\* left a dispatcher or another caller behind.
DeathsAreKnown ==
    /\ fault = "null" => hasty \/ leftOthers
    /\ fault = "uncaught" => raced \/ stopped
    /\ fault \in {"terminate", "freed timer"} => raced \/ leftOthers
    /\ fault = "freed local" => leftOthers

\* stop() does not end a scan, but no slot is launched twice after it, unless
\* an attach has set the flag again.
StopIsPrompt == \A c \in Threads, s \in Slots : launched[c][s] < 2

\* main() returns, whoever else attaches.
MainReturns == <>(fault # "none" \/ pc[Main] = "ended")

=============================================================================
