---------------------------- MODULE TimerService ----------------------------
(***************************************************************************)
(* What lib/util/timer.hpp promises to those who attach a callback, with   *)
(* no threads, no vector and no iterators: when a callback may be launched *)
(* and when its observable may be destroyed.                               *)
(***************************************************************************)
EXTENDS Integers

CONSTANTS Observables, Kind, Mode, Interval

VARIABLES
    phase,    \* phase[o]: "free", "armed" or "retired"
    running,  \* running[o]: callbacks of o that have not returned
    elapsed,  \* elapsed[o]: ticks since the attach or last launch, capped
    fired     \* fired[o]: launches so far, up to 2

serviceVars == <<phase, running, elapsed, fired>>

ServiceInit ==
    /\ phase = [o \in Observables |-> "free"]
    /\ running = [o \in Observables |-> 0]
    /\ elapsed = [o \in Observables |-> 0]
    /\ fired = [o \in Observables |-> 0]

Arm(o) ==
    /\ phase[o] = "free"
    /\ phase' = [phase EXCEPT ![o] = "armed"]
    /\ elapsed' = [elapsed EXCEPT ![o] = 0]
    /\ UNCHANGED <<running, fired>>

\* What a single shot or a watched future has done once it need not do again.
Spent(o) == fired[o] > 0 /\ (Mode[o] = "singleshot" \/ Kind[o] = "future")

\* Callbacks of slots and futures exclude each other; an observer's Update
\* may be launched while the one before it still runs.
MayRun(o) ==
    IF Kind[o] = "timer" THEN running[o] < 2
    ELSE \A p \in Observables : Kind[p] # "timer" => running[p] = 0

Fire(o) ==
    /\ phase[o] = "armed"
    /\ ~Spent(o)
    /\ Kind[o] # "future" => elapsed[o] >= Interval[o]
    /\ MayRun(o)
    /\ running' = [running EXCEPT ![o] = @ + 1]
    /\ elapsed' = [elapsed EXCEPT ![o] = 0]
    /\ fired' = [fired EXCEPT ![o] = IF @ < 2 THEN @ + 1 ELSE 2]
    /\ UNCHANGED phase

Finish(o) ==
    /\ running[o] > 0
    /\ running' = [running EXCEPT ![o] = @ - 1]
    /\ UNCHANGED <<phase, elapsed, fired>>

\* After its last shot or because the timer was stopped, but never while a
\* callback that uses the observable runs.
Retire(o) ==
    /\ phase[o] = "armed"
    /\ running[o] = 0
    /\ phase' = [phase EXCEPT ![o] = "retired"]
    /\ UNCHANGED <<running, elapsed, fired>>

Pass ==
    /\ elapsed' = [o \in Observables |->
                     IF elapsed[o] < Interval[o]
                       THEN elapsed[o] + 1 ELSE elapsed[o]]
    /\ UNCHANGED <<phase, running, fired>>

ServiceNext ==
    \/ \E o \in Observables : Arm(o) \/ Fire(o) \/ Finish(o) \/ Retire(o)
    \/ Pass

ServiceSpec == ServiceInit /\ [][ServiceNext]_serviceVars

=============================================================================
