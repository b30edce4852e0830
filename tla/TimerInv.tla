------------------------------ MODULE TimerInv ------------------------------
(***************************************************************************)
(* The inductive invariant of Timer, one named part per idea.              *)
(***************************************************************************)
EXTENDS Timer

Attached == Range(v_observables)

\* The vector owns every observable once, only after its attach has ended,
\* and nothing that was destroyed.
VectorInv ==
    /\ \A i, j \in 1..Len(v_observables) :
         v_observables[i] = v_observables[j] => i = j
    /\ \A o \in Attached \cup destroyed \cup visited : call[o] = "attached"
    /\ Attached \cap destroyed = {}

\* Which callbacks may be running, and where the dispatcher then is.
TaskOf(o) ==
    /\ Kind[o] # "timer" /\ tasks[o] # {} => pc = "join" /\ it.obj = o
    /\ "prev" \in tasks[o] => pc = "assign" /\ it.obj = o /\ Kind[o] = "timer"
    /\ tasks[o] # {} => o \notin destroyed

TaskInv == \A o \in Observables : TaskOf(o)

\* While notify() runs, the iterator points at the observable it runs for,
\* unless the vector has moved meanwhile.
IteratorInv ==
    /\ it.buf <= buffer
    /\ pc \in {"assign", "get", "join"} => it.obj \in Attached
    /\ pc = "assign" => Kind[it.obj] = "timer"
    /\ pc = "get" => Kind[it.obj] = "future"
    /\ pc = "join" => Kind[it.obj] # "timer"
    /\ pc \in {"assign", "get", "join", "reap"} /\ ~Stale =>
         it.pos <= Len(v_observables) /\ v_observables[it.pos] = it.obj
    /\ pc = "scan" /\ ~Stale => it.pos <= Len(v_observables) + 1
    /\ pc = "drain" => it.pos = 1

\* What was launched bears the mark of it, and an observable that is to be
\* destroyed is the one the dispatcher is at.
MarkOf(o) ==
    /\ isFinish[o] \/ launches[o] > 0 \/ tasks[o] # {} => call[o] = "attached"
    /\ Mode[o] = "singleshot" \/ Kind[o] = "future" => launches[o] <= 1
    /\ Kind[o] = "future" => (retrieved[o] <=> launches[o] > 0)
    /\ Kind[o] # "future" /\ isFinish[o] => Mode[o] = "singleshot"
    /\ Kind[o] # "future" /\ Mode[o] = "singleshot" /\ launches[o] > 0
         => isFinish[o] \/ (pc = "assign" /\ it.obj = o)
    /\ o \in Attached /\ toDestroy(o) => pc \in {"join", "reap"} /\ it.obj = o

MarkInv == \A o \in Observables : MarkOf(o)

\* The time since the last launch and the time to the next make up at least
\* the interval.
TimeOf(o) ==
    o \in Attached /\ Kind[o] # "future" =>
        \/ sinceLaunch[o] + untilNext[o] >= Interval[o]
        \/ isFinish[o]
        \/ pc = "assign" /\ it.obj = o

TimeInv == \A o \in Observables : TimeOf(o)

\* The scan has notified exactly the elements the iterator has passed.
ScanInv ==
    /\ pc = "scan" /\ ~Stale =>
         \A j \in 1..Len(v_observables) :
            v_observables[j] \in visited <=> j < it.pos
    /\ pc \in {"assign", "get", "join", "reap"} /\ ~Stale =>
         \A j \in 1..Len(v_observables) :
            v_observables[j] \in visited <=> j <= it.pos

\* What the proofs of Timer rest on: no two of these parts could be proved
\* apart from each other.
TimerInvariant ==
    /\ VectorInv
    /\ TaskInv
    /\ IteratorInv
    /\ MarkInv
    /\ TimeInv
    /\ ScanInv
    /\ TerminateOnlyByFuture

=============================================================================
