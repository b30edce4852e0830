------------------------------- MODULE Timer -------------------------------
(***************************************************************************)
(* The process-wide timer of lib/util/timer.hpp: a singleton with one      *)
(* detached dispatcher thread that polls a vector of observables and runs  *)
(* the callback of each one that is due on a std::async thread.            *)
(*                                                                         *)
(* Threads: the dispatcher (pc, it), the callers of the static API (call), *)
(* and the async threads that run callbacks (tasks).  Every action is one  *)
(* stretch of code of one thread between two points where another thread   *)
(* can be noticed.  The mutex of the dispatcher is not modelled: no other  *)
(* function takes it, so it excludes nobody, and its condition variable is *)
(* never notified.                                                         *)
(*                                                                         *)
(* Time is kept relative: untilNext[o] is nextExecution - now, cut off at  *)
(* 0, so that the clock needs no bound.                                    *)
(***************************************************************************)
EXTENDS Integers, SequencesExt

CONSTANTS
    Observables,  \* every observable the run may attach, each at most once
    Clients,      \* threads outside the timer that call its API
    Kind,         \* which of the three observable classes it is an object of
    Mode,         \* timer_mode of the observable
    Interval,     \* its period or delay, in clock ticks
    Caller,       \* the client, or the observable whose callback, attaches it
    Empty,        \* observables whose functionPointer / m_observable is null
    MayThrow,     \* observables whose callback may leave by an exception
    Resolver,     \* who fulfils the shared_future that a "future" one watches
    MayStop       \* whether Timer::stop() is called at all

Kinds == {"timer", "slot", "future"}
Modes == {"singleshot", "continuous"}

ASSUME TimerAssumption ==
    /\ Kind \in [Observables -> Kinds]
    /\ Mode \in [Observables -> Modes]
    /\ Interval \in [Observables -> Nat]
    /\ Clients \cap Observables = {}
    /\ Caller \in [Observables -> Clients \cup Observables]
    /\ Resolver \in [Observables -> Clients \cup Observables]
    /\ Empty \subseteq Observables
    /\ MayThrow \subseteq Observables
    /\ MayStop \in BOOLEAN

VARIABLES
    call,           \* call[o]: how far the API call that attaches o has come
    b_isRunning,    \* the atomic flag start() sets and stop() clears
    joinable,       \* wait_thread->joinable(): FALSE once it is detached
    v_observables,  \* the vector, as the sequence of the observables it owns
    capacity,       \* v_observables.capacity()
    buffer,         \* number of reallocations: names the current buffer
    pc,             \* where the dispatcher thread is
    it,             \* its iterator: position, buffer it points into, object
    tasks,          \* tasks[o]: async threads of o still alive
    untilNext,      \* untilNext[o]: ticks until nextExecution
    isFinish,       \* the flag toDestroy() reads
    fut,            \* fut[o]: the shared_future that o watches
    retrieved,      \* isFinishedPromise.get_future() was called
    destroyed,      \* observables whose destructor has run
    crash,          \* why the process died, or "none"
    visited,        \* history: observables notified in the current scan
    sinceLaunch,    \* history: ticks since the last launch, up to Interval
    launches        \* history: callbacks launched, up to 2

apiVars  == <<call, b_isRunning, joinable>>
vecVars  == <<v_observables, capacity, buffer>>
objVars  == <<untilNext, isFinish, tasks, fut, retrieved, destroyed>>
histVars == <<visited, sinceLaunch, launches>>
vars     == <<apiVars, vecVars, pc, it, objVars, crash, histVars>>

CallStates == {"none", "start", "detach", "push", "attached", "threw"}
InCall     == {"start", "detach", "push"}
PcStates   == {"unborn", "loop", "while", "wait", "scan", "assign", "get",
               "join", "reap", "drain", "exited"}
FutStates  == {"invalid", "pending", "true", "false", "broken"}
NoObject   == "none"

TypeOK ==
    /\ call \in [Observables -> CallStates]
    /\ b_isRunning \in BOOLEAN
    /\ joinable \in BOOLEAN
    /\ v_observables \in Seq(Observables)
    /\ capacity \in Nat
    /\ buffer \in Nat
    /\ pc \in PcStates
    /\ it \in [pos: Nat \ {0}, buf: Nat, obj: Observables \cup {NoObject}]
    /\ tasks \in [Observables -> SUBSET {"cur", "prev"}]
    /\ untilNext \in [Observables -> Nat]
    /\ isFinish \in [Observables -> BOOLEAN]
    /\ fut \in [Observables -> FutStates]
    /\ retrieved \in [Observables -> BOOLEAN]
    /\ destroyed \subseteq Observables
    /\ crash \in {"none", "segv", "terminate"}
    /\ visited \subseteq Observables
    /\ sinceLaunch \in [Observables -> Nat]
    /\ launches \in [Observables -> 0..2]

Init ==
    /\ call = [o \in Observables |-> "none"]
    /\ b_isRunning = FALSE
    /\ joinable = FALSE
    /\ v_observables = <<>>
    /\ capacity = 0
    /\ buffer = 0
    /\ pc = "unborn"
    /\ it = [pos |-> 1, buf |-> 0, obj |-> NoObject]
    /\ tasks = [o \in Observables |-> {}]
    /\ untilNext = [o \in Observables |-> 0]
    /\ isFinish = [o \in Observables |-> FALSE]
    /\ fut \in [Observables -> {"invalid", "pending"}]
    /\ \A o \in Observables : Kind[o] # "future" => fut[o] = "invalid"
    /\ retrieved = [o \in Observables |-> FALSE]
    /\ destroyed = {}
    /\ crash = "none"
    /\ visited = {}
    /\ sinceLaunch = [o \in Observables |-> 0]
    /\ launches = [o \in Observables |-> 0]

-----------------------------------------------------------------------------
(* The API, as a calling thread runs it.                                   *)

\* A client always runs; a callback runs while one of its tasks is not
\* already inside another API call.
CallerFree(o) ==
    \A p \in Observables : Caller[p] = Caller[o] => call[p] \notin InCall

CallerRuns(o) ==
    Caller[o] \in Observables =>
        /\ tasks[Caller[o]] # {}
        /\ Caller[o] \notin Empty

\* periodicShot, singleShot, futureWatch or Attach is called.  The first
\* call creates the singleton, whose constructor starts the dispatcher.
Call(o) ==
    /\ call[o] = "none"
    /\ CallerFree(o)
    /\ CallerRuns(o)
    /\ call' = [call EXCEPT ![o] = "start"]
    /\ IF pc = "unborn"
         THEN pc' = "loop" /\ joinable' = TRUE
         ELSE UNCHANGED <<pc, joinable>>
    /\ UNCHANGED <<b_isRunning, vecVars, it, objVars, crash, histVars>>

\* start(): the test of b_isRunning.
Start(o) ==
    /\ call[o] = "start"
    /\ call' = [call EXCEPT ![o] = IF b_isRunning THEN "push" ELSE "detach"]
    /\ UNCHANGED <<b_isRunning, joinable, vecVars, pc, it, objVars, crash,
                   histVars>>

\* start(): sets the flag, then detaches; std::thread::detach throws when
\* the thread was detached before, and the flag stays set.
Detach(o) ==
    /\ call[o] = "detach"
    /\ b_isRunning' = TRUE
    /\ joinable' = FALSE
    /\ call' = [call EXCEPT ![o] = IF joinable THEN "push" ELSE "threw"]
    /\ UNCHANGED <<vecVars, pc, it, objVars, crash, histVars>>

\* The observable is constructed, its first execution set one interval
\* ahead, and moved to the back of the vector, which moves to a new buffer
\* when it is full.
PushBack(o) ==
    /\ call[o] = "push"
    /\ v_observables' = Append(v_observables, o)
    /\ IF Len(v_observables) = capacity
         THEN /\ capacity' = IF capacity = 0 THEN 1 ELSE 2 * capacity
              /\ buffer' = buffer + 1
         ELSE UNCHANGED <<capacity, buffer>>
    /\ untilNext' = [untilNext EXCEPT ![o] = Interval[o]]
    /\ sinceLaunch' = [sinceLaunch EXCEPT ![o] = 0]
    /\ call' = [call EXCEPT ![o] = "attached"]
    /\ UNCHANGED <<b_isRunning, joinable, pc, it, isFinish, tasks, fut,
                   retrieved, destroyed, crash, visited, launches>>

\* Slips for the mutation checks: the destructor condition of one class used
\* for another.
toDestroySingleshotOnly(o) == isFinish[o] /\ Mode[o] = "singleshot"
toDestroyFutureOnly(o)     == isFinish[o] /\ Kind[o] = "future"

toDestroy(o) == isFinish[o] /\ (Kind[o] = "future" \/ Mode[o] = "singleshot")

\* push_back, and erase, read and write the end pointer of the vector in
\* separate steps, so two of them may meet in the middle of each other.
Erasing ==
    /\ it.buf = buffer
    /\ it.pos \in 1..Len(v_observables)
    /\ pc = "drain" \/ (pc = "reap" /\ toDestroy(v_observables[it.pos]))

Racing(o) == Erasing \/ \E p \in Observables \ {o} : call[p] = "push"

\* What comes of such a meeting beside one after the other: the new element
\* is overwritten and lost, or an empty unique_ptr (a buffer freed twice)
\* stays behind and the process dies of it.
PushRaces(o) ==
    /\ call[o] = "push"
    /\ Racing(o)
    /\ call' = [call EXCEPT ![o] = "attached"]
    /\ crash' \in {"none", "segv"}
    /\ UNCHANGED <<b_isRunning, joinable, vecVars, pc, it, objVars, histVars>>

\* Timer::stop().
Stop ==
    /\ MayStop
    /\ pc # "unborn"
    /\ b_isRunning' = FALSE
    /\ UNCHANGED <<call, joinable, vecVars, pc, it, objVars, crash, histVars>>

-----------------------------------------------------------------------------
(* The dispatcher thread.                                                  *)

\* Slip: a scan that leaves out the first element.
BeginSecond == [pos |-> 2, buf |-> buffer, obj |-> NoObject]

Begin == [pos |-> 1, buf |-> buffer, obj |-> NoObject]

\* A reallocation since the iterator was taken leaves it in freed memory.
Stale == it.buf # buffer

\* The iterator is valid and there is something under it.
AtElement == ~Stale /\ it.pos \in 1..Len(v_observables)
Element   == v_observables[it.pos]

\* Slip: the inner loop does not test the flag.
LoopForever ==
    /\ pc = "loop"
    /\ pc' = "wait"
    /\ UNCHANGED <<apiVars, vecVars, it, objVars, crash, histVars>>

\* The condition of the inner for loop.  Its count-down from 10 only
\* decides when the outer loop is passed through and changes nothing.
Loop ==
    /\ pc = "loop"
    /\ pc' = IF b_isRunning THEN "wait" ELSE "while"
    /\ UNCHANGED <<apiVars, vecVars, it, objVars, crash, histVars>>

\* The condition of the outer do-while loop, which reads the flag again.
While ==
    /\ pc = "while"
    /\ IF b_isRunning
         THEN pc' = "loop" /\ UNCHANGED it
         ELSE pc' = "drain" /\ it' = Begin
    /\ UNCHANGED <<apiVars, vecVars, objVars, crash, histVars>>

\* cv.wait_for returns, after time / 10 or spuriously, and a scan begins.
Wake ==
    /\ pc = "wait"
    /\ pc' = "scan"
    /\ it' = Begin
    /\ visited' = {}
    /\ UNCHANGED <<apiVars, vecVars, objVars, crash, sinceLaunch, launches>>

EndScan ==
    /\ pc = "scan"
    /\ ~Stale
    /\ it.pos > Len(v_observables)
    /\ pc' = "loop"
    /\ UNCHANGED <<apiVars, vecVars, it, objVars, crash, histVars>>

\* Following an iterator into a freed buffer is undefined: it never equals
\* end() again and the slots it passes over were moved from, so the loop can
\* only end in a fault.
StaleAccess ==
    /\ pc \in {"scan", "reap", "drain"}
    /\ Stale
    /\ crash' = "segv"
    /\ UNCHANGED <<apiVars, vecVars, pc, it, objVars, histVars>>

\* notify() is entered for the observable under the iterator.
Enter(o, next) ==
    /\ pc = "scan"
    /\ AtElement
    /\ Element = o
    /\ pc' = next
    /\ it' = [it EXCEPT !.obj = o]
    /\ visited' = visited \cup {o}

\* notify() of an observable that is not due, or watches no future.
Skip(o) ==
    /\ Enter(o, "reap")
    /\ IF Kind[o] = "future" THEN fut[o] = "invalid" ELSE untilNext[o] > 0
    /\ UNCHANGED <<apiVars, vecVars, objVars, crash, sinceLaunch, launches>>

\* Slips: the next execution not moved on; a single shot not marked.
RearmAtOnce(o) ==
    /\ isFinish' = [isFinish EXCEPT ![o] = @ \/ Mode[o] = "singleshot"]
    /\ UNCHANGED untilNext

RearmAlways(o) ==
    untilNext' = [untilNext EXCEPT ![o] = Interval[o]] /\ UNCHANGED isFinish

\* What a launch leaves behind once std::async has returned: a continuous
\* observable is due again one interval from now, a single shot is finished.
Rearm(o) ==
    IF Mode[o] = "continuous"
      THEN untilNext' = [untilNext EXCEPT ![o] = Interval[o]]
           /\ UNCHANGED isFinish
      ELSE isFinish' = [isFinish EXCEPT ![o] = TRUE]
           /\ UNCHANGED untilNext

\* std::async: a new thread runs the callback; one still running from the
\* launch before goes on beside it.
Spawn(o) ==
    /\ tasks' = [tasks EXCEPT ![o] =
                   {"cur"} \cup IF "cur" \in @ THEN {"prev"} ELSE {}]
    /\ launches' = [launches EXCEPT ![o] = IF @ < 2 THEN @ + 1 ELSE 2]
    /\ sinceLaunch' = [sinceLaunch EXCEPT ![o] = 0]

\* SlotObservable::notify() of a due observable: the future of std::async is
\* a local, so the dispatcher goes on to wait for the callback.
LaunchSlot(o) ==
    /\ Enter(o, "join")
    /\ Kind[o] = "slot"
    /\ untilNext[o] = 0
    /\ Spawn(o)
    /\ Rearm(o)
    /\ UNCHANGED <<apiVars, vecVars, fut, retrieved, destroyed, crash>>

\* TimerObservable::notify() of a due observable: std::async starts the new
\* thread before its future is assigned to isFinished.
LaunchTimer(o) ==
    /\ Enter(o, "assign")
    /\ Kind[o] = "timer"
    /\ untilNext[o] = 0
    /\ Spawn(o)
    /\ UNCHANGED <<apiVars, vecVars, untilNext, isFinish, fut, retrieved,
                   destroyed, crash>>

\* Slip: the previous task is not waited for.
PrevIgnored(o) == TRUE

\* The assignment drops the previous future, whose state waits for the
\* previous callback to return.
PrevDone(o) == "prev" \notin tasks[o]

Assign(o) ==
    /\ pc = "assign"
    /\ it.obj = o
    /\ PrevDone(o)
    /\ Rearm(o)
    /\ pc' = "reap"
    /\ UNCHANGED <<apiVars, vecVars, it, tasks, fut, retrieved, destroyed,
                   crash, histVars>>

\* FutureObservable::notify() enters sfut.get().
Watch(o) ==
    /\ Enter(o, "get")
    /\ Kind[o] = "future"
    /\ fut[o] # "invalid"
    /\ UNCHANGED <<apiVars, vecVars, objVars, crash, sinceLaunch, launches>>

\* Slip: a wait with a time limit.
GetUntilTimeout(o) ==
    /\ pc = "get"
    /\ it.obj = o
    /\ pc' = "reap"
    /\ UNCHANGED <<apiVars, vecVars, it, objVars, crash, histVars>>

\* sfut.get() returns once the future is ready.  FALSE: nothing to do yet or
\* ever.  TRUE: isFinishedPromise.get_future() and std::async.
Get(o) ==
    /\ pc = "get"
    /\ it.obj = o
    /\ \/ /\ fut[o] = "false"
          /\ pc' = "reap"
          /\ UNCHANGED <<tasks, retrieved, sinceLaunch, launches>>
       \/ /\ fut[o] = "true"
          /\ ~retrieved[o]
          /\ pc' = "join"
          /\ retrieved' = [retrieved EXCEPT ![o] = TRUE]
          /\ Spawn(o)
    /\ UNCHANGED <<apiVars, vecVars, it, untilNext, isFinish, fut, destroyed,
                   crash, visited>>

\* get() rethrows the exception of a broken promise, and a second
\* get_future() throws: nothing in the dispatcher thread catches either.
GetThrows(o) ==
    /\ pc = "get"
    /\ it.obj = o
    /\ fut[o] = "broken" \/ (fut[o] = "true" /\ retrieved[o])
    /\ crash' = "terminate"
    /\ UNCHANGED <<apiVars, vecVars, pc, it, objVars, histVars>>

\* Slip: the future is kept in a member, as the commented-out line did.
NotJoined(o) == TRUE

\* The destructor of the local future waits for the callback to return.
Joined(o) == tasks[o] = {}

Join(o) ==
    /\ pc = "join"
    /\ it.obj = o
    /\ Joined(o)
    /\ pc' = "reap"
    /\ UNCHANGED <<apiVars, vecVars, it, objVars, crash, histVars>>

\* toDestroy() is FALSE: on to the next element.
Keep(o) ==
    /\ pc = "reap"
    /\ AtElement
    /\ Element = o
    /\ ~toDestroy(o)
    /\ pc' = "scan"
    /\ it' = [it EXCEPT !.pos = @ + 1, !.obj = NoObject]
    /\ UNCHANGED <<apiVars, vecVars, objVars, crash, histVars>>

\* Slip: the observable holds no future.
DestructibleAtOnce(o) == TRUE

\* ~TimerObservable drops isFinished and so waits for the current callback;
\* the other two classes hold no future that waits.
Destructible(o) == Kind[o] = "timer" => "cur" \notin tasks[o]

\* Slips: erase(it) and it++, erase(it--) without it++, and begin() again.
AfterEraseSkips    == [it EXCEPT !.pos = @ + 1, !.obj = NoObject]
AfterEraseBack     == [it EXCEPT !.pos = @ - 1, !.obj = NoObject]
AfterEraseRestarts == [it EXCEPT !.pos = 1, !.obj = NoObject]

\* erase(it--) followed by it++: the element that moved up is next.
AfterErase == [it EXCEPT !.obj = NoObject]

Destroy(o) ==
    /\ pc = "reap"
    /\ AtElement
    /\ Element = o
    /\ toDestroy(o)
    /\ Destructible(o)
    /\ v_observables' = RemoveAt(v_observables, it.pos)
    /\ destroyed' = destroyed \cup {o}
    /\ pc' = "scan"
    /\ it' = AfterErase
    /\ UNCHANGED <<apiVars, capacity, buffer, untilNext, isFinish, tasks, fut,
                   retrieved, crash, histVars>>

\* The loop after the do-while erases what is left from the front.
Drain(o) ==
    /\ pc = "drain"
    /\ AtElement
    /\ Element = o
    /\ Destructible(o)
    /\ v_observables' = Tail(v_observables)
    /\ destroyed' = destroyed \cup {o}
    /\ UNCHANGED <<apiVars, capacity, buffer, pc, it, untilNext, isFinish,
                   tasks, fut, retrieved, crash, histVars>>

Exit ==
    /\ pc = "drain"
    /\ ~Stale
    /\ v_observables = <<>>
    /\ pc' = "exited"
    /\ UNCHANGED <<apiVars, vecVars, it, objVars, crash, histVars>>

Notify(o) ==
    \/ Skip(o) \/ LaunchSlot(o) \/ LaunchTimer(o) \/ Assign(o)
    \/ Watch(o) \/ Get(o) \/ GetThrows(o) \/ Join(o)

Dispatcher ==
    \/ Loop \/ While \/ Wake \/ EndScan \/ StaleAccess \/ Exit
    \/ \E o \in Observables : Notify(o) \/ Keep(o) \/ Destroy(o) \/ Drain(o)

-----------------------------------------------------------------------------
(* Callbacks, futures and the clock.                                       *)

\* Callbacks do not leave while a call of theirs is in progress, nor before
\* they have fulfilled the promises that are theirs to fulfil.
MayReturn(o) ==
    /\ \A p \in Observables : Caller[p] = o => call[p] \notin InCall
    /\ \A p \in Observables :
         Resolver[p] = o /\ o \notin Empty => fut[p] # "pending"

\* A callback may leave by an exception of its own or by the one that an API
\* call of its threw; std::async keeps it in a future nobody reads.
MayFail(o) ==
    \/ o \in MayThrow
    \/ \E p \in Observables : Caller[p] = o /\ call[p] = "threw"

\* FutureObservable sets isFinish after its function returned; set_value is
\* called twice and throws the second time, also into the unread future.
Return(o, t) ==
    /\ t \in tasks[o]
    /\ MayReturn(o)
    /\ tasks' = [tasks EXCEPT ![o] = @ \ {t}]
    /\ isFinish' = [isFinish EXCEPT ![o] =
                      @ \/ (Kind[o] = "future" /\ o \notin Empty)]
    /\ UNCHANGED <<apiVars, vecVars, pc, it, untilNext, fut, retrieved,
                   destroyed, crash, histVars>>

Fail(o, t) ==
    /\ t \in tasks[o]
    /\ o \notin Empty
    /\ MayReturn(o)
    /\ MayFail(o)
    /\ tasks' = [tasks EXCEPT ![o] = @ \ {t}]
    /\ UNCHANGED <<apiVars, vecVars, pc, it, untilNext, isFinish, fut,
                   retrieved, destroyed, crash, histVars>>

\* The promise behind a watched future is fulfilled, by a client at any time
\* or by a callback while it runs, or is abandoned by a client.
Resolve(o) ==
    /\ fut[o] = "pending"
    /\ \/ /\ Resolver[o] \in Clients
          /\ \E s \in {"true", "false", "broken"} :
                fut' = [fut EXCEPT ![o] = s]
       \/ /\ Resolver[o] \in Observables \ Empty
          /\ tasks[Resolver[o]] # {}
          /\ fut' = [fut EXCEPT ![o] = "true"]
    /\ UNCHANGED <<apiVars, vecVars, pc, it, untilNext, isFinish, tasks,
                   retrieved, destroyed, crash, histVars>>

Tick ==
    /\ untilNext' = [o \in Observables |->
                       IF untilNext[o] > 0 THEN untilNext[o] - 1 ELSE 0]
    /\ sinceLaunch' = [o \in Observables |->
                         IF sinceLaunch[o] < Interval[o]
                           THEN sinceLaunch[o] + 1 ELSE sinceLaunch[o]]
    /\ UNCHANGED <<apiVars, vecVars, pc, it, isFinish, tasks, fut, retrieved,
                   destroyed, crash, visited, launches>>

-----------------------------------------------------------------------------

Attach(o) == Start(o) \/ Detach(o) \/ PushBack(o) \/ PushRaces(o)
Api(o)    == Call(o) \/ Attach(o)
Task(o)   == \E t \in {"cur", "prev"} : Return(o, t) \/ Fail(o, t)

Next ==
    \/ /\ crash = "none"
       /\ \/ Stop
          \/ Dispatcher
          \/ \E o \in Observables : Api(o) \/ Task(o) \/ Resolve(o)
    \/ Tick

Spec == Init /\ [][Next]_vars

\* The operating system runs every thread that can run; a call that was made
\* goes on; a callback returns, after fulfilling the promises that are its
\* to fulfil.  Nobody is obliged to call the API, to stop the timer or to
\* fulfil a promise from outside.
Fairness ==
    /\ WF_vars(crash = "none" /\ Dispatcher)
    /\ WF_vars(Tick)
    /\ \A o \in Observables :
         /\ WF_vars(crash = "none" /\ Attach(o))
         /\ WF_vars(crash = "none" /\ \E t \in {"cur", "prev"} : Return(o, t))
         /\ WF_vars(crash = "none" /\ Resolver[o] \in Observables /\ Resolve(o))

FairSpec == Spec /\ Fairness

-----------------------------------------------------------------------------
(* What the users of the timer rely on.                                    *)

\* Callbacks given to periodicShot, singleShot and futureWatch never run
\* beside each other: one runs only while the dispatcher waits for it in
\* notify().  The callbacks of example/simplemonitor share variables of
\* main() without a lock because of this.
SlotCallbacksSerial ==
    \A o \in Observables :
        Kind[o] # "timer" /\ tasks[o] # {} => pc = "join" /\ it.obj = o

\* Update() of one ITimerObserver runs beside an earlier Update() of the
\* same one only from std::async to the assignment to isFinished, while the
\* dispatcher waits for the earlier one: never three at once.
OverlapIsBounded ==
    \A o \in Observables :
        "prev" \in tasks[o] => pc = "assign" /\ it.obj = o /\ Kind[o] = "timer"

\* No callback outlives the observable whose `this` it captured, whichever
\* of reset, erase and the last loop of the dispatcher destroys it.
CallbackOwnerAlive ==
    \A o \in Observables : tasks[o] # {} => o \notin destroyed

\* erase(it--) and elements pushed meanwhile notwithstanding, a scan that
\* reaches end() has notified every observable in the vector.
ScanVisitsAll ==
    pc = "scan" /\ ~Stale /\ it.pos > Len(v_observables)
        => Range(v_observables) \subseteq visited

\* The same scan never notifies one observable twice.
NotifiedOncePerScan ==
    [][pc = "scan" /\ pc' \in {"reap", "join", "get", "assign"}
         => it'.obj \notin visited]_vars

\* A single shot is launched at most once, although its observable stays in
\* the vector while it is launched; a watched future is acted on once.
FiresOnce ==
    \A o \in Observables :
        Mode[o] = "singleshot" \/ Kind[o] = "future" => launches[o] <= 1

\* Neither the first launch of an observable nor the next one comes sooner
\* than its interval after the attach or the launch before.
SpacedByInterval ==
    [][\A o \in Observables :
         pc = "scan" /\ pc' \in {"join", "assign"} /\ it'.obj = o
           => sinceLaunch[o] >= Interval[o]]_vars

\* The only exceptions that leave the dispatcher thread, and so end the
\* process, are those of a watched future: a broken promise, or a second
\* get_future() after a callback that never came to set isFinish.
TerminateOnlyByFuture ==
    crash = "terminate" =>
        /\ pc = "get"
        /\ Kind[it.obj] = "future"
        /\ \/ fut[it.obj] = "broken"
           \/ launches[it.obj] = 1 /\ ~isFinish[it.obj]

\* futureWatch() on a future that a callback of this timer was to fulfil:
\* the dispatcher waits for a callback only it can launch, and nothing that
\* any thread does later ends the wait.
SelfWait ==
    /\ pc = "get"
    /\ fut[it.obj] = "pending"
    /\ Resolver[it.obj] \in Observables
    /\ tasks[Resolver[it.obj]] = {}

SelfWaitIsForever == [][SelfWait => SelfWait']_vars

\* The dispatcher is inside sfut.get() of a future nobody has fulfilled.
Held == pc = "get" /\ fut[it.obj] = "pending"

\* An observable that is due is launched in the end, unless the timer is
\* stopped, the process dies or sfut.get() holds the dispatcher: no number
\* of other observables, of erasures or of slow callbacks starves it.
DueIsLaunched ==
    \A o \in Observables :
        (/\ o \in Range(v_observables)
         /\ Kind[o] # "future"
         /\ untilNext[o] = 0
         /\ Mode[o] = "singleshot" => launches[o] = 0)
          ~> (tasks[o] # {} \/ ~b_isRunning \/ pc = "drain" \/ pc = "exited"
                \/ crash # "none" \/ Held)

\* A single shot that was launched is destroyed in the end, with the same
\* exceptions: the vector does not grow with every singleShot().
SpentIsDestroyed ==
    \A o \in Observables :
        launches[o] > 0 /\ Mode[o] = "singleshot" /\ Kind[o] # "future"
          ~> o \in destroyed \/ crash # "none" \/ Held

\* After stop() the dispatcher thread ends, unless another attach starts the
\* timer again first.
StopEndsDispatcher ==
    (pc # "unborn" /\ ~b_isRunning)
      ~> (pc = "exited" \/ b_isRunning \/ crash # "none" \/ Held)

\* example/simplemonitor/Readme.md: the values are taken "at a interval of 1
\* second", so an observable that was attached fires if nobody stops the
\* timer.  (The constructor starts the dispatcher before start() sets the
\* flag that keeps the dispatcher running.)
AttachedFires ==
    \A o \in Observables : call[o] = "attached" ~> launches[o] > 0 \/ crash # "none"

-----------------------------------------------------------------------------
(* The threads, the vector and its iterator implement the service.         *)

PhaseOf(o) ==
    IF o \in destroyed THEN "retired"
    ELSE IF o \in Range(v_observables) THEN "armed" ELSE "free"

RunningOf(o) == IF tasks[o] = {} THEN 0
                ELSE IF tasks[o] = {"cur", "prev"} THEN 2 ELSE 1

Service == INSTANCE TimerService WITH
    phase   <- [o \in Observables |-> PhaseOf(o)],
    running <- [o \in Observables |-> RunningOf(o)],
    elapsed <- sinceLaunch,
    fired   <- launches

\* Every run of the timer is a run of the service: no launch early, twice or
\* beside a callback it must not run beside, no observable destroyed under
\* its callback.
ImplementsService == Service!ServiceSpec

=============================================================================
