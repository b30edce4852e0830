----------------------------- MODULE SysMonitor -----------------------------
(***************************************************************************)
(* The websocket service of example/LinuxSystemMonitor_WebsocketService:   *)
(* linuxsysmonitor's detached worker thread samples the system and calls   *)
(* Update() of every observer in a std::list, while the thread of the      *)
(* event loop opens, serves and closes sockets and so adds observers to    *)
(* the list, removes them and frees them.  No lock is taken by either.     *)
(*                                                                         *)
(* A list node is named by the socket whose observer it holds: a socket is *)
(* attached once in its life, and a new connection may be given the memory *)
(* of an old one.  The event loop (uWebSockets) runs one handler at a time.*)
(***************************************************************************)
EXTENDS SequencesExt

CONSTANTS
    Sockets,        \* the connections there may be, each with PerSocketData
    SampleFails,    \* whether reading or parsing /proc may throw
    ListenFails,    \* whether the port may be taken
    MayStop         \* whether setRunB(false) is called

End == "end"

ASSUME SysMonitorAssumption ==
    /\ End \notin Sockets
    /\ {SampleFails, ListenFails, MayStop} \subseteq BOOLEAN

VARIABLES
    list_observer_, \* the std::list, as the sequence of its nodes
    run_b,          \* the atomic flag of the worker's loop
    worker,         \* where the worker thread is
    elem,           \* the node its iterator is at, or End
    loop,           \* where the thread of the event loop is
    ws,             \* the socket whose handler it runs
    alive,          \* the sockets whose PerSocketData exists
    crash,          \* why the process ended, or "none"
    served,         \* history: attached sockets updated in this round
    undefined       \* history: a node was freed while the worker was at it

loopVars == <<loop, ws, alive>>
vars     == <<list_observer_, run_b, worker, elem, loopVars, crash, served,
              undefined>>

Attached == Range(list_observer_)
Place(n) == CHOOSE i \in DOMAIN list_observer_ : list_observer_[i] = n

WorkerStates == {"sleep", "sample", "begin", "test", "send", "next", "exited"}
LoopStates   == {"listen", "idle", "attach", "greet", "echo", "detach",
                 "destroy", "down"}

\* The worker is in the loop of Notify().
InRound == worker \in {"test", "send", "next"}

TypeOK ==
    /\ list_observer_ \in Seq(Sockets)
    /\ run_b \in BOOLEAN
    /\ worker \in WorkerStates
    /\ elem \in Sockets \cup {End}
    /\ loop \in LoopStates
    /\ ws \in Sockets \cup {End}
    /\ alive \subseteq Sockets
    /\ crash \in {"none", "segv", "terminate", "returned"}
    /\ served \subseteq Sockets
    /\ undefined \in BOOLEAN

Init ==
    /\ list_observer_ = <<>>
    /\ run_b = TRUE
    /\ worker = "sleep"
    /\ elem = End
    /\ loop = "listen"
    /\ ws = End
    /\ alive = {}
    /\ crash = "none"
    /\ served = {}
    /\ undefined = FALSE

-----------------------------------------------------------------------------
(* The worker thread.                                                      *)

AwakeForever ==
    /\ worker = "sleep"
    /\ worker' = "sample"
    /\ UNCHANGED <<list_observer_, run_b, elem, loopVars, crash, served,
                   undefined>>

\* Awake from the first three seconds or from the interval: the test of run_b.
Awake ==
    /\ worker = "sleep"
    /\ worker' = IF run_b THEN "sample" ELSE "exited"
    /\ UNCHANGED <<list_observer_, run_b, elem, loopVars, crash, served,
                   undefined>>

\* getlinuxSysMonitoringData() and to_json(); an exception of either leaves
\* the thread.
Sample ==
    /\ worker = "sample"
    /\ \/ worker' = "begin" /\ UNCHANGED crash
       \/ SampleFails /\ crash' = "terminate" /\ UNCHANGED worker
    /\ UNCHANGED <<list_observer_, run_b, elem, loopVars, served, undefined>>

FirstNodeBehind == IF Len(list_observer_) < 2 THEN End ELSE list_observer_[2]

FirstNode == IF list_observer_ = <<>> THEN End ELSE Head(list_observer_)

\* Notify(): list_observer_.begin().
Begin ==
    /\ worker = "begin"
    /\ elem' = FirstNode
    /\ served' = {}
    /\ worker' = "test"
    /\ UNCHANGED <<list_observer_, run_b, loopVars, crash, undefined>>

\* The iterator equals end(): the round is over.
EndRound ==
    /\ worker = "test"
    /\ elem = End
    /\ worker' = "sleep"
    /\ UNCHANGED <<list_observer_, run_b, elem, loopVars, crash, served,
                   undefined>>

\* elem->Update(obj) is entered.  In a node freed meanwhile the pointer to
\* the observer may still be there, or anything else.
Update ==
    /\ worker = "test"
    /\ elem # End
    /\ \/ worker' = "send" /\ UNCHANGED crash
       \/ elem \notin Attached /\ crash' = "segv" /\ UNCHANGED worker
    /\ UNCHANGED <<list_observer_, run_b, elem, loopVars, served, undefined>>

\* send() returns.  The observer and its socket may be gone.
Sent ==
    /\ worker = "send"
    /\ \/ /\ worker' = "next"
          /\ served' = served \cup {elem}
          /\ UNCHANGED crash
       \/ /\ elem \notin alive
          /\ crash' = "segv"
          /\ UNCHANGED <<worker, served>>
    /\ UNCHANGED <<list_observer_, run_b, elem, loopVars, undefined>>

SuccessorIsFirst(n) == FirstNode

\* The node behind n.
Successor(n) ==
    IF Place(n) = Len(list_observer_) THEN End ELSE list_observer_[Place(n) + 1]

\* ++it.  The link in a freed node leads to where it led, to whatever its
\* memory has become, or out of the program's memory.
Advance ==
    /\ worker = "next"
    /\ \/ /\ elem' \in IF elem \in Attached THEN {Successor(elem)}
                                          ELSE Attached \cup {End}
          /\ worker' = "test"
          /\ UNCHANGED crash
       \/ /\ elem \notin Attached
          /\ crash' = "segv"
          /\ UNCHANGED <<elem, worker>>
    /\ UNCHANGED <<list_observer_, run_b, loopVars, served, undefined>>

\* setRunB(false), by whoever holds the monitor.
setRunB ==
    /\ MayStop
    /\ run_b' = FALSE
    /\ UNCHANGED <<list_observer_, worker, elem, loopVars, crash, served,
                   undefined>>

-----------------------------------------------------------------------------
(* The thread of the event loop.                                           *)

\* listen() succeeds, or run() has nothing to wait for and returns, and
\* main() destroys the bridge and with it the monitor.
Listen ==
    /\ loop = "listen"
    /\ loop' \in {"idle"} \cup IF ListenFails THEN {"down"} ELSE {}
    /\ UNCHANGED <<list_observer_, run_b, worker, elem, ws, alive, crash,
                   served, undefined>>

\* main() returns and takes the detached worker with it, unless that has
\* used the monitor's freed members and faulted first.
Return ==
    /\ loop = "down"
    /\ crash' \in {"returned"} \cup IF worker = "exited" THEN {} ELSE {"segv"}
    /\ UNCHANGED <<list_observer_, run_b, worker, elem, loopVars, served,
                   undefined>>

\* .open: setConnectedWebsocket() stores the socket, ...
Open(s) ==
    /\ loop = "idle"
    /\ s \notin alive
    /\ loop' = "attach"
    /\ ws' = s
    /\ alive' = alive \cup {s}
    /\ UNCHANGED <<list_observer_, run_b, worker, elem, crash, served,
                   undefined>>

PushedInFront(s) == <<s>> \o list_observer_
NotPushed(s)     == list_observer_

Pushed(s) == Append(list_observer_, s)

\* ... attaches the observer at the back of the list, ...
Attach ==
    /\ loop = "attach"
    /\ list_observer_' = Pushed(ws)
    /\ loop' = "greet"
    /\ UNCHANGED <<run_b, worker, elem, ws, alive, crash, served, undefined>>

\* ... and sends a greeting.
Greet ==
    /\ loop = "greet"
    /\ loop' = "idle"
    /\ UNCHANGED <<list_observer_, run_b, worker, elem, ws, alive, crash,
                   served, undefined>>

\* .message: the text is sent back.
Message(s) ==
    /\ loop = "idle"
    /\ s \in alive
    /\ loop' = "echo"
    /\ ws' = s
    /\ UNCHANGED <<list_observer_, run_b, worker, elem, alive, crash, served,
                   undefined>>

Echo ==
    /\ loop = "echo"
    /\ loop' = "idle"
    /\ UNCHANGED <<list_observer_, run_b, worker, elem, ws, alive, crash,
                   served, undefined>>

\* .close: shutdown() is entered, ...
Close(s) ==
    /\ loop = "idle"
    /\ s \in alive
    /\ loop' = "detach"
    /\ ws' = s
    /\ UNCHANGED <<list_observer_, run_b, worker, elem, alive, crash, served,
                   undefined>>

NotRemoved(s) == list_observer_

\* The one node that holds the observer of s, if it is there.
Removed(s) ==
    IF s \notin Attached THEN list_observer_
    ELSE RemoveAt(list_observer_, Place(s))

\* ... list_observer_.remove() unlinks and frees the node, ...
Detach ==
    /\ loop = "detach"
    /\ list_observer_' = Removed(ws)
    /\ served' = served \ {ws}
    /\ undefined' = (undefined \/ (InRound /\ elem = ws))
    /\ loop' = "destroy"
    /\ UNCHANGED <<run_b, worker, elem, ws, alive, crash>>

\* ... and the event loop frees the socket with its PerSocketData.
Destroy ==
    /\ loop = "destroy"
    /\ alive' = alive \ {ws}
    /\ loop' = "idle"
    /\ UNCHANGED <<list_observer_, run_b, worker, elem, ws, crash, served,
                   undefined>>

-----------------------------------------------------------------------------

Worker  == Awake \/ Sample \/ Begin \/ EndRound \/ Update \/ Sent \/ Advance
Handler == Listen \/ Return \/ Attach \/ Greet \/ Echo \/ Detach \/ Destroy
Event   == \E s \in Sockets : Open(s) \/ Message(s) \/ Close(s)

Next == crash = "none" /\ (Worker \/ Handler \/ Event \/ setRunB)

Spec == Init /\ [][Next]_vars

\* Both threads go on running, and sleeps and sends come to an end; nobody
\* is obliged to connect, to write or to close.
Fairness == WF_vars(crash = "none" /\ Worker) /\ WF_vars(crash = "none" /\ Handler)

FairSpec == Spec /\ Fairness

-----------------------------------------------------------------------------

\* The list holds the observer of every open socket once and no other:
\* between two handlers no entry points to a freed PerSocketData and no open
\* socket is left out, whatever order sockets open and close in.
ListIsOpenSockets ==
    /\ IsInjective(list_observer_)
    /\ Attached = alive \ (IF loop \in {"attach", "destroy"} THEN {ws} ELSE {})

\* The worker is at node i, and of the nodes in the list those in front of it
\* have been served, and node i itself once send() has returned.
At(i) ==
    /\ elem = list_observer_[i]
    /\ \A j \in 1..Len(list_observer_) :
         list_observer_[j] \in served <=> j < i \/ (j = i /\ worker = "next")

\* However sockets come and go, the observers served in a round are those in
\* front of the worker and no other, unless a node was ever freed under it.
ServedAreInFront ==
    ~undefined =>
        /\ served \subseteq Attached
        /\ InRound => \/ worker = "test" /\ elem = End
                      \/ \E i \in 1..Len(list_observer_) : At(i)

\* Readme.md: a sample "will be sent to all connected websockets".  When the
\* worker reaches end(), every observer then in the list has had its Update,
\* those attached since the round began included, however others came and
\* went, unless one was ever freed under the worker.
RoundServesAll ==
    [][worker = "next" /\ elem' = End /\ worker' = "test" /\ ~undefined
         => Attached \subseteq served]_vars

\* No observer gets one sample twice while it stays attached.
ServedOncePerRound ==
    [][worker = "test" /\ worker' = "send" /\ ~undefined
         => elem \notin served]_vars

\* What ends the obligation to serve socket s.
Excused(s) == s \notin alive \/ crash # "none" \/ undefined

Serving(s) == worker = "send" /\ elem = s

\* A sample is sent to every socket attached when it was taken: others that
\* come and go cannot keep the round from reaching it.
SampleReachesAll ==
    \A s \in Sockets :
        s \in Attached /\ worker = "sample" ~> Serving(s) \/ Excused(s)

\* A socket that has opened and stays open gets a first Update while the
\* monitor runs, whatever the worker was doing when it was attached.
OpenIsServed ==
    \A s \in Sockets :
        loop = "attach" /\ ws = s ~> Serving(s) \/ Excused(s) \/ ~run_b

\* setRunB(false) ends the worker's loop, once sockets have ceased to open and
\* close: a round may be kept from its end for as long as they do.
StopEndsWorker ==
    (\E S \in SUBSET Sockets : <>[](alive = S))
        => (~run_b ~> worker = "exited" \/ crash # "none" \/ undefined)

\* Readme.md: "Data between these two threads are transferred via observer
\* pattern and mutex lock."  With the lock the worker would never hold an
\* observer or a list node that the event loop has freed.
ObserverIsAttached == InRound => elem \in Attached \cup {End}

=============================================================================
