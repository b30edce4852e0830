---------------------------- MODULE SystemUtil ------------------------------
(***************************************************************************)
(* lib/linux_systemutil: the functions of linuxUtil that act on processes. *)
(* A controlling program looks for an application by name, kills it by the *)
(* number it has found, and pings a device; the application makes itself a *)
(* daemon at the same time.  The kernel's table of processes is shared by  *)
(* all, and other processes start, change their program and end in it.     *)
(*                                                                         *)
(* A number that is free may be given to any new process.  A process whose *)
(* parent does not wait for it stays in the table after its end, a zombie. *)
(***************************************************************************)
EXTENDS Integers, FiniteSets

CONSTANTS
    Pids,           \* the numbers a process can have, 1..n
    MaxFiles        \* the pipes the controlling program can have open

ASSUME SystemUtilAssumption ==
    /\ IsFiniteSet(Pids) /\ Pids = 1..Cardinality(Pids)
    /\ MaxFiles \in Nat \ {0}

VARIABLES
    procs,          \* procs[p]: the name in /proc/<p>/cmdline
    stage,          \* stage[p]: where p is in startAppAsDaemon()
    pc,             \* where the controlling program is
    entries,        \* the numbers readdir() has in store, the least first
    cursor,         \* the number it goes on from
    pid,            \* pid of getProcIdByName(), -1 for none
    pipes,          \* pipes that are open
    ping,           \* the process at the other end of the last one, or None
    output,         \* what that process has written
    steady,         \* history: who bore the name sought ever since the call,
    unread,         \* whose name could not be read then, though it was that,
    turned,         \* and if the process that was found is another since
    silent          \* history: calls of isDeviceOnline() without a verdict

findVars == <<entries, cursor, pid, steady, unread, turned>>
pingVars == <<pipes, ping, output, silent>>
vars     == <<procs, stage, pc, findVars, pingVars>>

Free     == "free"              \* no process has the number
procName == "app"               \* the name that is sought
Zombie   == "zombie"            \* has ended; its cmdline is empty
Names    == {procName, "other", "ping"}
None     == 0
Stages   == {"none", "main", "exit", "child", "leader", "second", "true", "false"}
Outputs  == {"nothing", "1 received", "100% packet loss", "neither"}

TypeOK ==
    /\ procs \in [Pids -> Names \cup {Free, Zombie}]
    /\ stage \in [Pids -> Stages]
    /\ \A p \in Pids : stage[p] # "none" => procs[p] = procName
    /\ pc \in {"idle", "dir", "have", "ping"}
    /\ entries \subseteq Pids
    /\ cursor \in 1..(Cardinality(Pids) + 1)
    /\ pid \in Pids \cup {-1}
    /\ pipes \in 0..MaxFiles
    /\ ping \in Pids \cup {None}
    /\ output \in Outputs
    /\ steady \subseteq Pids /\ unread \subseteq Pids
    /\ turned \in BOOLEAN
    /\ silent \in 0..MaxFiles

Named == {p \in Pids : procs[p] = procName}
Live  == {p \in Pids : procs[p] # Free}
Zombies == {p \in Pids : procs[p] = Zombie}

\* The application has one process, others may bear its name.
Init ==
    /\ procs \in [Pids -> {Free, procName, "other"}]
    /\ \E p \in Named : stage = [q \in Pids |-> IF q = p THEN "main" ELSE "none"]
    /\ pc = "idle"
    /\ entries = {} /\ cursor = 1 /\ pid = -1
    /\ steady = {} /\ unread = {} /\ turned = FALSE
    /\ pipes = 0 /\ ping = None /\ output = "nothing" /\ silent = 0

\* The table changes to t, the stages of the application's processes to s.
Becomes(t, s) ==
    /\ procs' = t
    /\ stage' = s

\* Who bore the name ever since still does; the one that was found may not.
KeepSteady ==
    /\ steady' = {p \in steady : procs'[p] = procName}
    /\ turned' = (turned \/ pid \in steady \ steady')

-----------------------------------------------------------------------------
(* Other processes.                                                        *)

Others == {p \in Pids : procs[p] \in {procName, "other"} /\ stage[p] = "none"}

Start(p, n) ==
    /\ procs[p] = Free
    /\ procs' = [procs EXCEPT ![p] = n]
    /\ UNCHANGED <<stage, pc, findVars, pingVars>>

Exec(p, n) ==
    /\ p \in Others
    /\ procs' = [procs EXCEPT ![p] = n]
    /\ KeepSteady
    /\ UNCHANGED <<stage, pc, entries, cursor, pid, unread, pingVars>>

End(p) ==
    /\ p \in Others
    /\ procs' = [procs EXCEPT ![p] = Free]
    /\ KeepSteady
    /\ UNCHANGED <<stage, pc, entries, cursor, pid, unread, pingVars>>

-----------------------------------------------------------------------------
(* getProcIdByName() and killProcessById().                                *)

\* Slip: the number that was found by the search before is kept.
NoPidStale == pid

\* What a search begins with, and returns if it finds nothing.
NoPid == -1

\* opendir(); when it fails, no process is found.
OpenDir ==
    /\ pc \in {"idle", "have"}
    /\ pid' = NoPid
    /\ steady' = Named
    /\ turned' = FALSE
    /\ entries' = {}
    /\ cursor' = 1
    /\ \/ pc' = "dir"  /\ unread' = {}
       \/ pc' = "have" /\ unread' = Named
    /\ UNCHANGED <<procs, stage, pingVars>>

\* readdir() has given all it had in store, and gets the processes there are
\* up to some number; they may end or change before their turn comes.
ReadDir ==
    /\ pc = "dir"
    /\ entries = {}
    /\ \E last \in Pids :
         /\ last >= cursor
         /\ entries' = Live \cap cursor..last
         /\ cursor' = last + 1
    /\ UNCHANGED <<procs, stage, pc, pid, steady, unread, turned, pingVars>>

\* The end of the directory.
EndDir ==
    /\ pc = "dir"
    /\ entries = {}
    /\ cursor \notin Pids
    /\ pc' = "have"
    /\ UNCHANGED <<procs, stage, findVars, pingVars>>

\* The entry that readdir() returns.
First == CHOOSE p \in entries : \A q \in entries : p <= q

\* Slip: the entry next to it is passed over.
RestSkips == entries \ {First, First + 1}

\* The entries for the rounds to come.
Rest == entries \ {First}

\* The command line of the next one, empty if that process has ended or if
\* the file cannot be opened: then it is passed over whatever its name.
ReadCmdLine ==
    /\ pc = "dir"
    /\ entries # {}
    /\ \/ /\ procs[First] = procName
          /\ pid' = First
          /\ pc' = "have"
          /\ steady' = steady \cup {First}
          /\ UNCHANGED unread
       \/ /\ unread' = unread \cup (Named \cap {First})
          /\ UNCHANGED <<pid, pc, steady>>
    /\ entries' = Rest
    /\ UNCHANGED <<procs, stage, cursor, turned, pingVars>>

\* Whom killProcessById() sends a signal; for -1 it throws.
Victims == IF pid = -1 THEN {} ELSE {pid}

\* A signal may be refused, and there may be no such process: both throw.
Kill ==
    /\ pc = "have"
    /\ \/ UNCHANGED <<procs, stage>>
       \/ Becomes([p \in Pids |-> IF p \in Victims /\ procs[p] \in Names
                                    THEN Free ELSE procs[p]],
                  [p \in Pids |-> IF p \in Victims THEN "none" ELSE stage[p]])
    /\ pc' = "idle"
    /\ steady' = {} /\ unread' = {} /\ turned' = FALSE
    /\ UNCHANGED <<entries, cursor, pid, pingVars>>

-----------------------------------------------------------------------------
(* isDeviceOnline().                                                       *)

\* popen(), and the two seconds of sleep.  It needs a pipe and a process.
Popen ==
    /\ pc = "idle"
    /\ IF pipes < MaxFiles /\ Live # Pids
         THEN /\ \E p \in Pids \ Live :
                   /\ procs' = [procs EXCEPT ![p] = "ping"]
                   /\ ping' = p
              /\ pipes' = pipes + 1
              /\ output' = "nothing"
              /\ pc' = "ping"
         ELSE UNCHANGED <<procs, ping, pipes, output, pc>>
    /\ UNCHANGED <<stage, findVars, silent>>

\* ping ends after a second or, when it knows no such host, at once or late.
PingEnds ==
    /\ ping # None
    /\ procs[ping] = "ping"
    /\ procs' = [procs EXCEPT ![ping] = Zombie]
    /\ output' \in Outputs \ {"nothing"}
    /\ UNCHANGED <<stage, pc, findVars, pipes, ping, silent>>

\* Slip: a device that did not answer is told without pclose().
ClosesIfOnline(line) == line = "1 received"

\* The lines upon which the function calls pclose() and returns.
Closes(line) == line \in {"1 received", "100% packet loss"}

\* The lines are read.  With neither of the two the pipe is left open, and
\* nobody waits for the process at its other end.
ReadPing ==
    /\ pc = "ping"
    /\ output # "nothing"
    /\ pc' = "idle"
    /\ ping' = None
    /\ output' = "nothing"
    /\ IF Closes(output)
         THEN /\ pipes' = pipes - 1
              /\ procs' = [procs EXCEPT ![ping] = Free]
         ELSE UNCHANGED <<pipes, procs>>
    /\ silent' = IF output = "neither" THEN silent + 1 ELSE silent
    /\ UNCHANGED <<stage, findVars>>

-----------------------------------------------------------------------------
(* startAppAsDaemon(), in the processes of the application.                *)

\* A process ends, with whatever exit code.
Exit(p) == Becomes([procs EXCEPT ![p] = Free], [stage EXCEPT ![p] = "none"])

\* Slip: the parent returns instead of leaving.
StaysAfterFork == "true"

\* What is left to the parent after fork().
AfterFork == "exit"

\* p forks: the child goes on at stage s, the parent only to std::exit().
Forks(p, s) ==
    \E q \in Pids \ Live :
        Becomes([procs EXCEPT ![q] = procName],
                [stage EXCEPT ![p] = AfterFork, ![q] = s])

\* The first fork(); when it fails, the function returns false.
ForkChild(p) ==
    /\ stage[p] = "main"
    /\ Forks(p, "child") \/ Becomes(procs, [stage EXCEPT ![p] = "false"])

\* setsid(); when it fails, the process ends.
SetSid(p) ==
    /\ stage[p] = "child"
    /\ Becomes(procs, [stage EXCEPT ![p] = "leader"]) \/ Exit(p)

\* The second fork(); when it fails, the process ends.
ForkSecond(p) ==
    /\ stage[p] = "leader"
    /\ Forks(p, "second") \/ Exit(p)

\* chdir("/test") succeeds and all files are closed, or it fails.
ChDir(p) ==
    /\ stage[p] = "second"
    /\ \E result \in {"true", "false"} :
         Becomes(procs, [stage EXCEPT ![p] = result])

ParentExit(p) == stage[p] = "exit" /\ Exit(p)

startAppAsDaemon(p) ==
    /\ ForkChild(p) \/ SetSid(p) \/ ForkSecond(p) \/ ChDir(p) \/ ParentExit(p)
    /\ KeepSteady
    /\ UNCHANGED <<pc, entries, cursor, pid, unread, pingVars>>

-----------------------------------------------------------------------------

Environment ==
    \E p \in Pids : End(p) \/ \E n \in {procName, "other"} : Start(p, n) \/ Exec(p, n)

Next ==
    \/ Environment
    \/ OpenDir \/ ReadDir \/ EndDir \/ ReadCmdLine \/ Kill
    \/ Popen \/ PingEnds \/ ReadPing
    \/ \E p \in Pids : startAppAsDaemon(p)

Spec == Init /\ [][Next]_vars

-----------------------------------------------------------------------------

\* readme.md: "getPID by Process Name".  If no process is found, each one that
\* had the name from the call to its return, however many others have come and
\* gone, is one whose command line, or whose directory, could not be opened.
NotFoundIsAbsent ==
    [][pc' = "have" /\ (OpenDir \/ EndDir) => steady' \subseteq unread']_vars

\* killProcessById() ends one process at most, and that one has borne the name
\* ever since it was found, unless the one that was found has ended or changed
\* its program before the signal.
KillsFoundOnly ==
    [][Kill => \A p \in Pids : procs'[p] # procs[p]
                  => p = pid /\ (p \in steady \/ turned)]_vars

\* A call of isDeviceOnline() leaves a pipe and a zombie behind if ping gave
\* no verdict, and only then: the calls that can still be made are as many as
\* there are pipes less such calls.
LeaksAreSilentCalls ==
    /\ pipes = silent + (IF pc = "ping" THEN 1 ELSE 0)
    /\ Cardinality(Zombies) = silent + (IF output # "nothing" THEN 1 ELSE 0)

\* readme.md: "start Application as Daemon".  However it goes, at most one
\* process runs the application once the function has returned, and none
\* while the first one is still in it.
AppRunsOnce ==
    /\ Cardinality({p \in Pids : stage[p] \in {"true", "false"}}) <= 1
    /\ \A p, q \in Pids : stage[p] = "main" => stage[q] \notin {"true", "false"}

=============================================================================
