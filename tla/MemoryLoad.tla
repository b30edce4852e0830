---------------------------- MODULE MemoryLoad ------------------------------
(***************************************************************************)
(* lib/linux_memoryload: one memoryLoad object, which reads the total and  *)
(* the available memory from /proc/meminfo and keeps them for 100 ms.  Its *)
(* callers use it from one thread.                                         *)
(*                                                                         *)
(* What the kernel shows, whether the file can be opened and the clock are *)
(* the environment: both figures may change at any time, the total as well *)
(* (memory is plugged in, a balloon is filled).  The figures of a process  *)
(* are read anew by each call and kept nowhere; they are left out.         *)
(***************************************************************************)
EXTENDS Integers

CONSTANTS
    Memories,       \* what the kernel may show: [total, available]
    Keep            \* the ticks of 100 ms

\* What the module that instantiates this one assumes of them.
ConstantsFit ==
    /\ Memories \subseteq [total : Nat \ {0}, available : Nat]
    /\ \A m \in Memories : m.available <= m.total
    /\ Keep \in Nat \ {0}

VARIABLES
    now,            \* steady_clock::now()
    memory,         \* what the kernel shows
    readableSince,  \* when the file could last be opened anew, 0 if it cannot
    timeStamp,      \* when that was last tried
    kept,           \* totalMemoryInKB and currentMemoryUsageInKB
    pc,             \* where the call of a getter is
    getter,         \* which one it is
    used,           \* memavail of getCurrentMemUsageInPercent()
    figure,         \* what the last getter returned
    readAt,         \* history: when kept was read, 0 for never
    calledAt        \* history: when the getter was called

kernelVars == <<memory, readableSince>>
keptVars   == <<timeStamp, kept, readAt>>
callVars   == <<pc, getter, used, figure, calledAt>>
vars       == <<now, kernelVars, keptVars, callVars>>

readable == readableSince > 0

Getters == {"percent", "used", "total"}
Nothing == [total |-> 0, available |-> 0]

\* A percentage stands for its two parts.  A negative number stands for the
\* unsigned one it wraps round to.
Figures == [used : Int, total : Nat]

TypeOK ==
    /\ now \in Nat
    /\ memory \in Memories
    /\ readableSince \in 0..now
    /\ timeStamp \in 0..now
    /\ kept \in Memories \cup {Nothing}
    /\ pc \in {"idle", "percent", "used", "left", "total"}
    /\ getter \in Getters
    /\ used \in Int
    /\ figure \in Figures
    /\ readAt \in 0..now /\ calledAt \in 0..now
    /\ readAt <= timeStamp

Init ==
    /\ memory \in Memories
    /\ readableSince \in {0, now}
    /\ timeStamp = 0
    /\ kept = Nothing
    /\ pc = "idle"
    /\ getter = "total"
    /\ used = 0
    /\ figure = [used |-> 0, total |-> 0]
    /\ readAt = 0 /\ calledAt = 0

-----------------------------------------------------------------------------
(* The kernel.                                                             *)

Changes ==
    /\ memory' \in Memories \ {memory}
    /\ UNCHANGED <<now, readableSince, keptVars, callVars>>

\* The file cannot be opened any more, as when no descriptor is left, or can
\* be again.
Toggles ==
    /\ readableSince' = IF readable THEN 0 ELSE now
    /\ UNCHANGED <<now, memory, keptVars, callVars>>

-----------------------------------------------------------------------------
(* The object.                                                             *)

\* Slip: a reading is kept for one tick more.
FreshInclusive == timeStamp + Keep >= now

Fresh == timeStamp + Keep > now

\* parseMemoryFile(); nobody looks at what it returns.
parseMemoryFile ==
    IF Fresh THEN UNCHANGED keptVars
    ELSE /\ timeStamp' = now
         /\ IF readable THEN kept' = memory /\ readAt' = now
                        ELSE UNCHANGED <<kept, readAt>>

Call(g) ==
    /\ pc = "idle"
    /\ getter' = g
    /\ pc' = g
    /\ calledAt' = now
    /\ UNCHANGED <<now, kernelVars, keptVars, used, figure>>

Return(u, t) ==
    /\ figure' = [used |-> u, total |-> t]
    /\ used' = 0
    /\ pc' = "idle"

\* getCurrentMemUsageInPercent() before it calls getCurrentMemUsageInKB().
Percent ==
    /\ pc = "percent"
    /\ parseMemoryFile
    /\ pc' = "used"
    /\ UNCHANGED <<now, kernelVars, getter, used, figure, calledAt>>

\* getCurrentMemUsageInKB() before the difference.
Used ==
    /\ pc = "used"
    /\ parseMemoryFile
    /\ pc' = "left"
    /\ UNCHANGED <<now, kernelVars, getter, used, figure, calledAt>>

\* The difference: getTotalMemoryInKB() may read the file once more, before or
\* after the other operand is taken.
Difference ==
    /\ pc = "left"
    /\ parseMemoryFile
    /\ \E available \in {kept.available, kept'.available} :
         LET difference == kept'.total - available
         IN  IF getter = "used"
               THEN Return(difference, 0)
               ELSE used' = difference /\ pc' = "total" /\ UNCHANGED figure
    /\ UNCHANGED <<now, kernelVars, getter, calledAt>>

\* getTotalMemoryInKB(), on its own or for the percentage.
Total ==
    /\ pc = "total"
    /\ parseMemoryFile
    /\ Return(IF getter = "percent" THEN used ELSE 0, kept'.total)
    /\ UNCHANGED <<now, kernelVars, getter, calledAt>>

Run == Percent \/ Used \/ Difference \/ Total

-----------------------------------------------------------------------------

\* A file that could not be opened costs no more than the 100 ms for which
\* that is not tried again: once it can be opened for as long as that, each
\* getter returns figures not older than that.
MemoryRecovers ==
    [][Run /\ pc' = "idle" /\ readable /\ readableSince + Keep <= calledAt
         => readAt' > calledAt - Keep]_vars

=============================================================================
