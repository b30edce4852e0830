------------------------------ MODULE CpuLoad -------------------------------
(***************************************************************************)
(* lib/linux_cpuload: one cpuLoad object, which keeps the counters that    *)
(* /proc/stat showed last, of the whole system and of each core, and turns *)
(* the difference to the next reading into a usage.  Its callers use it    *)
(* from one thread, in any order of calls.                                 *)
(*                                                                         *)
(* The kernel's counters and the cores that are online are the             *)
(* environment; one reading of the file shows them at one moment.  The     *)
(* counters of user, nice and system time are one here, busy: the code     *)
(* only ever adds them up and compares each.  There are at most ten cores, *)
(* so that no name of a core is part of another's.  The figures of the     *)
(* cores are computed line by line, as the code walks through the file.    *)
(***************************************************************************)
EXTENDS Integers, Sequences, FiniteSets, FiniteSetsExt

CONSTANTS
    Cores,          \* the numbers of the cores, 0..n-1 with n <= 10
    MayReset,       \* whether the idle time of a core may start again at 0
    Loads,          \* the sets of cores that may be busy in a tick
    MaxChanges,     \* bound: the cores that come or go
    MaxInits,       \* bound: the calls of initMultiCore()
    MaxTime         \* bound: the ticks of the run

ASSUME CpuLoadAssumption ==
    /\ Cardinality(Cores) \in 1..10
    /\ Cores = 0..(Cardinality(Cores) - 1)
    /\ MayReset \in BOOLEAN
    /\ Loads \subseteq SUBSET Cores
    /\ {MaxChanges, MaxInits, MaxTime} \subseteq Nat

VARIABLES
    now,            \* ticks since the start
    online,         \* the cores that have a line in the file
    changes,        \* how often a core came or went
    counters,       \* the kernel's counters of each line
    lastTotal,      \* lastTotalUser, ...: those of the line "cpu", as read last
    numOfCpus,      \* numOfCpus
    vec_lastTotal,  \* vec_lastTotalUser, ...: by the number of the core
    inits,          \* how often initMultiCore() was called
    pc,             \* where the object's caller is
    unread,         \* the cores whose lines the reading has not come to yet
    cnt,            \* cnt: how many lines it has found
    percents,       \* percents, percent: the figures the call has to return
    open,           \* history: ticks a line counted and no figure stands for
    fell            \* history: lines whose idle time fell since last read

kernelVars == <<now, online, counters, changes>>
initVars   == <<numOfCpus, inits>>
readVars   == <<unread, cnt>>
baseVars   == <<lastTotal, vec_lastTotal>>
vars       == <<kernelVars, initVars, readVars, baseVars, pc, percents, open, fell>>

Whole == -1                     \* the line "cpu"
Lines == Cores \cup {Whole}
Count == [busy : Nat, idle : Nat]
Zero  == [busy |-> 0, idle |-> 0]

Ticks(count) == count.busy + count.idle

\* A figure is busy * 100 / total, of a line.  Skip stands for -1.0, and a
\* figure of 0 / 0 for the NaN it is.
Figure == [line : Lines, busy : Nat \cup {-1}, total : Nat]
Skip(x) == [line |-> x, busy |-> -1, total |-> 0]

\* The idle time of the line "cpu" is a sum, from which the kernel's actions
\* take what a core loses.
TypeOK ==
    /\ now \in 0..MaxTime
    /\ {0} \subseteq online /\ online \subseteq Cores
    /\ changes \in 0..MaxChanges
    /\ counters \in [Lines -> [busy : Nat, idle : Int]]
    /\ \A c \in Cores : counters[c] \in Count
    /\ lastTotal \in [busy : Nat, idle : Int]
    /\ numOfCpus \in Nat
    /\ vec_lastTotal \in [0..(numOfCpus - 1) -> Count]
    /\ inits \in 0..MaxInits
    /\ pc \in {"idle", "init", "baselines", "usage", "cpu"}
    /\ unread \subseteq online
    /\ cnt \in Nat
    /\ percents \in Seq(Figure)
    /\ open \in [Lines -> Int]
    /\ fell \subseteq Lines

Init ==
    /\ now = 0
    /\ online \in {S \in SUBSET Cores : 0 \in S}
    /\ changes = 0
    /\ counters = [x \in Lines |->
         [busy |-> 0, idle |-> IF x = Whole THEN Cardinality(Cores) ELSE 1]]
    /\ lastTotal = Zero
    /\ numOfCpus = 0
    /\ vec_lastTotal = [i \in {} |-> Zero]
    /\ inits = 0
    /\ pc = "idle"
    /\ unread = {}
    /\ cnt = 0
    /\ percents = << >>
    /\ open = [x \in Lines |-> Ticks(counters[x])]
    /\ fell = {}

-----------------------------------------------------------------------------
(* The kernel.  The line "cpu" is the sum of all cores, those that are     *)
(* offline included.  Nothing moves while the code reads: what it reads is *)
(* the file of one moment.                                                 *)

\* The lines that are read in the file of one moment.
Reading == {"baselines", "usage", "cpu"}

\* What a tick adds to the counters of a line, if some cores are busy.
Ticked(x, busy) ==
    LET those == IF x = Whole THEN online ELSE online \cap {x}
    IN  [busy |-> counters[x].busy + Cardinality(those \cap busy),
         idle |-> counters[x].idle + Cardinality(those \ busy)]

\* Every core that is online is busy or idle for a tick.
Tick ==
    /\ pc \notin Reading
    /\ now < MaxTime
    /\ now' = now + 1
    /\ \E busy \in Loads : counters' = [x \in Lines |-> Ticked(x, busy)]
    /\ open' = [x \in Lines |-> open[x] + Ticks(counters'[x]) - Ticks(counters[x])]
    /\ UNCHANGED <<online, changes, initVars, readVars, baseVars, pc, percents, fell>>

Unplug(c) ==
    /\ pc \notin Reading
    /\ c \in online \ {0}
    /\ changes < MaxChanges
    /\ changes' = changes + 1
    /\ online' = online \ {c}
    /\ UNCHANGED <<now, counters, initVars, readVars, baseVars, pc, percents, open, fell>>

\* A core comes back, and its idle time may start again.
Plug(c) ==
    /\ pc \notin Reading
    /\ c \notin online
    /\ changes < MaxChanges
    /\ changes' = changes + 1
    /\ online' = online \cup {c}
    /\ \/ UNCHANGED <<counters, fell>>
       \/ /\ MayReset
          /\ counters' = [counters EXCEPT ![c].idle = 0,
                                         ![Whole].idle = @ - counters[c].idle]
          /\ fell' = fell \cup {c, Whole}
    /\ UNCHANGED <<now, initVars, readVars, baseVars, pc, percents, open>>

-----------------------------------------------------------------------------
(* The whole system.                                                       *)

\* Slip: a counter that has not moved counts as one that fell.
UsageIfMoved(x, last) ==
    IF counters[x].busy < last.busy \/ counters[x].idle <= last.idle
      THEN Skip(x)
      ELSE [line  |-> x,
            busy  |-> counters[x].busy - last.busy,
            total |-> Ticks(counters[x]) - Ticks(last)]

\* The figure of a line, from its counters and those of the last reading.
Usage(x, last) ==
    IF counters[x].busy < last.busy \/ counters[x].idle < last.idle
      THEN Skip(x)
      ELSE [line  |-> x,
            busy  |-> counters[x].busy - last.busy,
            total |-> Ticks(counters[x]) - Ticks(last)]

\* initcpuUsage().
initcpuUsage ==
    /\ pc = "idle"
    /\ lastTotal' = counters[Whole]
    /\ fell' = fell \ {Whole}
    /\ UNCHANGED <<kernelVars, initVars, readVars, vec_lastTotal, pc, percents, open>>

\* getCurrentCpuUsage().
getCurrentCpuUsage ==
    /\ pc = "idle"
    /\ percents' = << Usage(Whole, lastTotal) >>
    /\ open' = [open EXCEPT ![Whole] = @ - Usage(Whole, lastTotal).total]
    /\ lastTotal' = counters[Whole]
    /\ fell' = fell \ {Whole}
    /\ pc' = "cpu"
    /\ UNCHANGED <<kernelVars, initVars, readVars, vec_lastTotal>>

-----------------------------------------------------------------------------
(* The cores.                                                              *)

\* resize() of the four vectors.
Resized(n) ==
    [i \in 0..(n - 1) |-> IF i < numOfCpus THEN vec_lastTotal[i] ELSE Zero]

\* initMultiCore(): the lines are counted, that of "cpu" is taken off again,
\* and what an earlier call has counted stays.
initMultiCore ==
    /\ pc = "idle"
    /\ inits < MaxInits
    /\ inits' = inits + 1
    /\ numOfCpus' = numOfCpus + Cardinality(online)
    /\ vec_lastTotal' = Resized(numOfCpus + Cardinality(online))
    /\ pc' = "init"
    /\ UNCHANGED <<kernelVars, readVars, lastTotal, percents, open, fell>>

\* initMultiCore(): the file is read again from its beginning.
readBaselines ==
    /\ pc = "init"
    /\ pc' = "baselines"
    /\ unread' = online
    /\ cnt' = 0
    /\ UNCHANGED <<kernelVars, initVars, baseVars, percents, open, fell>>

\* getCurrentMultiCoreUsage(); before initMultiCore() it throws and leaves
\* everything as it is.
getCurrentMultiCoreUsage ==
    /\ pc = "idle"
    /\ numOfCpus > 0
    /\ pc' = "usage"
    /\ unread' = online
    /\ cnt' = 0
    /\ UNCHANGED <<kernelVars, initVars, baseVars, percents, open, fell>>

\* Slip: a line is compared with one number only.
CandidatesOne(n) == {n} \cap 0..(numOfCpus - 1)

\* The numbers a line is compared with, after n lines were found.
Candidates(n) == n..(numOfCpus - 1)

\* Slip: the counters are stored by their place in the file.
SlotByCount(c, n) == n

\* Where the counters of core c are stored, after n lines were found.
Slot(c, n) == c

\* The next line is one the code looks for, and its counters are stored.
StoreLine(c) ==
    /\ unread # {} /\ c = Min(unread)
    /\ c \in Candidates(cnt)
    /\ vec_lastTotal' = [vec_lastTotal EXCEPT ![Slot(c, cnt)] = counters[c]]
    /\ fell' = fell \ {c}
    /\ cnt' = cnt + 1
    /\ unread' = unread \ {c}
    /\ UNCHANGED <<kernelVars, initVars, lastTotal, pc>>

\* A line found by the loop of initMultiCore() ...
FindBaseline(c) ==
    /\ pc = "baselines"
    /\ StoreLine(c)
    /\ UNCHANGED <<percents, open>>

\* ... and one by that of getCurrentMultiCoreUsage().
FindUsage(c) ==
    /\ pc = "usage"
    /\ StoreLine(c)
    /\ percents' = Append(percents, Usage(c, vec_lastTotal[c]))
    /\ open' = [open EXCEPT ![c] = @ - Usage(c, vec_lastTotal[c]).total]

\* The next line is none of them.
PassLine(c) ==
    /\ unread # {} /\ c = Min(unread)
    /\ c \notin Candidates(cnt)
    /\ unread' = unread \ {c}
    /\ UNCHANGED <<kernelVars, initVars, baseVars, cnt, pc, percents, open, fell>>

\* The call ends, and its caller has the figures.
Return ==
    /\ pc \in Reading
    /\ unread = {}
    /\ pc' = "idle"
    /\ percents' = << >>
    /\ UNCHANGED <<kernelVars, initVars, readVars, baseVars, open, fell>>

-----------------------------------------------------------------------------

Kernel == Tick \/ \E c \in Cores : Unplug(c) \/ Plug(c)
Call   == \/ initcpuUsage \/ getCurrentCpuUsage
          \/ initMultiCore \/ readBaselines \/ getCurrentMultiCoreUsage
          \/ \E c \in Cores : FindBaseline(c) \/ FindUsage(c) \/ PassLine(c)
          \/ Return

Next == Kernel \/ Call

Spec == Init /\ [][Next]_vars

-----------------------------------------------------------------------------

\* No tick of a core, or of the whole system, is in two figures: all figures
\* ever returned of a line stand for no more time than it has counted, though
\* cores go, come back with less idle time and change their place in the file.
NoTickTwice == \A x \in Lines : open[x] >= 0

\* readme.md: "CPU Usage per Core".  The cores whose usage is returned are
\* those that are online and within the number counted, each once and in
\* their order: a core that is offline hides no other from the search.
EveryCoreIsFound ==
    [][pc = "usage" /\ pc' = "idle" =>
         /\ {percents[k].line : k \in DOMAIN percents} = online \cap 0..(numOfCpus - 1)
         /\ \A j, k \in DOMAIN percents :
              j < k => percents[j].line < percents[k].line]_vars

\* "Overflow detection. Just skip this value": a figure is left out only if the
\* idle time of its line fell since the last reading of it, so that the
\* reading after it is right again.
SkipOnlyAfterFall ==
    [][\A k \in DOMAIN percents' \ DOMAIN percents :
         percents'[k].busy = -1 => percents'[k].line \in fell]_vars

=============================================================================
