--------------------------- MODULE CpuLoadProofs ----------------------------
(***************************************************************************)
(* Proofs about CpuLoad: its type, and the three properties its run checks.*)
(***************************************************************************)
EXTENDS CpuLoad, DataLemmas

\* What the next figure of a line is taken from.
Baseline(x) ==
    IF x = Whole THEN lastTotal
    ELSE IF x \in 0..(numOfCpus - 1) THEN vec_lastTotal[x] ELSE Zero

\* What a line has counted since its baseline is in no figure yet.
OpenInv ==
    \A x \in Lines : /\ open[x] >= 0
                     /\ open[x] >= Ticks(counters[x]) - Ticks(Baseline(x))

\* A line is behind its baseline only in its idle time, and after a fall.
FallInv ==
    \A x \in Lines : /\ counters[x].busy >= Baseline(x).busy
                     /\ x \in fell \/ counters[x].idle >= Baseline(x).idle

\* Lines are only left to read, and figures to return, within a reading.
PlaceInv ==
    /\ pc \notin {"baselines", "usage"} => unread = {}
    /\ pc \notin {"usage", "cpu"} => percents = << >>

\* The figures of the lines read so far, in the order of the cores.  The
\* number of a core is not less than the number of lines found before it, so
\* that the loop, which starts at that number, comes to it.
SearchInv ==
    pc = "usage" =>
      /\ cnt = Len(percents)
      /\ \A k \in 1..cnt :
           /\ percents[k].line \in online \ unread
           /\ percents[k].line \in (k - 1)..(numOfCpus - 1)
           /\ \A c \in unread : percents[k].line < c
      /\ \A j, k \in 1..cnt : j < k => percents[j].line < percents[k].line
      /\ \A c \in online \ unread :
           c < numOfCpus => \E k \in 1..cnt : percents[k].line = c

\* A line found, by either loop.
FindLine(c) == FindBaseline(c) \/ FindUsage(c)

-----------------------------------------------------------------------------
(* The type.                                                               *)

LEMMA CoresFacts ==
    /\ IsFiniteSet(Cores) /\ Cardinality(Cores) \in Nat
    /\ Cores \subseteq Nat /\ 0 \in Cores
    /\ Whole \notin Cores /\ Whole \in Lines /\ Cores \subseteq Lines
<1>1. Cardinality(Cores) \in 1..10 /\ Cores = 0..(Cardinality(Cores) - 1)
  BY CpuLoadAssumption
<1>2. IsFiniteSet(0..(Cardinality(Cores) - 1))
  BY <1>1, FS_Interval
<1>3. QED  BY <1>1, <1>2 DEF Whole, Lines

\* A tick takes nothing from a counter.
LEMMA TickedFacts ==
    ASSUME TypeOK, NEW x \in Lines, NEW busy \in SUBSET Cores
    PROVE  \E m, n \in Nat :
             Ticked(x, busy) = [busy |-> counters[x].busy + m,
                                idle |-> counters[x].idle + n]
<1> DEFINE those == IF x = Whole THEN online ELSE online \cap {x}
<1>1. those \cap busy \subseteq Cores /\ those \ busy \subseteq Cores
  BY DEF TypeOK
<1>2. Cardinality(those \cap busy) \in Nat /\ Cardinality(those \ busy) \in Nat
  BY <1>1, CoresFacts, FS_Subset, FS_CardinalityType
<1>3. QED  BY <1>2 DEF Ticked

\* A figure is that of its line, and the time it stands for is what the line
\* has counted; or it is left out, because a counter fell.
LEMMA UsageFacts ==
    ASSUME TypeOK, NEW x \in Lines, NEW last \in [busy : Nat, idle : Int]
    PROVE  /\ Usage(x, last) \in Figure
           /\ Usage(x, last).line = x
           /\ \/ /\ Usage(x, last).total = Ticks(counters[x]) - Ticks(last)
                 /\ Usage(x, last).busy # -1
              \/ /\ Usage(x, last).total = 0
                 /\ \/ counters[x].busy < last.busy
                    \/ counters[x].idle < last.idle
<1>1. counters[x] \in [busy : Nat, idle : Int]
  BY DEF TypeOK
<1>2. CASE counters[x].busy < last.busy \/ counters[x].idle < last.idle
  BY <1>1, <1>2 DEF Usage, Skip, Figure
<1>3. CASE ~(counters[x].busy < last.busy \/ counters[x].idle < last.idle)
  <2>1. /\ counters[x].busy - last.busy \in Nat
        /\ Ticks(counters[x]) - Ticks(last) \in Nat
    BY <1>1, <1>3 DEF Ticks
  <2>2. Usage(x, last) = [line  |-> x,
                          busy  |-> counters[x].busy - last.busy,
                          total |-> Ticks(counters[x]) - Ticks(last)]
    BY <1>3 DEF Usage
  <2>3. QED  BY <2>1, <2>2 DEF Figure
<1>4. QED  BY <1>2, <1>3

LEMMA BaselineType ==
    ASSUME TypeOK, NEW x \in Lines
    PROVE  /\ Baseline(x) \in [busy : Nat, idle : Int]
           /\ x \in Cores => Baseline(x) \in Count
<1>1. x \in Cores => x # Whole
  BY CoresFacts
<1>2. QED  BY <1>1 DEF Baseline, TypeOK, Count, Zero, Lines

LEMMA InitType == Init => TypeOK /\ PlaceInv /\ SearchInv
<1> SUFFICES ASSUME Init PROVE TypeOK /\ PlaceInv /\ SearchInv
  OBVIOUS
<1>1. counters \in [Lines -> [busy : Nat, idle : Int]]
  BY CoresFacts DEF Init
<1>2. \A c \in Cores : counters[c] \in Count
  BY CoresFacts DEF Init, Count
<1>3. open \in [Lines -> Int]
  BY <1>1 DEF Init, Ticks
<1>4. vec_lastTotal \in [0..(numOfCpus - 1) -> Count]
  BY DEF Init
<1>5. percents \in Seq(Figure)
  BY DEF Init
<1>6. online \subseteq Cores /\ {0} \subseteq online
  BY DEF Init
<1>7. QED
  BY <1>1, <1>2, <1>3, <1>4, <1>5, <1>6, CpuLoadAssumption
  DEF Init, TypeOK, PlaceInv, SearchInv, Zero, Whole

\* Whatever the kernel does, it does between two readings.
LEMMA KernelType == ASSUME TypeOK, PlaceInv, Kernel PROVE TypeOK' /\ PlaceInv'
<1>1. CASE Tick
  <2>1. PICK busy \in Loads : counters' = [x \in Lines |-> Ticked(x, busy)]
    BY <1>1 DEF Tick
  <2>2. busy \in SUBSET Cores
    BY CpuLoadAssumption
  <2>3. ASSUME NEW x \in Lines
        PROVE  /\ counters'[x] \in [busy : Nat, idle : Int]
               /\ x \in Cores => counters'[x] \in Count
    <3>1. PICK m \in Nat, n \in Nat :
            Ticked(x, busy) = [busy |-> counters[x].busy + m,
                               idle |-> counters[x].idle + n]
      BY <2>2, TickedFacts
    <3>2. counters'[x] = [busy |-> counters[x].busy + m,
                          idle |-> counters[x].idle + n]
      BY <2>1, <3>1
    <3>3. /\ counters[x] \in [busy : Nat, idle : Int]
          /\ x \in Cores => counters[x] \in Count
      BY DEF TypeOK
    <3>4. QED  BY <3>2, <3>3 DEF Count
  <2>4. counters' \in [Lines -> [busy : Nat, idle : Int]]
    BY <2>1, <2>3
  <2>5. open' \in [Lines -> Int]
    <3>1. ASSUME NEW x \in Lines
          PROVE  open[x] + Ticks(counters'[x]) - Ticks(counters[x]) \in Int
      BY <2>4 DEF TypeOK, Ticks
    <3>2. QED  BY <1>1, <3>1 DEF Tick
  <2>6. now' \in 0..MaxTime
    BY <1>1, CpuLoadAssumption DEF Tick, TypeOK
  <2>7. \A c \in Cores : counters'[c] \in Count
    BY <2>3, CoresFacts
  <2>8. QED
    BY <1>1, <2>4, <2>5, <2>6, <2>7
    DEF Tick, TypeOK, PlaceInv, initVars, readVars, baseVars
<1>2. ASSUME NEW c \in Cores, Unplug(c) PROVE TypeOK' /\ PlaceInv'
  <2>1. unread = {} /\ changes' \in 0..MaxChanges
    BY <1>2, CpuLoadAssumption DEF Unplug, TypeOK, PlaceInv, Reading
  <2>2. QED
    BY <1>2, <2>1 DEF Unplug, TypeOK, PlaceInv, initVars, readVars, baseVars
<1>3. ASSUME NEW c \in Cores, Plug(c) PROVE TypeOK' /\ PlaceInv'
  <2>1. /\ counters' \in [Lines -> [busy : Nat, idle : Int]]
        /\ \A d \in Cores : counters'[d] \in Count
        /\ fell' \subseteq Lines
    <3>1. CASE UNCHANGED <<counters, fell>>
      BY <3>1 DEF TypeOK
    <3>2. CASE /\ counters' = [counters EXCEPT ![c].idle = 0,
                                               ![Whole].idle = @ - counters[c].idle]
               /\ fell' = fell \cup {c, Whole}
      <4>1. /\ c \in Lines /\ c # Whole /\ Whole \in Lines
            /\ \A d \in Cores : d \in Lines /\ d # Whole
        BY CoresFacts
      <4>2. ASSUME NEW x \in Lines
            PROVE  counters'[x] = IF x = Whole
                     THEN [busy |-> counters[Whole].busy,
                           idle |-> counters[Whole].idle - counters[c].idle]
                     ELSE IF x = c THEN [busy |-> counters[c].busy, idle |-> 0]
                     ELSE counters[x]
        <5>1. counters \in [Lines -> [busy : Nat, idle : Int]]
          BY DEF TypeOK
        <5>2. CASE x = Whole
          BY <3>2, <4>1, <5>1, <5>2
        <5>3. CASE x = c
          BY <3>2, <4>1, <5>1, <5>3
        <5>4. CASE x # Whole /\ x # c
          BY <3>2, <4>1, <5>1, <5>4
        <5>5. QED  BY <4>1, <5>2, <5>3, <5>4
      <4>3. \A x \in Lines : counters[x] \in [busy : Nat, idle : Int]
        BY DEF TypeOK
      <4>4. counters' \in [Lines -> [busy : Nat, idle : Int]]
        <5>1. \A x \in Lines : counters'[x] \in [busy : Nat, idle : Int]
          BY <4>1, <4>2, <4>3
        <5>2. DOMAIN counters' = Lines /\ counters' = [x \in Lines |-> counters'[x]]
          BY <3>2 DEF TypeOK
        <5>3. QED  BY <5>1, <5>2
      <4>5. \A d \in Cores : counters'[d] \in Count
        <5>1. \A d \in Cores : counters[d] \in Count
          BY DEF TypeOK
        <5>2. QED  BY <4>1, <4>2, <5>1 DEF Count
      <4>6. QED  BY <3>2, <4>1, <4>4, <4>5 DEF TypeOK
    <3>3. QED  BY <1>3, <3>1, <3>2 DEF Plug
  <2>2. changes' \in 0..MaxChanges
    BY <1>3, CpuLoadAssumption DEF Plug, TypeOK
  <2>3. QED
    BY <1>3, <2>1, <2>2 DEF Plug, TypeOK, PlaceInv, initVars, readVars, baseVars
<1>4. QED  BY <1>1, <1>2, <1>3 DEF Kernel

\* A line of the file of getCurrentMultiCoreUsage() or initMultiCore().
LEMMA LineFacts ==
    ASSUME TypeOK, PlaceInv, NEW c \in Cores, unread # {}, c = Min(unread)
    PROVE  /\ pc \in {"baselines", "usage"}
           /\ c \in unread /\ c \in online /\ \A d \in unread : c <= d
<1>1. unread \in SUBSET Nat
  BY CoresFacts DEF TypeOK
<1>2. c \in unread /\ \A d \in unread : c <= d
  BY <1>1, LeastNumber
<1>3. QED  BY <1>2 DEF TypeOK, PlaceInv

LEMMA CallType == ASSUME TypeOK, PlaceInv, Call PROVE TypeOK' /\ PlaceInv'
<1>1. CASE initcpuUsage
  <2>1. lastTotal' \in [busy : Nat, idle : Int]
    BY <1>1, CoresFacts DEF initcpuUsage, TypeOK
  <2>2. QED
    BY <1>1, <2>1
    DEF initcpuUsage, TypeOK, PlaceInv, kernelVars, initVars, readVars
<1>2. CASE getCurrentCpuUsage
  <2>1. lastTotal' \in [busy : Nat, idle : Int]
    BY <1>2, CoresFacts DEF getCurrentCpuUsage, TypeOK
  <2>2. Usage(Whole, lastTotal) \in Figure
    BY UsageFacts, CoresFacts DEF TypeOK
  <2>3. percents' \in Seq(Figure)
    BY <1>2, <2>2 DEF getCurrentCpuUsage
  <2>4. open' \in [Lines -> Int]
    <3>1. Usage(Whole, lastTotal).total \in Nat
      BY <2>2 DEF Figure
    <3>2. open \in [Lines -> Int] /\ Whole \in Lines
      BY CoresFacts DEF TypeOK
    <3>3. QED  BY <1>2, <3>1, <3>2 DEF getCurrentCpuUsage
  <2>5. QED
    BY <1>2, <2>1, <2>3, <2>4
    DEF getCurrentCpuUsage, TypeOK, PlaceInv, kernelVars, initVars, readVars
<1>3. CASE initMultiCore
  <2>1. Cardinality(online) \in Nat
    BY CoresFacts, FS_Subset, FS_CardinalityType DEF TypeOK
  <2>2. numOfCpus' \in Nat /\ inits' \in 0..MaxInits
    BY <1>3, <2>1, CpuLoadAssumption DEF initMultiCore, TypeOK
  <2>3. vec_lastTotal' \in [0..(numOfCpus' - 1) -> Count]
    BY <1>3, <2>2 DEF initMultiCore, Resized, TypeOK, Zero, Count
  <2>4. QED
    BY <1>3, <2>2, <2>3 DEF initMultiCore, TypeOK, PlaceInv, kernelVars, readVars
<1>4. CASE readBaselines
  BY <1>4 DEF readBaselines, TypeOK, PlaceInv, kernelVars, initVars, baseVars
<1>5. CASE getCurrentMultiCoreUsage
  BY <1>5
  DEF getCurrentMultiCoreUsage, TypeOK, PlaceInv, kernelVars, initVars, baseVars
<1>6. ASSUME NEW c \in Cores, FindLine(c) PROVE TypeOK' /\ PlaceInv'
  <2>1. /\ pc \in {"baselines", "usage"} /\ c \in online
        /\ c \in 0..(numOfCpus - 1) /\ c \in Lines
    <3>1. /\ unread # {} /\ c = Min(unread) /\ c \in cnt..(numOfCpus - 1)
          /\ cnt \in Nat /\ numOfCpus \in Nat
      BY <1>6 DEF FindLine, FindBaseline, FindUsage, StoreLine, Candidates, TypeOK
    <3>2. pc \in {"baselines", "usage"} /\ c \in online
      BY <3>1, LineFacts
    <3>3. QED  BY <3>1, <3>2, CoresFacts
  <2>2. counters[c] \in Count /\ vec_lastTotal[c] \in Count
    BY <2>1 DEF TypeOK
  <2>3. Usage(c, vec_lastTotal[c]) \in Figure
    BY <2>1, <2>2, UsageFacts DEF Count
  <2>4. /\ percents' \in Seq(Figure) /\ open' \in [Lines -> Int]
        /\ pc = "baselines" => percents' = << >>
    <3>1. CASE pc = "usage"
      <4>1. percents' = Append(percents, Usage(c, vec_lastTotal[c]))
        BY <1>6, <3>1 DEF FindLine, FindBaseline, FindUsage, StoreLine
      <4>2. open' = [open EXCEPT ![c] = @ - Usage(c, vec_lastTotal[c]).total]
        BY <1>6, <3>1 DEF FindLine, FindBaseline, FindUsage, StoreLine
      <4>3. percents' \in Seq(Figure)
        BY <2>3, <4>1 DEF TypeOK
      <4>4. open' \in [Lines -> Int]
        BY <2>1, <2>3, <4>2 DEF TypeOK, Figure
      <4>5. QED  BY <3>1, <4>3, <4>4
    <3>2. CASE pc # "usage"
      BY <1>6, <2>1, <3>2
      DEF FindLine, FindBaseline, FindUsage, StoreLine, TypeOK, PlaceInv
    <3>3. QED  BY <3>1, <3>2
  <2>5. vec_lastTotal' \in [0..(numOfCpus - 1) -> Count]
    BY <1>6, <2>1, <2>2 DEF FindLine, FindBaseline, FindUsage, StoreLine, Slot, TypeOK
  <2>6. unread' \subseteq online /\ cnt' \in Nat /\ fell' \subseteq Lines
    BY <1>6 DEF FindLine, FindBaseline, FindUsage, StoreLine, TypeOK
  <2>7. PlaceInv'
    BY <1>6, <2>1, <2>4 DEF FindLine, FindBaseline, FindUsage, StoreLine, PlaceInv
  <2>8. QED
    BY <1>6, <2>4, <2>5, <2>6, <2>7
    DEF FindLine, FindBaseline, FindUsage, StoreLine, TypeOK, kernelVars, initVars
<1>7. ASSUME NEW c \in Cores, PassLine(c) PROVE TypeOK' /\ PlaceInv'
  <2>1. pc \in {"baselines", "usage"}
    BY <1>7, LineFacts DEF PassLine
  <2>2. QED
    BY <1>7, <2>1
    DEF PassLine, TypeOK, PlaceInv, kernelVars, initVars, baseVars
<1>8. CASE Return
  BY <1>8
  DEF Return, TypeOK, PlaceInv, Reading, kernelVars, initVars, readVars, baseVars
<1>9. QED  BY <1>1, <1>2, <1>3, <1>4, <1>5, <1>6, <1>7, <1>8 DEF Call, FindLine

LEMMA TypeStep ==
    ASSUME TypeOK, PlaceInv, [Next]_vars PROVE TypeOK' /\ PlaceInv'
<1>1. CASE UNCHANGED vars
  BY <1>1
  DEF TypeOK, PlaceInv, vars, kernelVars, initVars, readVars, baseVars
<1>2. QED  BY <1>1, KernelType, CallType DEF Next

\* Every variable keeps its type, the vectors of the cores the size of their
\* number and the file its lines until they are read.
THEOREM CpuTypeCorrect == Spec => [](TypeOK /\ PlaceInv)
<1>1. Init => TypeOK /\ PlaceInv
  BY InitType
<1>2. TypeOK /\ PlaceInv /\ [Next]_vars => (TypeOK /\ PlaceInv)'
  BY TypeStep
<1>3. QED  BY <1>1, <1>2, PTL DEF Spec

-----------------------------------------------------------------------------
(* What a step does to the counters and to the baselines.                  *)

\* The kernel's lines move on: only an idle time falls, and that is noted.
Moves ==
    \A x \in Lines :
      /\ Baseline(x)' = Baseline(x)
      /\ open'[x] >= open[x]
      /\ open'[x] - open[x] >= Ticks(counters'[x]) - Ticks(counters[x])
      /\ counters'[x].busy >= counters[x].busy
      /\ x \in fell' \/ (x \notin fell /\ counters'[x].idle >= counters[x].idle)

\* A line is read, and a figure of it may be returned.
Reads(y) ==
    /\ counters' = counters
    /\ fell' = fell \ {y}
    /\ Baseline(y)' = counters[y]
    /\ \A x \in Lines \ {y} : Baseline(x)' = Baseline(x) /\ open'[x] = open[x]
    /\ open'[y] \in {open[y], open[y] - Usage(y, Baseline(y)).total}

Keeps ==
    /\ counters' = counters /\ fell' = fell /\ open' = open
    /\ \A x \in Lines : Baseline(x)' = Baseline(x)

LEMMA KernelMoves == ASSUME TypeOK, Kernel PROVE Moves
<1>1. UNCHANGED <<lastTotal, numOfCpus, vec_lastTotal>>
  BY DEF Kernel, Tick, Unplug, Plug, initVars, baseVars
<1>2. \A x \in Lines : Baseline(x)' = Baseline(x)
  BY <1>1 DEF Baseline
<1>3. \A x \in Lines : /\ open[x] \in Int
                       /\ counters[x] \in [busy : Nat, idle : Int]
  BY DEF TypeOK
<1>4. CASE Tick
  <2>1. PICK busy \in Loads : counters' = [x \in Lines |-> Ticked(x, busy)]
    BY <1>4 DEF Tick
  <2>2. busy \in SUBSET Cores
    BY CpuLoadAssumption
  <2>3. ASSUME NEW x \in Lines
        PROVE  /\ open'[x] >= open[x]
               /\ open'[x] - open[x] = Ticks(counters'[x]) - Ticks(counters[x])
               /\ counters'[x].busy >= counters[x].busy
               /\ counters'[x].idle >= counters[x].idle
    <3>1. PICK m \in Nat, n \in Nat :
            Ticked(x, busy) = [busy |-> counters[x].busy + m,
                               idle |-> counters[x].idle + n]
      BY <2>2, TickedFacts
    <3>2. counters'[x] = [busy |-> counters[x].busy + m,
                          idle |-> counters[x].idle + n]
      BY <2>1, <3>1
    <3>3. open'[x] = open[x] + Ticks(counters'[x]) - Ticks(counters[x])
      BY <1>4 DEF Tick
    <3>4. QED  BY <1>3, <3>2, <3>3 DEF Ticks
  <2>4. fell' = fell
    BY <1>4 DEF Tick
  <2>5. ASSUME NEW x \in Lines
        PROVE  open'[x] - open[x] >= Ticks(counters'[x]) - Ticks(counters[x])
    <3>1. PICK m \in Nat, n \in Nat :
            Ticked(x, busy) = [busy |-> counters[x].busy + m,
                               idle |-> counters[x].idle + n]
      BY <2>2, TickedFacts
    <3>2. counters'[x] = [busy |-> counters[x].busy + m,
                          idle |-> counters[x].idle + n]
      BY <2>1, <3>1
    <3>3. Ticks(counters'[x]) - Ticks(counters[x]) \in Int
      BY <1>3, <3>2 DEF Ticks
    <3>4. QED  BY <2>3, <3>3
  <2>6. QED  BY <1>2, <2>3, <2>4, <2>5 DEF Moves
<1>5. ASSUME NEW c \in Cores, Unplug(c) PROVE Moves
  <2>1. counters' = counters /\ open' = open /\ fell' = fell
    BY <1>5 DEF Unplug
  <2>2. QED  BY <1>2, <1>3, <2>1 DEF Moves, Ticks
<1>6. ASSUME NEW c \in Cores, Plug(c) PROVE Moves
  <2>1. open' = open
    BY <1>6 DEF Plug
  <2>2. CASE UNCHANGED <<counters, fell>>
    BY <1>2, <1>3, <2>1, <2>2 DEF Moves, Ticks
  <2>3. CASE /\ counters' = [counters EXCEPT ![c].idle = 0,
                                             ![Whole].idle = @ - counters[c].idle]
             /\ fell' = fell \cup {c, Whole}
    <3>1. /\ c \in Lines /\ c # Whole /\ Whole \in Lines
          /\ counters \in [Lines -> [busy : Nat, idle : Int]]
          /\ counters[c].idle \in Nat
      BY CoresFacts DEF TypeOK, Count
    <3>2. ASSUME NEW x \in Lines
          PROVE  /\ counters'[x].busy = counters[x].busy
                 /\ counters'[x].idle \in Int
                 /\ counters'[x].idle <= counters[x].idle
                 /\ x \in fell' \/ (x \notin fell /\ counters'[x].idle = counters[x].idle)
      <4>1. CASE x = Whole
        BY <2>3, <3>1, <4>1
      <4>2. CASE x = c
        BY <2>3, <3>1, <4>2
      <4>3. CASE x # Whole /\ x # c
        BY <2>3, <3>1, <4>3
      <4>4. QED  BY <4>1, <4>2, <4>3
    <3>3. ASSUME NEW x \in Lines
          PROVE  open'[x] - open[x] >= Ticks(counters'[x]) - Ticks(counters[x])
      BY <1>3, <2>1, <3>2 DEF Ticks
    <3>4. QED  BY <1>2, <1>3, <2>1, <3>2, <3>3 DEF Moves
  <2>4. QED  BY <1>6, <2>2, <2>3 DEF Plug
<1>7. QED  BY <1>4, <1>5, <1>6 DEF Kernel

LEMMA CallReads ==
    ASSUME TypeOK, PlaceInv, Call PROVE (\E y \in Lines : Reads(y)) \/ Keeps
<1> /\ Whole \in Lines /\ \A c \in Cores : c \in Lines /\ c # Whole /\ c \in Nat
  BY CoresFacts
<1> open \in [Lines -> Int]
  BY DEF TypeOK
<1>1. CASE initcpuUsage
  <2>1. /\ counters' = counters /\ fell' = fell \ {Whole} /\ open' = open
        /\ lastTotal' = counters[Whole]
        /\ UNCHANGED <<numOfCpus, vec_lastTotal>>
    BY <1>1 DEF initcpuUsage, kernelVars, initVars
  <2>2. Reads(Whole)
    BY <2>1 DEF Reads, Baseline
  <2>3. QED  BY <2>2
<1>2. CASE getCurrentCpuUsage
  <2>1. /\ counters' = counters /\ fell' = fell \ {Whole}
        /\ open' = [open EXCEPT ![Whole] = @ - Usage(Whole, lastTotal).total]
        /\ lastTotal' = counters[Whole]
        /\ UNCHANGED <<numOfCpus, vec_lastTotal>>
    BY <1>2 DEF getCurrentCpuUsage, kernelVars, initVars
  <2>2. Baseline(Whole) = lastTotal
    BY DEF Baseline
  <2>3. Reads(Whole)
    BY <2>1, <2>2 DEF Reads, Baseline
  <2>4. QED  BY <2>3
<1>3. CASE initMultiCore
  <2>1. Cardinality(online) \in Nat
    BY CoresFacts, FS_Subset, FS_CardinalityType DEF TypeOK
  <2>2. /\ counters' = counters /\ fell' = fell /\ open' = open
        /\ lastTotal' = lastTotal
        /\ numOfCpus' = numOfCpus + Cardinality(online)
        /\ vec_lastTotal' = [i \in 0..(numOfCpus' - 1) |->
                               IF i < numOfCpus THEN vec_lastTotal[i] ELSE Zero]
    BY <1>3 DEF initMultiCore, Resized, kernelVars
  <2>3. ASSUME NEW x \in Lines PROVE Baseline(x)' = Baseline(x)
    <3>1. numOfCpus \in Nat /\ numOfCpus' \in Nat /\ numOfCpus <= numOfCpus'
      <4>1. numOfCpus \in Nat
        BY DEF TypeOK
      <4>2. numOfCpus' = numOfCpus + Cardinality(online)
        BY <2>2
      <4>3. QED  BY ONLY <2>1, <4>1, <4>2
    <3>2. CASE x = Whole
      BY <2>2, <3>2 DEF Baseline
    <3>3. CASE x # Whole
      <4>1. x \in Nat
        BY <3>3 DEF Lines
      <4>2. QED  BY <2>2, <3>1, <3>3, <4>1 DEF Baseline
    <3>4. QED  BY <3>2, <3>3
  <2>4. Keeps
    BY <2>2, <2>3 DEF Keeps
  <2>5. QED  BY <2>4
<1>4. CASE readBaselines \/ getCurrentMultiCoreUsage \/ Return
  <2>1. /\ counters' = counters /\ fell' = fell /\ open' = open
        /\ UNCHANGED <<lastTotal, numOfCpus, vec_lastTotal>>
    BY <1>4
    DEF readBaselines, getCurrentMultiCoreUsage, Return,
        kernelVars, initVars, baseVars
  <2>2. Keeps
    BY <2>1 DEF Keeps, Baseline
  <2>3. QED  BY <2>2
<1>5. ASSUME NEW c \in Cores, FindLine(c) PROVE Reads(c)
  <2>1. c \in 0..(numOfCpus - 1)
    BY <1>5 DEF FindLine, FindBaseline, FindUsage, StoreLine, Candidates, TypeOK
  <2>2. Baseline(c) = vec_lastTotal[c]
    BY <2>1 DEF Baseline
  <2>3. /\ counters' = counters /\ fell' = fell \ {c}
        /\ lastTotal' = lastTotal /\ numOfCpus' = numOfCpus
        /\ vec_lastTotal' = [vec_lastTotal EXCEPT ![c] = counters[c]]
        /\ \/ open' = open
           \/ open' = [open EXCEPT ![c] = @ - Usage(c, vec_lastTotal[c]).total]
    BY <1>5 DEF FindLine, FindBaseline, FindUsage, StoreLine, Slot, kernelVars, initVars
  <2>4. vec_lastTotal \in [0..(numOfCpus - 1) -> Count]
    BY DEF TypeOK
  <2>5. Baseline(c)' = counters[c]
    BY <2>1, <2>3, <2>4 DEF Baseline
  <2>6. \A x \in Lines \ {c} : Baseline(x)' = Baseline(x)
    BY <2>1, <2>3, <2>4 DEF Baseline
  <2>7. /\ \A x \in Lines \ {c} : open'[x] = open[x]
        /\ open'[c] \in {open[c], open[c] - Usage(c, Baseline(c)).total}
    BY <2>2, <2>3
  <2>8. QED  BY <2>3, <2>5, <2>6, <2>7 DEF Reads
<1>6. ASSUME NEW c \in Cores, PassLine(c) PROVE Keeps
  <2>1. /\ counters' = counters /\ fell' = fell /\ open' = open
        /\ UNCHANGED <<lastTotal, numOfCpus, vec_lastTotal>>
    BY <1>6 DEF PassLine, kernelVars, initVars, baseVars
  <2>2. QED  BY <2>1 DEF Keeps, Baseline
<1>7. QED  BY <1>1, <1>2, <1>3, <1>4, <1>5, <1>6 DEF Call, FindLine

LEMMA StepKinds ==
    ASSUME TypeOK, PlaceInv, [Next]_vars
    PROVE  Moves \/ (\E y \in Lines : Reads(y)) \/ Keeps
<1>1. CASE UNCHANGED vars
  <2>1. /\ counters' = counters /\ fell' = fell /\ open' = open
        /\ UNCHANGED <<lastTotal, numOfCpus, vec_lastTotal>>
    BY <1>1 DEF vars, kernelVars, initVars, baseVars
  <2>2. Keeps
    BY <2>1 DEF Keeps, Baseline
  <2>3. QED  BY <2>2
<1>2. QED  BY <1>1, KernelMoves, CallReads DEF Next

-----------------------------------------------------------------------------
(* No tick is in two figures, and a figure is left out only after a fall.  *)

LEMMA InitBaselines == ASSUME Init PROVE OpenInv /\ FallInv
<1>1. ASSUME NEW x \in Lines
      PROVE  /\ Baseline(x) = Zero
             /\ counters[x].busy = 0 /\ counters[x].idle \in Nat
             /\ open[x] = Ticks(counters[x])
  BY CoresFacts DEF Init, Baseline
<1>2. Ticks(Zero) = 0 /\ Zero.busy = 0 /\ Zero.idle = 0
  BY DEF Ticks, Zero
<1>3. \A x \in Lines : Ticks(counters[x]) \in Nat
  BY <1>1 DEF Ticks
<1>4. OpenInv
  BY <1>1, <1>2, <1>3 DEF OpenInv
<1>5. FallInv
  BY <1>1, <1>2 DEF FallInv
<1>6. QED  BY <1>4, <1>5

LEMMA OpenStep ==
    ASSUME TypeOK, PlaceInv, OpenInv, [Next]_vars PROVE OpenInv'
<1> SUFFICES ASSUME NEW x \in Lines
             PROVE  /\ open'[x] >= 0
                    /\ open'[x] >= Ticks(counters'[x]) - Ticks(Baseline(x)')
  BY DEF OpenInv
<1>1. /\ counters[x] \in [busy : Nat, idle : Int]
      /\ counters'[x] \in [busy : Nat, idle : Int]
      /\ Ticks(counters[x]) \in Int /\ Ticks(counters'[x]) \in Int
      /\ open[x] \in Int /\ open'[x] \in Int
  <2>1. TypeOK'
    BY TypeStep
  <2>2. /\ counters[x] \in [busy : Nat, idle : Int] /\ open[x] \in Int
        /\ counters'[x] \in [busy : Nat, idle : Int] /\ open'[x] \in Int
    BY <2>1 DEF TypeOK
  <2>3. QED  BY <2>2 DEF Ticks
<1>2. /\ Baseline(x) \in [busy : Nat, idle : Int]
      /\ Ticks(Baseline(x)) \in Int
  BY BaselineType DEF Ticks
<1>3. open[x] >= 0 /\ open[x] >= Ticks(counters[x]) - Ticks(Baseline(x))
  BY DEF OpenInv
<1>4. CASE Moves
  <2>1. /\ Baseline(x)' = Baseline(x) /\ open'[x] >= open[x]
        /\ open'[x] - open[x] >= Ticks(counters'[x]) - Ticks(counters[x])
    BY <1>4 DEF Moves
  <2>2. QED  BY <1>1, <1>2, <1>3, <2>1
<1>5. ASSUME NEW y \in Lines, Reads(y)
      PROVE  /\ open'[x] >= 0
             /\ open'[x] >= Ticks(counters'[x]) - Ticks(Baseline(x)')
  <2>1. CASE x # y
    <3>1. Baseline(x)' = Baseline(x) /\ open'[x] = open[x] /\ counters' = counters
      BY <1>5, <2>1 DEF Reads
    <3>2. QED  BY <1>3, <3>1
  <2>2. CASE x = y
    <3>1. /\ Baseline(x)' = counters[x] /\ counters' = counters
          /\ open'[x] \in {open[x], open[x] - Usage(x, Baseline(x)).total}
      BY <1>5, <2>2 DEF Reads
    <3>2. Usage(x, Baseline(x)).total
             \in {0, Ticks(counters[x]) - Ticks(Baseline(x))}
      BY <1>2, UsageFacts
    <3>3. open'[x] >= 0
      BY <1>1, <1>2, <1>3, <3>1, <3>2
    <3>4. Ticks(counters'[x]) - Ticks(Baseline(x)') = 0
      BY <1>1, <3>1
    <3>5. QED  BY <3>3, <3>4
  <2>3. QED  BY <2>1, <2>2
<1>6. CASE Keeps
  BY <1>3, <1>6 DEF Keeps
<1>7. QED  BY <1>4, <1>5, <1>6, StepKinds

LEMMA FallStep ==
    ASSUME TypeOK, PlaceInv, FallInv, [Next]_vars PROVE FallInv'
<1> SUFFICES ASSUME NEW x \in Lines
             PROVE  /\ counters'[x].busy >= Baseline(x)'.busy
                    /\ x \in fell' \/ counters'[x].idle >= Baseline(x)'.idle
  BY DEF FallInv
<1>1. /\ counters[x] \in [busy : Nat, idle : Int]
      /\ counters'[x] \in [busy : Nat, idle : Int]
  <2>1. TypeOK'
    BY TypeStep
  <2>2. QED  BY <2>1 DEF TypeOK
<1>2. Baseline(x) \in [busy : Nat, idle : Int]
  BY BaselineType
<1>3. /\ counters[x].busy >= Baseline(x).busy
      /\ x \in fell \/ counters[x].idle >= Baseline(x).idle
  BY DEF FallInv
<1>4. CASE Moves
  <2>1. /\ Baseline(x)' = Baseline(x)
        /\ counters'[x].busy >= counters[x].busy
        /\ x \in fell' \/ (x \notin fell /\ counters'[x].idle >= counters[x].idle)
    BY <1>4 DEF Moves
  <2>2. QED  BY <1>1, <1>2, <1>3, <2>1
<1>5. ASSUME NEW y \in Lines, Reads(y)
      PROVE  /\ counters'[x].busy >= Baseline(x)'.busy
             /\ x \in fell' \/ counters'[x].idle >= Baseline(x)'.idle
  <2>1. CASE x # y
    <3>1. /\ Baseline(x)' = Baseline(x) /\ counters' = counters
          /\ x \in fell' <=> x \in fell
      BY <1>5, <2>1 DEF Reads
    <3>2. QED  BY <1>3, <3>1
  <2>2. CASE x = y
    <3>1. Baseline(x)' = counters[x] /\ counters' = counters
      BY <1>5, <2>2 DEF Reads
    <3>2. QED  BY <1>1, <3>1
  <2>3. QED  BY <2>1, <2>2
<1>6. CASE Keeps
  BY <1>3, <1>6 DEF Keeps
<1>7. QED  BY <1>4, <1>5, <1>6, StepKinds

\* All figures ever returned of a line stand for no more time than it has
\* counted: no tick is in two of them.
THEOREM TicksCountOnce == Spec => []NoTickTwice
<1> DEFINE Inv == TypeOK /\ PlaceInv /\ OpenInv
<1>1. Init => Inv
  BY InitType, InitBaselines
<1>2. Inv /\ [Next]_vars => Inv'
  BY TypeStep, OpenStep
<1>3. Inv => NoTickTwice
  BY DEF OpenInv, NoTickTwice
<1>4. QED  BY <1>1, <1>2, <1>3, PTL DEF Spec

\* A figure that a step returns is left out only if its line has lost idle
\* time since it was read before.
LEMMA SkipStep ==
    ASSUME TypeOK, PlaceInv, FallInv, [Next]_vars
    PROVE  \A k \in DOMAIN percents' \ DOMAIN percents :
             percents'[k].busy = -1 => percents'[k].line \in fell
<1>1. ASSUME NEW x \in Lines, Usage(x, Baseline(x)).busy = -1
      PROVE  x \in fell /\ Usage(x, Baseline(x)).line = x
  <2>1. /\ Baseline(x) \in [busy : Nat, idle : Int]
        /\ counters[x] \in [busy : Nat, idle : Int]
    BY BaselineType DEF TypeOK
  <2>2. /\ Usage(x, Baseline(x)).line = x
        /\ \/ counters[x].busy < Baseline(x).busy
           \/ counters[x].idle < Baseline(x).idle
    BY <1>1, <2>1, UsageFacts
  <2>3. QED  BY <2>1, <2>2 DEF FallInv
<1>2. CASE getCurrentCpuUsage
  <2>1. percents' = << Usage(Whole, Baseline(Whole)) >>
    BY <1>2 DEF getCurrentCpuUsage, Baseline
  <2>2. QED  BY <1>1, <2>1, CoresFacts
<1>3. ASSUME NEW c \in Cores, FindLine(c), pc = "usage"
      PROVE  \A k \in DOMAIN percents' \ DOMAIN percents :
               percents'[k].busy = -1 => percents'[k].line \in fell
  <2>1. c \in 0..(numOfCpus - 1) /\ c \in Lines /\ c # Whole
    <3>1. c \in cnt..(numOfCpus - 1) /\ cnt \in Nat /\ numOfCpus \in Nat
      BY <1>3 DEF FindLine, FindBaseline, FindUsage, StoreLine, Candidates, TypeOK
    <3>2. QED  BY <3>1, CoresFacts
  <2>2. percents' = Append(percents, Usage(c, Baseline(c)))
    BY <1>3, <2>1 DEF FindLine, FindBaseline, FindUsage, StoreLine, Baseline
  <2>3. Usage(c, Baseline(c)) \in Figure /\ percents \in Seq(Figure)
    BY <2>1, BaselineType, UsageFacts DEF TypeOK
  <2>4. ASSUME NEW k \in DOMAIN percents' \ DOMAIN percents
        PROVE  percents'[k] = Usage(c, Baseline(c))
    BY <2>2, <2>3
  <2>5. QED  BY <1>1, <2>1, <2>4
<1>4. CASE percents' = percents \/ percents' = << >>
  BY <1>4
<1>5. \/ percents' = percents \/ percents' = << >>
      \/ getCurrentCpuUsage
      \/ \E c \in Cores : FindLine(c) /\ pc = "usage"
  BY DEF Next, Kernel, Call, Tick, Unplug, Plug, initcpuUsage, initMultiCore,
         readBaselines, getCurrentMultiCoreUsage, FindLine, FindBaseline,
         FindUsage, StoreLine, PassLine, Return, vars
<1>6. QED  BY <1>2, <1>3, <1>4, <1>5

\* "Just skip this value": only where the idle time of a line fell.
THEOREM SkipsAreFalls == Spec => SkipOnlyAfterFall
<1> DEFINE Inv == TypeOK /\ PlaceInv /\ FallInv
<1>1. Init => Inv
  BY InitType, InitBaselines
<1>2. Inv /\ [Next]_vars => Inv'
  BY TypeStep, FallStep
<1>3. Inv /\ [Next]_vars =>
        [\A k \in DOMAIN percents' \ DOMAIN percents :
           percents'[k].busy = -1 => percents'[k].line \in fell]_vars
  BY SkipStep
<1>4. QED  BY <1>1, <1>2, <1>3, PTL DEF Spec, SkipOnlyAfterFall

-----------------------------------------------------------------------------
(* Every core that is online is found.                                     *)

\* The loop starts at the number of lines found, and no line is of a core
\* below it: a line is passed only if its core is not in the vectors.
LEMMA SearchComes ==
    ASSUME TypeOK, SearchInv, pc = "usage", NEW c \in unread
    PROVE  c \in Candidates(cnt) <=> c < numOfCpus
<1>1. c \in Nat /\ cnt \in Nat /\ numOfCpus \in Nat
  BY CoresFacts DEF TypeOK
<1>2. cnt <= c
  <2>1. CASE cnt = 0
    BY <1>1, <2>1
  <2>2. CASE cnt # 0
    <3>1. cnt \in 1..cnt
      BY <1>1, <2>2
    <3>2. /\ percents[cnt].line \in (cnt - 1)..(numOfCpus - 1)
          /\ percents[cnt].line < c
      BY <3>1 DEF SearchInv
    <3>3. QED  BY <1>1, <3>2
  <2>3. QED  BY <2>1, <2>2
<1>3. QED  BY <1>1, <1>2 DEF Candidates

LEMMA SearchStep ==
    ASSUME TypeOK, PlaceInv, SearchInv, [Next]_vars PROVE SearchInv'
<1> SUFFICES ASSUME pc' = "usage" PROVE SearchInv'
  BY DEF SearchInv
<1>1. CASE UNCHANGED <<pc, cnt, percents, online, unread, numOfCpus>>
  BY <1>1 DEF SearchInv
<1>2. CASE getCurrentMultiCoreUsage
  <2>1. cnt' = 0 /\ percents' = << >> /\ unread' = online'
    BY <1>2 DEF getCurrentMultiCoreUsage, PlaceInv, kernelVars
  <2>2. QED  BY <2>1 DEF SearchInv
<1>3. ASSUME NEW c \in Cores, FindLine(c) PROVE SearchInv'
  <2> DEFINE figure == Usage(c, vec_lastTotal[c])
  <2>1. /\ pc = "usage" /\ c \in Candidates(cnt)
        /\ percents' = Append(percents, figure)
        /\ cnt' = cnt + 1 /\ unread' = unread \ {c}
        /\ online' = online /\ numOfCpus' = numOfCpus
    BY <1>3 DEF FindLine, FindBaseline, FindUsage, StoreLine, kernelVars, initVars
  <2>2. c \in unread /\ c \in online /\ \A d \in unread : c <= d
    BY <1>3, LineFacts DEF FindLine, FindBaseline, FindUsage, StoreLine
  <2>3. /\ c \in Nat /\ cnt \in Nat /\ numOfCpus \in Nat
        /\ unread \subseteq Nat /\ online \subseteq Nat
    BY CoresFacts DEF TypeOK
  <2>4. c \in cnt..(numOfCpus - 1)
    BY <2>1 DEF Candidates
  <2>5. /\ figure.line = c /\ figure \in Figure /\ percents \in Seq(Figure)
    <3>1. c \in Lines /\ vec_lastTotal[c] \in [busy : Nat, idle : Int]
      BY <2>3, <2>4, CoresFacts DEF TypeOK, Count
    <3>2. QED  BY <3>1, UsageFacts DEF TypeOK
  <2> HIDE DEF figure
  <2>6. /\ cnt = Len(percents)
        /\ \A k \in 1..cnt :
             /\ percents[k].line \in online \ unread
             /\ percents[k].line \in (k - 1)..(numOfCpus - 1)
             /\ \A d \in unread : percents[k].line < d
        /\ \A j, k \in 1..cnt : j < k => percents[j].line < percents[k].line
        /\ \A d \in online \ unread :
             d < numOfCpus => \E k \in 1..cnt : percents[k].line = d
    BY <2>1 DEF SearchInv
  <2>7. /\ Len(percents') = cnt + 1
        /\ \A k \in 1..cnt : percents'[k] = percents[k]
        /\ percents'[cnt + 1] = figure
    BY <2>1, <2>3, <2>5, <2>6
  <2>8. ASSUME NEW k \in 1..(cnt + 1)
        PROVE  /\ percents'[k].line \in online \ (unread \ {c})
               /\ percents'[k].line \in (k - 1)..(numOfCpus - 1)
               /\ \A d \in unread \ {c} : percents'[k].line < d
    <3>1. CASE k = cnt + 1
      BY <2>2, <2>3, <2>4, <2>5, <2>7, <3>1
    <3>2. CASE k # cnt + 1
      <4>1. k \in 1..cnt
        BY <2>3, <3>2
      <4>2. QED  BY <2>6, <2>7, <4>1
    <3>3. QED  BY <3>1, <3>2
  <2>9. ASSUME NEW j \in 1..(cnt + 1), NEW k \in 1..(cnt + 1), j < k
        PROVE  percents'[j].line < percents'[k].line
    <3>1. j \in 1..cnt
      BY <2>3, <2>9
    <3>2. CASE k = cnt + 1
      BY <2>2, <2>5, <2>6, <2>7, <3>1, <3>2
    <3>3. CASE k # cnt + 1
      <4>1. k \in 1..cnt
        BY <2>3, <3>3
      <4>2. QED  BY <2>6, <2>7, <2>9, <3>1, <4>1
    <3>4. QED  BY <3>2, <3>3
  <2>10. ASSUME NEW d \in online \ (unread \ {c}), d < numOfCpus
         PROVE  \E k \in 1..(cnt + 1) : percents'[k].line = d
    <3>1. CASE d = c
      <4>1. cnt + 1 \in 1..(cnt + 1)
        BY <2>3
      <4>2. QED  BY <2>5, <2>7, <3>1, <4>1
    <3>2. CASE d # c
      <4>1. PICK k \in 1..cnt : percents[k].line = d
        BY <2>6, <2>10, <3>2
      <4>2. k \in 1..(cnt + 1) /\ percents'[k].line = d
        BY <2>3, <2>7, <4>1
      <4>3. QED  BY <4>2
    <3>3. QED  BY <3>1, <3>2
  <2>11. QED  BY <2>1, <2>7, <2>8, <2>9, <2>10 DEF SearchInv
<1>4. ASSUME NEW c \in Cores, PassLine(c) PROVE SearchInv'
  <2>1. /\ pc = "usage" /\ c \notin Candidates(cnt)
        /\ unread' = unread \ {c}
        /\ UNCHANGED <<percents, cnt, online, numOfCpus>>
    BY <1>4 DEF PassLine, kernelVars, initVars
  <2>2. c \in unread
    BY <1>4, LineFacts DEF PassLine
  <2>3. ~(c < numOfCpus)
    BY <2>1, <2>2, SearchComes
  <2>4. QED  BY <2>1, <2>3 DEF SearchInv
<1>5. \/ UNCHANGED <<pc, cnt, percents, online, unread, numOfCpus>>
      \/ getCurrentMultiCoreUsage
      \/ \E c \in Cores : FindLine(c) \/ PassLine(c)
  BY DEF Next, Kernel, Call, Tick, Unplug, Plug, Reading, initcpuUsage,
         getCurrentCpuUsage, initMultiCore, readBaselines, FindLine,
         Return, vars, kernelVars, initVars, readVars, baseVars
<1>6. QED  BY <1>1, <1>2, <1>3, <1>4, <1>5

\* When the call returns, all lines are read.
LEMMA FoundStep ==
    ASSUME TypeOK, PlaceInv, SearchInv, [Next]_vars, pc = "usage", pc' = "idle"
    PROVE  /\ {percents[k].line : k \in DOMAIN percents}
                = online \cap 0..(numOfCpus - 1)
           /\ \A j, k \in DOMAIN percents :
                j < k => percents[j].line < percents[k].line
<1>1. unread = {}
  BY DEF Next, Kernel, Call, Tick, Unplug, Plug, Reading, initcpuUsage,
         getCurrentCpuUsage, initMultiCore, readBaselines,
         getCurrentMultiCoreUsage, FindBaseline, FindUsage, StoreLine,
         PassLine, Return, vars
<1>2. /\ percents \in Seq(Figure) /\ numOfCpus \in Nat
      /\ online \subseteq Nat
  BY CoresFacts DEF TypeOK
<1>3. DOMAIN percents = 1..cnt
  BY <1>2 DEF SearchInv
<1>4. ASSUME NEW k \in 1..cnt
      PROVE  percents[k].line \in online \cap 0..(numOfCpus - 1)
  <2>1. /\ percents[k].line \in online
        /\ percents[k].line \in (k - 1)..(numOfCpus - 1)
    BY DEF SearchInv
  <2>2. QED  BY <1>2, <2>1
<1>5. ASSUME NEW c \in online \cap 0..(numOfCpus - 1)
      PROVE  \E k \in 1..cnt : percents[k].line = c
  BY <1>1, <1>2 DEF SearchInv
<1>6. {percents[k].line : k \in 1..cnt} = online \cap 0..(numOfCpus - 1)
  BY <1>4, <1>5
<1>7. QED  BY <1>3, <1>6 DEF SearchInv

\* A core that is offline hides no other: the figures are of the cores that are
\* online and counted, each once and in their order.
THEOREM CoresAreFound == Spec => EveryCoreIsFound
<1> DEFINE Inv == TypeOK /\ PlaceInv /\ SearchInv
           Found ==
             /\ {percents[k].line : k \in DOMAIN percents}
                  = online \cap 0..(numOfCpus - 1)
             /\ \A j, k \in DOMAIN percents :
                  j < k => percents[j].line < percents[k].line
<1>1. Init => Inv
  BY InitType
<1>2. Inv /\ [Next]_vars => Inv'
  BY TypeStep, SearchStep
<1>3. Inv /\ [Next]_vars => [pc = "usage" /\ pc' = "idle" => Found]_vars
  BY FoundStep
<1>4. QED  BY <1>1, <1>2, <1>3, PTL DEF Spec, EveryCoreIsFound

=============================================================================
