-------------------------- MODULE SystemUtilProofs --------------------------
(***************************************************************************)
(* Proofs about SystemUtil for any number of processes and of pipes: type  *)
(* correctness, what a ping leaves behind, that the application runs once, *)
(* what the search by name misses and whom kill() reaches.                 *)
(***************************************************************************)
EXTENDS SystemUtil, FiniteSetTheorems, WellFoundedInduction, TLAPS

\* The process at the other end of the last pipe.
PingInv ==
    IF pc = "ping"
      THEN /\ ping \in Pids
           /\ procs[ping] = IF output = "nothing" THEN "ping" ELSE Zombie
      ELSE ping = None /\ output = "nothing"

ProcInv == TypeOK /\ PingInv /\ LeaksAreSilentCalls

LEMMA PidsAreNumbers == Pids \subseteq Nat \ {0} /\ IsFiniteSet(Pids)
<1>1. Cardinality(Pids) \in Nat
  BY FS_CardinalityType, SystemUtilAssumption
<1>2. QED  BY <1>1, SystemUtilAssumption

\* readdir() has a first number as long as it has any.
LEMMA FirstFacts ==
    ASSUME TypeOK, entries # {}
    PROVE  First \in entries /\ First \in Pids
<1>1. entries \subseteq Nat /\ entries \subseteq Pids
  BY PidsAreNumbers DEF TypeOK
<1>2. PICK p \in entries : \A q \in entries : <<q, p>> \notin OpToRel(<, Nat)
  BY <1>1, WFMin, NatLessThanWellFounded
<1>3. ASSUME NEW q \in entries PROVE p <= q
  <2>1. ASSUME q < p PROVE <<q, p>> \in OpToRel(<, Nat)
    <3>1. <<q, p>> \in Nat \X Nat
      BY <1>1
    <3>2. <<q, p>>[1] < <<q, p>>[2]
      BY <2>1
    <3>3. QED  BY ONLY <3>1, <3>2, Zenon DEF OpToRel
  <2>2. ~(q < p)
    BY <1>2, <2>1, Zenon
  <2>3. QED  BY <1>1, <2>2
<1>4. QED  BY <1>1, <1>3 DEF First

LEMMA ZombiesAreFinite == IsFiniteSet(Zombies) /\ Cardinality(Zombies) \in Nat
<1>1. Zombies \subseteq Pids
  BY DEF Zombies
<1>2. QED  BY <1>1, PidsAreNumbers, FS_Subset, FS_CardinalityType

LEMMA ProcInit ==
    ASSUME Init PROVE ProcInv
<1>1. TypeOK /\ PingInv
  <2>1. PICK p \in Pids : procs[p] = procName
                          /\ stage = [q \in Pids |-> IF q = p THEN "main" ELSE "none"]
    BY DEF Init, Named
  <2>2. stage \in [Pids -> Stages]
    BY <2>1 DEF Stages
  <2>3. cursor \in 1..(Cardinality(Pids) + 1)
    <3>1. Cardinality(Pids) \in Nat
      BY FS_CardinalityType, SystemUtilAssumption
    <3>2. 1 \in 1..(Cardinality(Pids) + 1)
      BY <3>1
    <3>3. QED  BY <3>2, Zenon DEF Init
  <2>4. 0 \in 0..MaxFiles
    BY SystemUtilAssumption
  <2>5. procs \in [Pids -> Names \cup {Free, Zombie}]
        /\ (\A q \in Pids : stage[q] # "none" => procs[q] = procName)
    BY <2>1 DEF Init, Names
  <2>6. QED
    BY <2>2, <2>3, <2>4, <2>5 DEF Init, TypeOK, PingInv, Outputs, None
<1>2. Zombies = {}
  BY DEF Init, Zombies, Free, procName, Zombie
<1>3. LeaksAreSilentCalls
  <2>1. Cardinality(Zombies) = 0
    BY <1>2, FS_EmptySet
  <2>2. pipes = 0 /\ silent = 0 /\ pc # "ping" /\ output = "nothing"
    BY DEF Init
  <2>3. QED  BY <2>1, <2>2 DEF LeaksAreSilentCalls
<1>4. QED  BY <1>1, <1>3 DEF ProcInv

-----------------------------------------------------------------------------
(* Types, and what a ping leaves behind.                                   *)

\* What a step must leave alone unless it is one of isDeviceOnline().
Leaves ==
    /\ procs' \in [Pids -> Names \cup {Free, Zombie}]
    /\ stage' \in [Pids -> Stages]
    /\ \A p \in Pids : stage'[p] # "none" => procs'[p] = procName
    /\ \A p \in Pids : procs'[p] = Zombie <=> procs[p] = Zombie
    /\ pc = "ping" => procs'[ping] = procs[ping]
    /\ UNCHANGED pingVars

\* What it may do to the search.
Searches ==
    /\ pc' = pc \/ (pc # "ping" /\ pc' \in {"idle", "dir", "have"})
    /\ entries' \subseteq Pids
    /\ cursor' \in 1..(Cardinality(Pids) + 1)
    /\ pid' \in Pids \cup {-1}
    /\ steady' \subseteq Pids /\ unread' \subseteq Pids
    /\ turned' \in BOOLEAN

LEMMA OtherStep ==
    ASSUME ProcInv, Leaves, Searches PROVE ProcInv'
<1> USE DEF ProcInv
<1>1. TypeOK'
  BY DEF TypeOK, Leaves, Searches, pingVars
<1>2. PingInv'
  BY DEF PingInv, TypeOK, Leaves, Searches, pingVars
<1>3. LeaksAreSilentCalls'
  <2>1. Zombies' = Zombies
    BY DEF Zombies, Leaves
  <2>2. pc' = "ping" <=> pc = "ping"
    BY DEF Searches
  <2>3. UNCHANGED <<pipes, silent, output>>
    BY DEF Leaves, pingVars
  <2>4. QED  BY <2>1, <2>2, <2>3 DEF LeaksAreSilentCalls
<1>4. QED  BY <1>1, <1>2, <1>3

\* The processes that others start, change and end are neither zombies nor a
\* ping that is waited for.
LEMMA EnvironmentStep ==
    ASSUME ProcInv, Environment PROVE Leaves /\ Searches
<1> USE DEF ProcInv, TypeOK, Leaves, Searches, KeepSteady, findVars, Names, Free,
            procName, Zombie
<1>1. ASSUME NEW p \in Pids, End(p) PROVE Leaves /\ Searches
  BY <1>1 DEF End, Others, PingInv
<1>2. ASSUME NEW p \in Pids, NEW n \in {procName, "other"}, Start(p, n)
      PROVE  Leaves /\ Searches
  BY <1>2 DEF Start, PingInv
<1>3. ASSUME NEW p \in Pids, NEW n \in {procName, "other"}, Exec(p, n)
      PROVE  Leaves /\ Searches
  BY <1>3 DEF Exec, Others, PingInv
<1>4. QED  BY <1>1, <1>2, <1>3 DEF Environment

LEMMA SearchStep ==
    ASSUME ProcInv, OpenDir \/ ReadDir \/ EndDir \/ ReadCmdLine
    PROVE  Leaves /\ Searches
<1>1. Leaves
  <2>1. UNCHANGED <<procs, stage, pingVars>>
    BY DEF OpenDir, ReadDir, EndDir, ReadCmdLine
  <2>2. QED  BY <2>1 DEF Leaves, ProcInv, TypeOK
<1>2. CASE OpenDir
  <2>1. 1 \in 1..(Cardinality(Pids) + 1)
    BY FS_CardinalityType, SystemUtilAssumption
  <2>2. Searches
    BY <1>2, <2>1 DEF OpenDir, NoPid, Searches, Named
  <2>3. QED  BY <1>1, <2>2
<1>3. CASE ReadDir
  <2>1. PICK last \in Pids :
          /\ entries' = Live \cap cursor..last
          /\ cursor' = last + 1
    BY <1>3 DEF ReadDir
  <2>2. cursor' \in 1..(Cardinality(Pids) + 1)
    <3>1. Cardinality(Pids) \in Nat /\ last \in 1..Cardinality(Pids)
      BY FS_CardinalityType, SystemUtilAssumption
    <3>2. QED  BY <2>1, <3>1
  <2>3. entries' \subseteq Pids
    BY <2>1 DEF Live
  <2>4. Searches
    BY <1>3, <2>2, <2>3 DEF ReadDir, Searches, ProcInv, TypeOK
  <2>5. QED  BY <1>1, <2>4
<1>4. CASE EndDir
  BY <1>1, <1>4 DEF EndDir, Searches, findVars, ProcInv, TypeOK
<1>5. CASE ReadCmdLine
  <2>1. First \in Pids
    BY <1>5, FirstFacts DEF ReadCmdLine, ProcInv
  <2>2. Searches
    BY <1>5, <2>1 DEF ReadCmdLine, Searches, Rest, Named, ProcInv, TypeOK
  <2>3. QED  BY <1>1, <2>2
<1>6. QED  BY <1>2, <1>3, <1>4, <1>5

LEMMA KillStep ==
    ASSUME ProcInv, Kill PROVE Leaves /\ Searches
<1>1. Searches
  BY DEF Kill, Searches, ProcInv, TypeOK
<1>2. Leaves
  <2>1. CASE UNCHANGED <<procs, stage>>
    BY <2>1 DEF Kill, Leaves, ProcInv, TypeOK
  <2>2. CASE Becomes([p \in Pids |-> IF p \in Victims /\ procs[p] \in Names
                                       THEN Free ELSE procs[p]],
                     [p \in Pids |-> IF p \in Victims THEN "none" ELSE stage[p]])
    BY <2>2 DEF Kill, Leaves, Becomes, ProcInv, TypeOK, Names, Free, Zombie,
                procName, Stages
  <2>3. QED  BY <2>1, <2>2 DEF Kill
<1>3. QED  BY <1>1, <1>2

LEMMA DaemonStep ==
    ASSUME ProcInv, NEW p \in Pids, startAppAsDaemon(p) PROVE Leaves /\ Searches
<1>1. Searches
  BY DEF startAppAsDaemon, Searches, KeepSteady, ProcInv, TypeOK
<1> USE DEF ProcInv, TypeOK, Leaves, startAppAsDaemon, Becomes, Names, Free, Zombie,
            procName, Stages
<1>2. ASSUME Exit(p), stage[p] # "none" PROVE Leaves
  BY <1>2 DEF Exit, PingInv
<1>3. ASSUME NEW s \in Stages, Forks(p, s), stage[p] # "none" PROVE Leaves
  <2>1. PICK q \in Pids \ Live :
          /\ procs' = [procs EXCEPT ![q] = procName]
          /\ stage' = [stage EXCEPT ![p] = AfterFork, ![q] = s]
    BY <1>3 DEF Forks
  <2>2. procs[q] = Free
    BY DEF Live
  <2>3. QED  BY <1>3, <2>1, <2>2 DEF AfterFork, PingInv
<1>4. ASSUME NEW s \in Stages, stage[p] # "none",
             Becomes(procs, [stage EXCEPT ![p] = s])
      PROVE  Leaves
  BY <1>4
<1>5. CASE ForkChild(p)
  BY <1>1, <1>3, <1>4, <1>5 DEF ForkChild
<1>6. CASE SetSid(p)
  BY <1>1, <1>2, <1>4, <1>6 DEF SetSid
<1>7. CASE ForkSecond(p)
  BY <1>1, <1>2, <1>3, <1>7 DEF ForkSecond
<1>8. CASE ChDir(p)
  BY <1>1, <1>4, <1>8 DEF ChDir
<1>9. CASE ParentExit(p)
  BY <1>1, <1>2, <1>9 DEF ParentExit
<1>10. QED  BY <1>5, <1>6, <1>7, <1>8, <1>9

LEMMA PopenStep ==
    ASSUME ProcInv, Popen PROVE ProcInv'
<1> USE DEF ProcInv
<1>1. CASE UNCHANGED <<procs, ping, pipes, output, pc>>
  BY <1>1 DEF Popen, TypeOK, PingInv, LeaksAreSilentCalls, Zombies, findVars
<1>2. CASE pipes < MaxFiles /\ Live # Pids
  <2>1. PICK p \in Pids \ Live :
          /\ procs' = [procs EXCEPT ![p] = "ping"] /\ ping' = p
          /\ pipes' = pipes + 1 /\ output' = "nothing" /\ pc' = "ping"
    BY <1>2 DEF Popen
  <2>2. procs[p] = Free /\ stage[p] = "none"
    BY <2>1 DEF Live, TypeOK, Free, procName
  <2>3. pc = "idle" /\ output = "nothing" /\ UNCHANGED <<stage, findVars, silent>>
    BY DEF Popen, PingInv
  <2>4. TypeOK'
    <3>1. pipes' \in 0..MaxFiles
      BY <1>2, <2>1, SystemUtilAssumption DEF TypeOK
    <3>2. QED
      BY <2>1, <2>2, <2>3, <3>1 DEF TypeOK, findVars, Names, Free, Outputs
  <2>5. PingInv'
    BY <2>1 DEF PingInv, TypeOK
  <2>6. Zombies' = Zombies
    BY <2>1, <2>2 DEF Zombies, Zombie, Free, TypeOK
  <2>7. LeaksAreSilentCalls'
    BY <2>1, <2>3, <2>6 DEF LeaksAreSilentCalls, TypeOK
  <2>8. QED  BY <2>4, <2>5, <2>7
<1>3. QED  BY <1>1, <1>2 DEF Popen

LEMMA PingEndsStep ==
    ASSUME ProcInv, PingEnds PROVE ProcInv'
<1> USE DEF ProcInv
<1>1. /\ ping \in Pids /\ procs[ping] = "ping" /\ output = "nothing"
      /\ procs' = [procs EXCEPT ![ping] = Zombie]
      /\ output' \in Outputs /\ output' # "nothing"
      /\ UNCHANGED <<stage, pc, findVars, pipes, ping, silent>>
  BY DEF PingEnds, PingInv, Zombie, TypeOK, Outputs, None
<1>2. TypeOK'
  BY <1>1 DEF TypeOK, findVars, procName
<1>3. PingInv'
  BY <1>1 DEF PingInv, TypeOK, PingEnds
<1>4. Zombies' = Zombies \cup {ping} /\ ping \notin Zombies
  BY <1>1 DEF Zombies, Zombie, TypeOK
<1>5. Cardinality(Zombies') = Cardinality(Zombies) + 1
  BY <1>4, ZombiesAreFinite, FS_AddElement
<1>6. LeaksAreSilentCalls'
  BY <1>1, <1>5 DEF LeaksAreSilentCalls, TypeOK
<1>7. QED  BY <1>2, <1>3, <1>6

LEMMA ReadPingStep ==
    ASSUME ProcInv, ReadPing PROVE ProcInv'
<1> USE DEF ProcInv
<1>1. /\ pc = "ping" /\ output # "nothing" /\ output \in Outputs
      /\ ping \in Pids /\ procs[ping] = Zombie /\ stage[ping] = "none"
      /\ pc' = "idle" /\ ping' = None /\ output' = "nothing"
      /\ UNCHANGED <<stage, findVars>>
  BY DEF ReadPing, PingInv, TypeOK, Zombie, procName
<1>2. pipes = silent + 1 /\ Cardinality(Zombies) = silent + 1
      /\ silent \in Nat /\ pipes \in 0..MaxFiles
  BY <1>1 DEF LeaksAreSilentCalls, TypeOK
<1>3. PingInv'
  BY <1>1 DEF PingInv
<1>4. CASE Closes(output)
  <2>1. /\ pipes' = pipes - 1 /\ procs' = [procs EXCEPT ![ping] = Free]
        /\ silent' = silent
    BY <1>4 DEF ReadPing, Closes
  <2>2. TypeOK'
    <3>1. pipes' \in 0..MaxFiles
      BY <1>2, <2>1, SystemUtilAssumption
    <3>2. QED
      BY <1>1, <2>1, <3>1 DEF TypeOK, findVars, Free, None, Outputs
  <2>3. Zombies' = Zombies \ {ping} /\ ping \in Zombies
    BY <1>1, <2>1 DEF Zombies, Zombie, Free, TypeOK
  <2>4. Cardinality(Zombies') = Cardinality(Zombies) - 1
    BY <2>3, ZombiesAreFinite, FS_RemoveElement
  <2>5. LeaksAreSilentCalls'
    BY <1>1, <1>2, <2>1, <2>4 DEF LeaksAreSilentCalls
  <2>6. QED  BY <1>3, <2>2, <2>5
<1>5. CASE ~Closes(output)
  <2>1. /\ output = "neither"
        /\ UNCHANGED <<pipes, procs>> /\ silent' = silent + 1
    BY <1>1, <1>5 DEF ReadPing, Closes, Outputs
  <2>2. TypeOK'
    <3>1. silent' \in 0..MaxFiles
      BY <1>2, <2>1, SystemUtilAssumption
    <3>2. QED
      BY <1>1, <2>1, <3>1 DEF TypeOK, findVars, None, Outputs
  <2>3. Zombies' = Zombies
    BY <2>1 DEF Zombies
  <2>4. LeaksAreSilentCalls'
    BY <1>1, <1>2, <2>1, <2>3 DEF LeaksAreSilentCalls
  <2>5. QED  BY <1>3, <2>2, <2>4
<1>6. QED  BY <1>4, <1>5

LEMMA ProcStep ==
    ASSUME ProcInv, [Next]_vars PROVE ProcInv'
<1>1. CASE Environment
  BY <1>1, EnvironmentStep, OtherStep
<1>2. CASE OpenDir \/ ReadDir \/ EndDir \/ ReadCmdLine
  BY <1>2, SearchStep, OtherStep
<1>3. CASE Kill
  BY <1>3, KillStep, OtherStep
<1>4. CASE \E p \in Pids : startAppAsDaemon(p)
  BY <1>4, DaemonStep, OtherStep
<1>5. CASE Popen
  BY <1>5, PopenStep
<1>6. CASE PingEnds
  BY <1>6, PingEndsStep
<1>7. CASE ReadPing
  BY <1>7, ReadPingStep
<1>8. CASE UNCHANGED vars
  BY <1>8 DEF ProcInv, TypeOK, PingInv, LeaksAreSilentCalls, Zombies, vars, findVars,
              pingVars
<1>9. QED  BY <1>1, <1>2, <1>3, <1>4, <1>5, <1>6, <1>7, <1>8 DEF Next

LEMMA ProcHolds == Spec => []ProcInv
  BY ProcInit, ProcStep, PTL DEF Spec

\* The table of processes, the search and the pipes have their types; so a
\* search that finds a process has the number of one, and no more pipes are
\* open than there can be.
THEOREM TypeCorrect == Spec => []TypeOK
<1>1. ProcInv => TypeOK
  BY DEF ProcInv
<1>2. QED  BY <1>1, ProcHolds, PTL

\* Pipes and zombies are left behind by the pings without a verdict, and by
\* no others.
THEOREM LeaksAreKnown == Spec => []LeaksAreSilentCalls
<1>1. ProcInv => LeaksAreSilentCalls
  BY DEF ProcInv
<1>2. QED  BY <1>1, ProcHolds, PTL

-----------------------------------------------------------------------------
(* The application.                                                        *)

\* The processes that have not left startAppAsDaemon() for good.
Running == {p \in Pids : stage[p] \notin {"none", "exit"}}

OnlyOne == \A p, q \in Running : p = q

LEMMA OneInit ==
    ASSUME Init PROVE OnlyOne
<1>1. PICK p \in Pids : stage = [q \in Pids |-> IF q = p THEN "main" ELSE "none"]
  BY DEF Init, Named
<1>2. QED  BY <1>1 DEF OnlyOne, Running

LEMMA OneStep ==
    ASSUME ProcInv, OnlyOne, [Next]_vars PROVE OnlyOne'
<1> USE DEF OnlyOne, Running
<1>1. stage \in [Pids -> Stages]
  BY DEF ProcInv, TypeOK
<1>2. ASSUME stage' = stage PROVE OnlyOne'
  BY <1>2
<1>3. CASE Environment \/ OpenDir \/ ReadDir \/ EndDir \/ ReadCmdLine
  BY <1>2, <1>3 DEF Environment, Start, Exec, End, OpenDir, ReadDir, EndDir, ReadCmdLine
<1>4. CASE Popen \/ PingEnds \/ ReadPing \/ UNCHANGED vars
  BY <1>2, <1>4 DEF Popen, PingEnds, ReadPing, vars
<1>5. CASE Kill
  BY <1>1, <1>2, <1>5 DEF Kill, Becomes
<1>6. ASSUME NEW p \in Pids, startAppAsDaemon(p) PROVE OnlyOne'
  <2>1. CASE stage[p] = "exit"
    BY <1>1, <1>6, <2>1
    DEF startAppAsDaemon, ForkChild, SetSid, ForkSecond, ChDir, ParentExit, Exit, Becomes
  <2>2. CASE p \in Running
    <3>1. ASSUME NEW s \in Stages, Becomes(procs, [stage EXCEPT ![p] = s])
          PROVE  OnlyOne'
      BY <1>1, <2>2, <3>1 DEF Becomes
    <3>2. ASSUME Exit(p) PROVE OnlyOne'
      BY <1>1, <3>2 DEF Exit, Becomes
    <3>3. ASSUME NEW s \in Stages, Forks(p, s) PROVE OnlyOne'
      <4>1. PICK q \in Pids \ Live : stage' = [stage EXCEPT ![p] = AfterFork, ![q] = s]
        BY <3>3 DEF Forks, Becomes
      <4>2. QED  BY <1>1, <2>2, <4>1 DEF AfterFork
    <3>4. QED
      BY <1>6, <2>2, <3>1, <3>2, <3>3
      DEF startAppAsDaemon, ForkChild, SetSid, ForkSecond, ChDir, ParentExit, Stages
  <2>3. CASE stage[p] = "none"
    BY <1>6, <2>3 DEF startAppAsDaemon, ForkChild, SetSid, ForkSecond, ChDir, ParentExit
  <2>4. QED  BY <2>1, <2>2, <2>3
<1>7. QED  BY <1>3, <1>4, <1>5, <1>6 DEF Next

\* However forks and setsid() go, no two processes run the application once
\* startAppAsDaemon() has returned, and none does while the first is in it.
THEOREM OneApplication == Spec => []AppRunsOnce
<1>1. OnlyOne => AppRunsOnce
  <2> SUFFICES ASSUME OnlyOne PROVE AppRunsOnce
    OBVIOUS
  <2> DEFINE Done == {p \in Pids : stage[p] \in {"true", "false"}}
  <2>1. Cardinality(Done) <= 1
    <3>1. CASE Done = {}
      BY <3>1, FS_EmptySet
    <3>2. CASE Done # {}
      <4>1. PICK p \in Done : TRUE
        BY <3>2
      <4>2. Done = {p}
        BY <4>1 DEF OnlyOne, Running
      <4>3. Cardinality({p}) = 1
        BY FS_Singleton
      <4>4. QED  BY <4>2, <4>3
    <3>3. QED  BY <3>1, <3>2
  <2>2. \A p, q \in Pids : stage[p] = "main" => stage[q] \notin {"true", "false"}
    BY DEF OnlyOne, Running
  <2>3. QED  BY <2>1, <2>2 DEF AppRunsOnce
<1>2. QED  BY <1>1, OneInit, OneStep, ProcInit, ProcStep, PTL DEF Spec

-----------------------------------------------------------------------------
(* The search.                                                             *)

\* Those who bore the name ever since the call still bear it.  While the search
\* goes on, each of them is yet to come unless its name could not be read.  The
\* one that is found is one of them until it turns.
SearchInv ==
    /\ \A p \in steady : p \in Pids /\ procs[p] = procName
    /\ pc = "dir" => /\ pid = -1
                     /\ \A p \in steady \ unread : p \in entries \/ p >= cursor
    /\ pc = "have" /\ pid # -1 => pid \in steady \/ turned

LEMMA SearchInvStep ==
    ASSUME ProcInv, SearchInv, [Next]_vars PROVE SearchInv'
<1>1. ASSUME KeepSteady, UNCHANGED <<pc, entries, cursor, pid, unread>>
      PROVE  SearchInv'
  BY <1>1 DEF KeepSteady, SearchInv
<1>2. CASE (\E p \in Pids : startAppAsDaemon(p))
  BY <1>1, <1>2 DEF startAppAsDaemon
<1>3. CASE \E p \in Pids : End(p) \/ \E n \in {procName, "other"} : Exec(p, n)
  BY <1>1, <1>3 DEF End, Exec
<1>4. CASE \E p \in Pids, n \in {procName, "other"} : Start(p, n)
  <2>1. \A p \in steady : procs'[p] = procName
    BY <1>4 DEF Start, SearchInv, ProcInv, TypeOK, Free, procName
  <2>2. QED  BY <1>4, <2>1 DEF Start, SearchInv, findVars
<1>5. CASE OpenDir
  <2>1. \A p \in Pids : p >= 1
    BY PidsAreNumbers
  <2>2. QED  BY <1>5, <2>1 DEF OpenDir, NoPid, SearchInv, Named
<1>6. CASE ReadDir
  <2>1. PICK last \in Pids :
          entries' = Live \cap cursor..last /\ cursor' = last + 1
    BY <1>6 DEF ReadDir
  <2>2. /\ pc = "dir" /\ entries = {} /\ cursor \in Nat /\ last \in Nat
        /\ UNCHANGED <<procs, pc, pid, steady, unread, turned>>
    BY <1>6, PidsAreNumbers, FS_CardinalityType, SystemUtilAssumption
    DEF ReadDir, ProcInv, TypeOK
  <2>3. ASSUME NEW p \in steady \ unread PROVE p \in entries' \/ p >= cursor'
    <3>1. p \in Live /\ p >= cursor /\ p \in Nat
      BY <2>2, PidsAreNumbers DEF SearchInv, Live, Free, procName
    <3>2. QED  BY <2>1, <2>2, <3>1
  <2>4. QED  BY <2>2, <2>3 DEF SearchInv
<1>7. CASE EndDir
  BY <1>7 DEF EndDir, SearchInv, findVars
<1>8. CASE ReadCmdLine
  <2>1. First \in Pids
    BY <1>8, FirstFacts DEF ReadCmdLine, ProcInv
  <2>2. CASE /\ procs[First] = procName /\ pid' = First /\ pc' = "have"
             /\ steady' = steady \cup {First}
    BY <1>8, <2>1, <2>2 DEF ReadCmdLine, SearchInv
  <2>3. CASE /\ unread' = unread \cup (Named \cap {First})
             /\ UNCHANGED <<pid, pc, steady>>
    BY <1>8, <2>1, <2>3 DEF ReadCmdLine, SearchInv, Rest, Named
  <2>4. QED  BY <1>8, <2>2, <2>3 DEF ReadCmdLine
<1>9. CASE Kill
  BY <1>9 DEF Kill, SearchInv
<1>10. CASE Popen
  <2>1. \A p \in steady : procs'[p] = procName
    BY <1>10 DEF Popen, Live, SearchInv, ProcInv, TypeOK, Free, procName
  <2>2. QED  BY <1>10, <2>1 DEF Popen, SearchInv, findVars
<1>11. CASE PingEnds
  <2>1. \A p \in steady : procs'[p] = procName
    BY <1>11 DEF PingEnds, SearchInv, ProcInv, TypeOK, procName
  <2>2. QED  BY <1>11, <2>1 DEF PingEnds, SearchInv, findVars
<1>12. CASE ReadPing
  <2>1. procs[ping] = Zombie
    BY <1>12 DEF ReadPing, ProcInv, PingInv
  <2>2. \A p \in steady : procs'[p] = procName
    BY <1>12, <2>1 DEF ReadPing, SearchInv, ProcInv, TypeOK, procName, Zombie
  <2>3. QED  BY <1>12, <2>2 DEF ReadPing, SearchInv, findVars
<1>13. CASE UNCHANGED vars
  BY <1>13 DEF vars, findVars, SearchInv
<1>14. QED
  BY <1>2, <1>3, <1>4, <1>5, <1>6, <1>7, <1>8, <1>9, <1>10, <1>11, <1>12, <1>13
  DEF Next, Environment

LEMMA SearchHolds == Spec => [](ProcInv /\ SearchInv)
<1>1. Init => SearchInv
  BY DEF Init, SearchInv
<1>2. QED  BY <1>1, ProcInit, ProcStep, SearchInvStep, PTL DEF Spec

\* However many processes have come and gone, a search that finds none has
\* missed none that bore the name all the time but those it could not read.
THEOREM SearchMissesNone == Spec => NotFoundIsAbsent
<1>1. ASSUME ProcInv, SearchInv, EndDir PROVE steady' \subseteq unread'
  <2>1. pc = "dir" /\ entries = {} /\ cursor \notin Pids /\ UNCHANGED findVars
    BY <1>1 DEF EndDir
  <2>2. Cardinality(Pids) \in Nat /\ cursor = Cardinality(Pids) + 1
    BY <1>1, <2>1, FS_CardinalityType, SystemUtilAssumption DEF ProcInv, TypeOK
  <2>3. ASSUME NEW p \in steady \ unread PROVE FALSE
    <3>1. p \in 1..Cardinality(Pids) /\ p >= cursor
      BY <1>1, <2>1, SystemUtilAssumption DEF SearchInv
    <3>2. QED  BY <2>2, <3>1
  <2>4. QED  BY <2>1, <2>3 DEF findVars
<1>2. ASSUME OpenDir, pc' = "have" PROVE steady' \subseteq unread'
  BY <1>2 DEF OpenDir
<1>3. QED  BY <1>1, <1>2, SearchHolds, PTL DEF Spec, NotFoundIsAbsent

\* Whoever is killed is the process that was found and has borne the name ever
\* since, or the one that was found has turned; nobody when none was found.
THEOREM KillReachesFound == Spec => KillsFoundOnly
<1>1. ASSUME ProcInv, SearchInv, Kill, NEW p \in Pids, procs'[p] # procs[p]
      PROVE  p = pid /\ (p \in steady \/ turned)
  <2>1. p \in Victims
    BY <1>1 DEF Kill, Becomes, ProcInv, TypeOK
  <2>2. p = pid /\ pid # -1
    BY <2>1 DEF Victims
  <2>3. QED  BY <1>1, <2>2 DEF Kill, SearchInv
<1>2. ProcInv /\ SearchInv => (Kill => \A p \in Pids : procs'[p] # procs[p]
                                  => p = pid /\ (p \in steady \/ turned))
  BY <1>1
<1>3. QED  BY <1>2, SearchHolds, PTL DEF Spec, KillsFoundOnly

=============================================================================
