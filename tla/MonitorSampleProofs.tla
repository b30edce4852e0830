------------------------ MODULE MonitorSampleProofs -------------------------
(***************************************************************************)
(* Proofs about what linuxsysmonitor shows of a device's traffic and of    *)
(* the memory, whatever the kernel does and however long samples and       *)
(* readings take: the networkLoad (module NetworkLoad), on its own and as  *)
(* the worker uses it, how its numbers are shown (module ByteFigures), the *)
(* memoryLoad (module MemoryLoad), and a sample that is made of them.      *)
(***************************************************************************)
EXTENDS MonitorSample, DataLemmas

-----------------------------------------------------------------------------
(* The networkLoad: types.                                                 *)

\* What the proofs use of the constants.
LEMMA Constant ==
    /\ Second \in Nat \ {0} /\ Modulus \in Nat \ {0}
    /\ Peak \in Nat /\ Slow \in Nat
    /\ ethDev \in Devices
  BY NetworkLoadAssumption

\* Nothing that was read is mistaken for the empty map.
LEMMA EmptyIsNoStat == \A stat \in Stat : stat # Empty
<1>1. ASSUME NEW stat \in Stat PROVE DOMAIN stat # DOMAIN Empty
  BY DEF Stat, Empty
<1>2. QED  BY <1>1

\* The line that is read is one of a device in the file.
LEMMA MatchedType ==
    ASSUME TypeOK, Matching # {}
    PROVE  Matched \in Range(file) /\ Matched \in Devices
<1>1. Matching \subseteq Nat
  BY DEF Matching, TypeOK
<1>2. Min(Matching) \in Matching
  BY <1>1, LeastNumber
<1>3. file[Min(Matching)] \in Range(file)
  BY <1>2 DEF Matching, Range
<1>4. Range(file) \subseteq Devices
  BY DEF TypeOK, Range
<1>5. QED  BY <1>3, <1>4 DEF Matched

\* Where a figure comes from stays that as time passes, as an attempt to read it
\* again fails, and as a device is replaced.
LEMMA OriginsGrow ==
    ASSUME now \in Nat, now' = now \/ now' = now + 1
    PROVE  Origins \subseteq Origins' /\ Nowhere \in Origins
<1>1. 0..now \subseteq 0..now' /\ 0 \in 0..now
  OBVIOUS
<1>2. QED  BY <1>1 DEF Origins, Nowhere

LEMMA OriginType ==
    ASSUME NEW o \in Origins, NEW d \in Devices
    PROVE  /\ [o EXCEPT !.missed = TRUE] \in Origins
           /\ Replaced(o, d) \in Origins /\ Replaced(o, d).of = o.of \ {d}
           /\ Replaced(o, d).at = o.at /\ Replaced(o, d).missed = o.missed
  BY DEF Origins, Replaced

LEMMA FigureType ==
    ASSUME NEW k \in Kinds, NEW stat \in Stat \cup {Empty}
    PROVE  Figure(k, stat) \in UInt
<1>1. CASE stat = Empty
  BY <1>1, Constant DEF Figure, UInt
<1>2. CASE stat # Empty
  <2>1. stat.RXbytes \in UInt /\ stat.TXbytes \in UInt
    BY <1>2 DEF Stat
  <2>2. (stat.RXbytes + stat.TXbytes) % Modulus \in UInt
    BY <2>1, Constant DEF UInt
  <2>3. QED  BY <1>2, <2>1, <2>2 DEF Figure, Kinds
<1>3. QED  BY <1>1, <1>2

LEMMA InitType == Init => TypeOK
<1> SUFFICES ASSUME Init PROVE TypeOK
  OBVIOUS
<1>1. file \in Seq(Devices) /\ IsInjective(file)
  <2>1. PICK s \in SUBSET Devices : file \in SetToSeqs(s)
    BY DEF Init, SetToAllKPermutations
  <2>2. Cardinality(s) \in Nat
    BY FS_Subset, FS_CardinalityType, NetworkLoadAssumption
  <2>3. /\ file \in [1..Cardinality(s) -> s]
        /\ \A i, j \in 1..Cardinality(s) : i # j => file[i] # file[j]
    BY <2>1, Zenon DEF SetToSeqs
  <2>4. IsInjective(file)
    BY <2>3 DEF IsInjective
  <2>5. file \in Seq(s)
    BY <2>2, <2>3
  <2>6. QED  BY <2>4, <2>5
<1>2. counters \in [Devices -> Stat]
  BY Constant, NetworkLoadAssumption DEF Init, Stat, UInt
<1>3. now \in Nat /\ now >= Second /\ timeStamp \in 0..now
  BY Constant DEF Init
<1>4. networkstatMap \in Stat \cup {Empty} /\ isDeviceAvailable = (networkstatMap # Empty)
  BY DEF Init
<1>5. m_total \in [Kinds -> UInt] /\ timeBefore \in [Kinds -> Second..now] /\ result \in UInt
  BY Constant DEF Init, UInt
<1>6. Nowhere \in Origins
  BY <1>3 DEF Nowhere, Origins
<1>7. call \in [kind : Kinds, rate : BOOLEAN, oldBytes : UInt,
                oldclock : 0..now, lag : 0..Slow, from : Origins]
  BY <1>6, Constant DEF Init, NoCall, Kinds, UInt
<1>8. pc \in {"init", "idle", "parse", "read", "rate"}
  BY DEF Init
<1>9. mapOf \in Origins /\ totalOf \in [Kinds -> Origins]
  BY <1>6 DEF Init
<1>10. QED
  BY <1>1, <1>2, <1>3, <1>4, <1>5, <1>7, <1>8, <1>9 DEF TypeOK

\* What a look at the file does to what is kept: nothing, or the line of a
\* device is kept, or it is known that there was none.
LEMMA ParseType ==
    ASSUME TypeOK, parseEthernetDevice, now' = now
    PROVE  /\ timeStamp' \in 0..now
           /\ networkstatMap' \in Stat \cup {Empty}
           /\ isDeviceAvailable' = (networkstatMap' # Empty)
           /\ mapOf' \in Origins
           /\ timeStamp <= timeStamp' /\ now < timeStamp' + Second
           /\ \/ UNCHANGED mapVars
              \/ /\ timeStamp' = now
                 /\ \E d \in Devices :
                      /\ networkstatMap' = counters[d]
                      /\ mapOf' = [of |-> {d}, at |-> now, missed |-> FALSE]
              \/ /\ timeStamp' = now
                 /\ networkstatMap' = networkstatMap
                 /\ mapOf' = [mapOf EXCEPT !.missed = TRUE]
<1> now \in Nat /\ timeStamp \in 0..now /\ networkstatMap \in Stat \cup {Empty}
    /\ isDeviceAvailable = (networkstatMap # Empty) /\ mapOf \in Origins
  BY DEF TypeOK
<1>1. CASE Throttled
  BY <1>1, Constant DEF parseEthernetDevice, Throttled, mapVars
<1>2. CASE ~Throttled
  <2>1. timeStamp' = now /\ (LineRead \/ NothingRead)
    BY <1>2 DEF parseEthernetDevice
  <2>2. timeStamp' \in 0..now /\ timeStamp <= timeStamp' /\ now < timeStamp' + Second
    BY <2>1, Constant
  <2>3. CASE LineRead
    <3>1. /\ networkstatMap' = counters[Matched] /\ isDeviceAvailable' = TRUE
          /\ mapOf' = [of |-> {Matched}, at |-> now, missed |-> FALSE]
          /\ Matched \in Devices
      BY <2>3, MatchedType DEF LineRead
    <3>2. networkstatMap' \in Stat /\ networkstatMap' # Empty
      BY <3>1, EmptyIsNoStat DEF TypeOK
    <3>3. mapOf' \in Origins
      BY <3>1 DEF Origins
    <3>4. isDeviceAvailable' = (networkstatMap' # Empty)
      BY <3>1, <3>2
    <3>5. QED  BY <2>1, <2>2, <3>1, <3>2, <3>3, <3>4
  <2>4. CASE NothingRead
    <3>1. /\ networkstatMap' = networkstatMap /\ isDeviceAvailable' = isDeviceAvailable
          /\ mapOf' = [mapOf EXCEPT !.missed = TRUE]
      BY <2>4 DEF NothingRead
    <3>2. mapOf' \in Origins
      BY <3>1, OriginType, Constant
    <3>3. QED  BY <2>1, <2>2, <3>1, <3>2
  <2>5. QED  BY <2>1, <2>3, <2>4
<1>3. QED  BY <1>1, <1>2

LEMMA TickType == TypeOK /\ Tick => TypeOK'
<1> SUFFICES ASSUME TypeOK, Tick PROVE TypeOK'
  OBVIOUS
<1>1. now' \in Nat /\ now' >= Second /\ 0..now \subseteq 0..now'
      /\ Second..now \subseteq Second..now'
  BY Constant DEF Tick, TypeOK
<1>2. counters' \in [Devices -> Stat]
  <2>1. PICK moved \in [Busy -> Flows] :
         counters' = [d \in Devices |->
            IF d \notin Busy \cap Range(file) THEN counters[d]
              ELSE [x \in {"RXbytes", "TXbytes"} |->
                        (counters[d][x] + moved[d][x]) % Modulus]]
    BY DEF Tick
  <2>2. ASSUME NEW d \in Busy
        PROVE  [x \in {"RXbytes", "TXbytes"} |->
                        (counters[d][x] + moved[d][x]) % Modulus] \in Stat
    <3>1. moved[d] \in [RXbytes : 0..Peak, TXbytes : 0..Peak]
      BY <2>1, NetworkLoadAssumption
    <3>2. counters[d] \in Stat
      BY NetworkLoadAssumption DEF TypeOK
    <3>3. ASSUME NEW x \in {"RXbytes", "TXbytes"}
          PROVE  (counters[d][x] + moved[d][x]) % Modulus \in UInt
      <4>1. counters[d][x] + moved[d][x] \in Nat
        BY <3>1, <3>2, Constant DEF Stat, UInt
      <4>2. QED  BY <4>1, Constant, RemainderFacts DEF UInt
    <3>4. QED  BY <3>3 DEF Stat
  <2>3. QED  BY <2>1, <2>2 DEF TypeOK
<1>3. Origins \subseteq Origins'
  BY OriginsGrow DEF Tick, TypeOK
<1>4. call' \in [kind : Kinds, rate : BOOLEAN, oldBytes : UInt,
                oldclock : 0..now', lag : 0..Slow, from : Origins']
  <2>1. call \in [kind : Kinds, rate : BOOLEAN, oldBytes : UInt,
                oldclock : 0..now', lag : 0..Slow, from : Origins']
    BY <1>1, <1>3 DEF TypeOK
  <2>2. pc # "idle" => call.lag + 1 \in 0..Slow
    BY <2>1, Constant DEF Tick
  <2>3. QED  BY <2>1, <2>2 DEF Tick
<1>5. timeBefore' \in [Kinds -> Second..now'] /\ timeStamp' \in 0..now'
  BY <1>1 DEF TypeOK, Tick, mapVars, baseVars
<1>6. mapOf' \in Origins' /\ totalOf' \in [Kinds -> Origins']
  BY <1>3 DEF TypeOK, Tick, mapVars, baseVars
<1>7. QED
  BY <1>1, <1>2, <1>4, <1>5, <1>6 DEF TypeOK, Tick, mapVars, baseVars

LEMMA FileType ==
    ASSUME TypeOK, NEW d \in Devices, Vanish(d) \/ Appear(d)
    PROVE  TypeOK'
<1>1. CASE Vanish(d)
  <2>1. PICK i \in DOMAIN file : file[i] = d /\ file' = RemoveAt(file, i)
    BY <1>1 DEF Vanish
  <2>2. file \in Seq(Devices) /\ i \in 1..Len(file)
    BY DEF TypeOK
  <2>3. /\ file' \in Seq(Devices)
        /\ Len(file') = Len(file) - 1
        /\ \A j \in 1..Len(file) - 1 :
              file'[j] = IF j < i THEN file[j] ELSE file[j + 1]
    BY <2>1, <2>2, RemoveAtFacts
  <2>4. ASSUME NEW a \in 1..Len(file'), NEW b \in 1..Len(file'), file'[a] = file'[b]
        PROVE  a = b
    <3> DEFINE Before(j) == IF j < i THEN j ELSE j + 1
    <3>1. Len(file) \in Nat
      BY <2>2
    <3>2. /\ Before(a) \in 1..Len(file) /\ Before(b) \in 1..Len(file)
          /\ file'[a] = file[Before(a)] /\ file'[b] = file[Before(b)]
      BY <2>2, <2>3, <3>1
    <3>3. \A x, y \in 1..Len(file) : file[x] = file[y] => x = y
      BY <2>2 DEF TypeOK, IsInjective
    <3> HIDE DEF Before
    <3>4. Before(a) = Before(b)
      BY <2>4, <3>2, <3>3
    <3>5. i \in Int /\ a \in Int /\ b \in Int
      BY <2>2, <2>3, <3>1
    <3>6. QED  BY <3>4, <3>5 DEF Before
  <2>5. IsInjective(file')
    BY <2>3, <2>4 DEF IsInjective
  <2>6. Origins' = Origins
    BY <1>1 DEF Vanish, Origins
  <2>7. QED
    BY <1>1, <2>3, <2>5, <2>6 DEF TypeOK, Vanish, mapVars, baseVars
<1>2. CASE Appear(d)
  <2>1. file' \in Seq(Devices) /\ IsInjective(file')
    BY <1>2 DEF TypeOK, Appear, IsInjective, Range
  <2>2. counters' \in [Devices -> Stat]
    <3>1. 0 \in UInt
      BY Constant DEF UInt
    <3>2. [RXbytes |-> 0, TXbytes |-> 0] \in Stat
      BY <3>1 DEF Stat
    <3>3. counters \in [Devices -> Stat]
          /\ counters' = [counters EXCEPT ![d] = [RXbytes |-> 0, TXbytes |-> 0]]
      BY <1>2 DEF TypeOK, Appear
    <3>4. QED  BY <3>2, <3>3
  <2>3. Origins' = Origins
    BY <1>2 DEF Appear, Origins
  <2>4. mapOf' \in Origins /\ totalOf' \in [Kinds -> Origins]
    BY <1>2, OriginType DEF Appear, TypeOK
  <2>5. call' \in [kind : Kinds, rate : BOOLEAN, oldBytes : UInt,
                   oldclock : 0..now, lag : 0..Slow, from : Origins]
    <3>1. call.from \in Origins /\ call' = [call EXCEPT !.from = Replaced(call.from, d)]
      BY <1>2 DEF Appear, TypeOK
    <3>2. Replaced(call.from, d) \in Origins
      BY <3>1, OriginType
    <3>3. QED  BY <3>1, <3>2 DEF TypeOK
  <2>6. QED
    BY <1>2, <2>1, <2>2, <2>3, <2>4, <2>5 DEF TypeOK, Appear
<1>3. QED  BY <1>1, <1>2

LEMMA CallType ==
    ASSUME TypeOK, NEW g \in Getters, Call(g) PROVE TypeOK'
<1>1. call' \in [kind : Kinds, rate : BOOLEAN, oldBytes : UInt,
                 oldclock : 0..now, lag : 0..Slow, from : Origins]
  <2>1. g.kind \in Kinds /\ g.rate \in BOOLEAN
    BY DEF Getters
  <2>2. m_total[g.kind] \in UInt /\ timeBefore[g.kind] \in 0..now
        /\ 0 \in UInt /\ 0 \in 0..now
    BY <2>1, Constant DEF TypeOK, UInt
  <2>3. totalOf[g.kind] \in Origins /\ Nowhere \in Origins
    BY <2>1, OriginsGrow DEF TypeOK, Call
  <2>4. QED  BY <2>1, <2>2, <2>3, Constant DEF Call, Clock
<1>2. pc' \in {"init", "idle", "parse", "read", "rate"}
  BY DEF Call
<1>3. Origins' = Origins
  BY DEF Call, Origins
<1>4. QED
  BY <1>1, <1>2, <1>3 DEF TypeOK, Call, mapVars, baseVars, kernelVars

\* A figure is taken from what was read, and the getter returns it or goes on.
LEMMA ReturnType ==
    ASSUME TypeOK, NEW x \in UInt, Return(x)
    PROVE  /\ pc' = "idle" /\ result' \in UInt
           /\ call' \in [kind : Kinds, rate : BOOLEAN, oldBytes : UInt,
                          oldclock : 0..now, lag : 0..Slow, from : Origins]
<1>1. Nowhere \in Origins
  BY DEF Nowhere, Origins, TypeOK
<1>2. QED  BY <1>1, Constant DEF Return, NoCall, Kinds, UInt, TypeOK

\* The difference of two counters.
LEMMA MinusType ==
    ASSUME NEW x \in UInt, NEW y \in UInt
    PROVE  Minus(x, y) \in UInt /\ Minus(x, x) = 0
<1>1. x + Modulus - y \in Nat
  BY Constant DEF UInt
<1>2. Minus(x, y) \in UInt
  BY <1>1, Constant, RemainderFacts DEF Minus, UInt
<1>3. x + Modulus - x = 0 + Modulus /\ 0 % Modulus = 0
  BY Constant DEF UInt
<1>4. Minus(x, x) = 0
  BY <1>3, Constant, RemainderFacts DEF Minus
<1>5. QED  BY <1>2, <1>4

\* A rate is a uint64_t and, times the milliseconds, not above the bytes.
LEMMA PerSecondFacts ==
    ASSUME NEW bytes \in UInt, NEW msec \in Nat
    PROVE  /\ PerSecond(bytes, msec) \in UInt
           /\ PerSecond(bytes, msec) * AtLeastOne(msec) <= bytes * Second
<1> DEFINE d == IF msec = 0 THEN 1 ELSE msec
           n == (bytes * Second) % Modulus
<1>1. bytes * Second \in Nat /\ d \in Nat \ {0}
  BY Constant DEF UInt
<1>2. n \in UInt /\ n <= bytes * Second
  BY <1>1, Constant, RemainderFacts DEF UInt
<1> HIDE DEF d, n
<1>3. n \in Nat
  BY <1>2, Constant DEF UInt
<1>4. PICK q \in Nat, r \in 0..(d - 1) : q = n \div d /\ n = q * d + r
  <2>1. n \div d \in Int /\ n % d \in 0..(d - 1) /\ n = (n \div d) * d + (n % d)
    BY <1>1, <1>3
  <2>2. n \div d \in Nat
    BY <1>1, <1>3, <2>1
  <2>3. QED  BY <2>1, <2>2
<1>5. PICK p \in Nat : p = q * d
  BY <1>1
<1>6. p <= n
  BY <1>3, <1>4, <1>5
<1>7. q <= p
  BY <1>1, <1>5
<1>8. q \in UInt
  BY <1>2, <1>6, <1>7, Constant DEF UInt
<1>9. q * d <= bytes * Second
  BY <1>1, <1>2, <1>3, <1>5, <1>6
<1>10. PerSecond(bytes, msec) = n \div d /\ AtLeastOne(msec) = d
  BY DEF PerSecond, AtLeastOne, n, d
<1>11. QED  BY <1>4, <1>8, <1>9, <1>10

\* What is read, and what is not, has its type.
LEMMA MapType ==
    ASSUME TypeOK, UNCHANGED mapVars \/ parseEthernetDevice, now' = now
    PROVE  /\ timeStamp' \in 0..now /\ networkstatMap' \in Stat \cup {Empty}
           /\ isDeviceAvailable' = (networkstatMap' # Empty)
           /\ mapOf' \in Origins /\ Origins' = Origins
           /\ \A k \in Kinds : Figure(k, networkstatMap') \in UInt
<1>1. /\ timeStamp' \in 0..now /\ networkstatMap' \in Stat \cup {Empty}
      /\ isDeviceAvailable' = (networkstatMap' # Empty) /\ mapOf' \in Origins
  <2>1. CASE UNCHANGED mapVars
    BY <2>1 DEF TypeOK, mapVars
  <2>2. CASE parseEthernetDevice
    BY <2>2, ParseType
  <2>3. QED  BY <2>1, <2>2
<1>2. Origins' = Origins
  BY DEF Origins
<1>3. QED  BY <1>1, <1>2, FigureType

LEMMA RunType == TypeOK /\ Run => TypeOK'
<1> SUFFICES ASSUME TypeOK, Run PROVE TypeOK'
  OBVIOUS
<1>1. (UNCHANGED mapVars \/ parseEthernetDevice) /\ UNCHANGED <<now, kernelVars>>
  BY DEF Run, Construct, Parse, ReadTotal, ReadRate, Rate
<1>2. /\ timeStamp' \in 0..now /\ networkstatMap' \in Stat \cup {Empty}
      /\ isDeviceAvailable' = (networkstatMap' # Empty)
      /\ mapOf' \in Origins /\ Origins' = Origins
      /\ \A k \in Kinds : Figure(k, networkstatMap') \in UInt
  BY <1>1, MapType
<1>3. CASE Construct
  <2>1. m_total' \in [Kinds -> UInt] /\ timeBefore' \in [Kinds -> Second..now]
        /\ totalOf' \in [Kinds -> Origins]
    BY <1>2, <1>3 DEF Construct, TypeOK
  <2>2. QED  BY <1>1, <1>2, <1>3, <2>1 DEF Construct, TypeOK, kernelVars
<1>4. CASE Parse
  BY <1>1, <1>2, <1>4 DEF Parse, TypeOK, kernelVars, baseVars
<1>5. CASE ReadTotal
  <2>1. Figure(call.kind, networkstatMap') \in UInt
    BY <1>2 DEF TypeOK
  <2>2. QED  BY <1>1, <1>2, <1>5, <2>1, ReturnType DEF ReadTotal, TypeOK, kernelVars, baseVars
<1>6. CASE ReadRate
  <2>1. Figure(call.kind, networkstatMap') \in UInt /\ 0 \in UInt
    BY <1>2, Constant DEF TypeOK, UInt
  <2>2. CASE Return(0) /\ UNCHANGED <<m_total, totalOf>>
    BY <1>1, <1>2, <1>6, <2>1, <2>2, ReturnType DEF ReadRate, TypeOK, kernelVars
  <2>3. CASE ~(Return(0) /\ UNCHANGED <<m_total, totalOf>>)
    <3>1. /\ m_total' = [m_total EXCEPT ![call.kind] = Figure(call.kind, networkstatMap')]
          /\ totalOf' = [totalOf EXCEPT ![call.kind] = mapOf']
          /\ pc' = "rate" /\ UNCHANGED <<call, result, timeBefore>>
      BY <1>6, <2>3 DEF ReadRate
    <3>2. m_total' \in [Kinds -> UInt] /\ totalOf' \in [Kinds -> Origins]
      BY <1>2, <2>1, <3>1 DEF TypeOK
    <3>3. QED  BY <1>1, <1>2, <3>1, <3>2 DEF TypeOK, kernelVars
  <2>4. QED  BY <2>2, <2>3
<1>7. CASE Rate
  <2>1. /\ m_total[call.kind] \in UInt /\ call.oldBytes \in UInt
        /\ now - call.oldclock \in Nat
    BY DEF TypeOK
  <2>2. PerSecond(Minus(m_total[call.kind], call.oldBytes), now - call.oldclock) \in UInt
    BY <2>1, MinusType, PerSecondFacts
  <2>3. timeBefore' \in [Kinds -> Second..now]
    BY <1>7 DEF Rate, TypeOK
  <2>4. QED
    BY <1>1, <1>2, <1>7, <2>2, <2>3, ReturnType DEF Rate, TypeOK, kernelVars
<1>8. QED  BY <1>3, <1>4, <1>5, <1>6, <1>7 DEF Run

LEMMA TypeStep == TypeOK /\ [Next]_vars => TypeOK'
<1> SUFFICES ASSUME TypeOK, [Next]_vars PROVE TypeOK'
  OBVIOUS
<1>1. CASE Environment
  BY <1>1, TickType, FileType DEF Environment
<1>2. CASE Run
  BY <1>2, RunType
<1>3. CASE \E g \in Getters : Call(g)
  BY <1>3, CallType
<1>4. CASE UNCHANGED vars
  <2>1. Origins' = Origins
    BY <1>4 DEF vars, Origins
  <2>2. QED  BY <1>4, <2>1 DEF vars, kernelVars, mapVars, baseVars, TypeOK
<1>5. QED  BY <1>1, <1>2, <1>3, <1>4 DEF Next

\* The variables of the networkLoad keep their types: in particular it is
\* available exactly if something is kept of it, and no time stamp is in the
\* future.
THEOREM NetTypeCorrect == Spec => []TypeOK
  BY InitType, TypeStep, PTL DEF Spec

-----------------------------------------------------------------------------
(* The networkLoad: rates, and how old a figure is.                        *)

\* What a counter moves on is added to its distance at most.
LEMMA MinusMoves ==
    ASSUME NEW x \in UInt, NEW y \in UInt, NEW n \in Nat
    PROVE  /\ (x + n) % Modulus \in UInt
           /\ Minus((x + n) % Modulus, y) <= Minus(x, y) + n
<1> DEFINE p == x + Modulus - y
           z == (x + n) % Modulus
<1>1. p \in Nat /\ Modulus - y \in Nat /\ x + n \in Nat
  BY Constant DEF UInt
<1>2. z \in UInt /\ z \in Nat
  BY <1>1, Constant, RemainderFacts DEF UInt
<1>3. (z + (Modulus - y)) % Modulus = ((x + n) + (Modulus - y)) % Modulus
  BY <1>1, Constant, WrapsOnce
<1>4. ((p % Modulus) + n) % Modulus = (p + n) % Modulus
  BY <1>1, Constant, WrapsOnce
<1>5. z + (Modulus - y) = z + Modulus - y /\ (x + n) + (Modulus - y) = p + n
  BY <1>2, Constant DEF UInt
<1>6. Minus(z, y) = ((p % Modulus) + n) % Modulus
  BY <1>3, <1>4, <1>5 DEF Minus
<1>7. p % Modulus \in Nat /\ (p % Modulus) + n \in Nat
  <2>1. p % Modulus \in 0..(Modulus - 1)
    BY <1>1, Constant, RemainderFacts
  <2>2. QED  BY <2>1, Constant
<1>8. ((p % Modulus) + n) % Modulus <= (p % Modulus) + n
  BY <1>7, Constant, RemainderFacts
<1>9. QED  BY <1>2, <1>6, <1>8 DEF Minus

\* The sum of two counters moves on with them.
LEMMA SumsWrap ==
    ASSUME NEW a \in Nat, NEW b \in Nat, NEW c \in Nat, NEW d \in Nat
    PROVE  (((a + b) % Modulus) + ((c + d) % Modulus)) % Modulus
             = (((a + c) % Modulus) + (b + d)) % Modulus
<1> DEFINE x == (a + b) % Modulus
           y == (c + d) % Modulus
<1>1. a + b \in Nat /\ c + d \in Nat /\ a + c \in Nat /\ b + d \in Nat
  OBVIOUS
<1>2. y \in 0..(Modulus - 1)
  BY <1>1, Constant, RemainderFacts
<1>3. y \in Nat
  BY <1>2, Constant
<1>4. (x + y) % Modulus = ((a + b) + y) % Modulus
  BY <1>1, <1>3, Constant, WrapsOnce
<1>5. (y + (a + b)) % Modulus = ((c + d) + (a + b)) % Modulus
  BY <1>1, Constant, WrapsOnce
<1>6. (((a + c) % Modulus) + (b + d)) % Modulus = ((a + c) + (b + d)) % Modulus
  BY <1>1, Constant, WrapsOnce
<1> HIDE DEF x, y
<1>7. (a + b) + y = y + (a + b) /\ (c + d) + (a + b) = (a + c) + (b + d)
  BY <1>3
<1>8. (x + y) % Modulus = (((a + c) % Modulus) + (b + d)) % Modulus
  BY <1>4, <1>5, <1>6, <1>7, Zenon
<1>9. QED  BY <1>8, Zenon DEF x, y

LEMMA WidthType == \A k \in Kinds : Width(k) * Peak \in Nat
  BY Constant DEF Width

\* A figure moves on by no more than a device can move.
LEMMA FigureMoves ==
    ASSUME NEW k \in Kinds, NEW old \in Stat, NEW rx \in 0..Peak, NEW tx \in 0..Peak,
           NEW new \in Stat,
           new.RXbytes = (old.RXbytes + rx) % Modulus,
           new.TXbytes = (old.TXbytes + tx) % Modulus
    PROVE  \E n \in 0..(Width(k) * Peak) : Figure(k, new) = (Figure(k, old) + n) % Modulus
<1>1. old.RXbytes \in Nat /\ old.TXbytes \in Nat /\ new.RXbytes \in Nat /\ new.TXbytes \in Nat
      /\ rx \in Nat /\ tx \in Nat
  BY Constant DEF Stat, UInt
<1>2. old # Empty /\ new # Empty
  BY EmptyIsNoStat
<1>3. CASE k = "total"
  <2>1. /\ Figure(k, new) = (new.RXbytes + new.TXbytes) % Modulus
        /\ Figure(k, old) = (old.RXbytes + old.TXbytes) % Modulus
    BY <1>2, <1>3 DEF Figure
  <2>6. rx + tx \in 0..(Width(k) * Peak)
    BY <1>3, Constant DEF Width
  <2>7. Figure(k, new) = (Figure(k, old) + (rx + tx)) % Modulus
    <3> DEFINE a == old.RXbytes
               b == old.TXbytes
    <3>1. Figure(k, new) = (((a + rx) % Modulus) + ((b + tx) % Modulus)) % Modulus
      BY <2>1
    <3>2. Figure(k, old) = (a + b) % Modulus
      BY <2>1
    <3>3. a \in Nat /\ b \in Nat /\ rx \in Nat /\ tx \in Nat
      BY <1>1
    <3> HIDE DEF a, b
    <3>4. QED  BY <3>1, <3>2, <3>3, SumsWrap
  <2>8. QED  BY <2>6, <2>7, Zenon
<1>4. CASE k = "rx"
  <2>1. tx \in 0..(Width(k) * Peak)
    BY <1>4, Constant DEF Width
  <2>2. Figure(k, new) = new.TXbytes /\ Figure(k, old) = old.TXbytes
    BY <1>2, <1>4 DEF Figure
  <2>3. QED  BY <2>1, <2>2
<1>5. CASE k = "tx"
  <2>1. rx \in 0..(Width(k) * Peak)
    BY <1>5, Constant DEF Width
  <2>2. Figure(k, new) = new.RXbytes /\ Figure(k, old) = old.RXbytes
    BY <1>2, <1>5 DEF Figure
  <2>3. QED  BY <2>1, <2>2
<1>6. QED  BY <1>3, <1>4, <1>5 DEF Kinds

\* The figure of a device as the kernel counts it, and that of the map.
Counted(k, d) == Figure(k, counters[d])
Kept(k)       == Figure(k, networkstatMap)

\* The bytes of t milliseconds.  Two figures are Near if the first is no more
\* than these ahead of the second.
Room(k, t)       == Width(k) * Peak * t
Near(k, x, y, t) == Minus(x, y) <= Room(k, t)

\* The inductive invariant.  The figure of a device that is the origin of what
\* is kept is not further from it than the time since it was read allows; of two
\* figures that are kept the later one is not further from the earlier than the
\* time between the readings allows.  The clocks go with the origins: readings
\* are made in their order, a rate is worked out soon after a reading, and what
\* is not the last attempt's is known to be missed.
KernelInv == \A k \in Kinds :
    /\ \A d \in mapOf.of : Near(k, Counted(k, d), Kept(k), now - mapOf.at)
    /\ \A d \in totalOf[k].of :
          Near(k, Counted(k, d), m_total[k], now - totalOf[k].at)
MapInv    == \A k \in Kinds : \A d \in mapOf.of \cap totalOf[k].of :
    Near(k, Kept(k), m_total[k], mapOf.at - totalOf[k].at)
OrderInv  ==
    /\ \A k \in Kinds : totalOf[k].at <= mapOf.at
    /\ mapOf.at <= timeStamp
    /\ mapOf.missed \/ mapOf.at = timeStamp
ClockInv  == pc # "init" => \A k \in Kinds : pc # "rate" \/ k # call.kind =>
    totalOf[k].missed \/ timeBefore[k] <= totalOf[k].at + Older
CallInv   == pc \in {"parse", "read"} /\ call.rate =>
    /\ call.oldclock = timeBefore[call.kind]
    /\ call.oldBytes = m_total[call.kind]
    /\ call.from = totalOf[call.kind]
LagInv    == pc \in {"read", "rate"} /\ call.rate =>
    now <= timeStamp + Second - 1 + call.lag
RateInv   == pc = "rate" =>
    /\ call.rate
    /\ totalOf[call.kind] = mapOf
    /\ call.from.at <= totalOf[call.kind].at
    /\ call.from.missed \/ call.oldclock <= call.from.at + Older
    /\ \A d \in call.from.of \cap totalOf[call.kind].of :
          Near(call.kind, m_total[call.kind], call.oldBytes,
               totalOf[call.kind].at - call.from.at)

NetInv == /\ TypeOK /\ KernelInv /\ MapInv /\ OrderInv /\ ClockInv
          /\ CallInv /\ LagInv /\ RateInv
\* What a millisecond moves a figure on, with the wrap of the kernel's counters.
LEMMA TickMoves ==
    ASSUME TypeOK, Tick, NEW k \in Kinds, NEW d \in Devices
    PROVE  \E n \in 0..(Width(k) * Peak) : Counted(k, d)' = (Counted(k, d) + n) % Modulus
<1>1. PICK moved \in [Busy -> Flows] :
         counters' = [e \in Devices |->
            IF e \notin Busy \cap Range(file) THEN counters[e]
              ELSE [x \in {"RXbytes", "TXbytes"} |->
                        (counters[e][x] + moved[e][x]) % Modulus]]
  BY DEF Tick
<1>2. counters[d] \in Stat /\ counters'[d] \in Stat
  BY TickType DEF TypeOK
<1>3. CASE d \in Busy \cap Range(file)
  <2>1. moved[d] \in [RXbytes : 0..Peak, TXbytes : 0..Peak]
    BY <1>3, NetworkLoadAssumption
  <2>2. /\ moved[d].RXbytes \in 0..Peak /\ moved[d].TXbytes \in 0..Peak
    BY <2>1
  <2>3. counters'[d] = [x \in {"RXbytes", "TXbytes"} |->
                            (counters[d][x] + moved[d][x]) % Modulus]
    BY <1>1, <1>3
  <2>4. /\ counters'[d].RXbytes = (counters[d].RXbytes + moved[d].RXbytes) % Modulus
        /\ counters'[d].TXbytes = (counters[d].TXbytes + moved[d].TXbytes) % Modulus
    BY <2>3
  <2>5. QED  BY <1>2, <2>2, <2>4, FigureMoves DEF Counted
<1>4. CASE ~(d \in Busy \cap Range(file))
  <2>1. Counted(k, d)' = Counted(k, d)
    BY <1>1, <1>4 DEF Counted
  <2>2. Counted(k, d) \in UInt
    BY <1>2, FigureType DEF Counted
  <2>3. (Counted(k, d) + 0) % Modulus = Counted(k, d)
    BY <2>2, Constant, RemainderFacts DEF UInt
  <2>4. 0 \in 0..(Width(k) * Peak)
    BY WidthType
  <2>5. QED  BY <2>1, <2>3, <2>4
<1>5. QED  BY <1>3, <1>4

\* Room is a number, and that of a millisecond more is so much larger.
LEMMA RoomFacts ==
    ASSUME NEW k \in Kinds, NEW t \in Nat
    PROVE  Room(k, t) \in Nat /\ Room(k, t + 1) = Room(k, t) + Width(k) * Peak
<1> DEFINE w == Width(k) * Peak
<1>1. w \in Nat
  BY WidthType
<1>2. Room(k, t) = w * t /\ Room(k, t + 1) = w * (t + 1)
  BY DEF Room
<1> HIDE DEF w
<1>3. w * t \in Nat /\ w * (t + 1) = w * t + w
  BY <1>1
<1>4. QED  BY <1>2, <1>3 DEF w

\* A figure is near itself, and stays near another while it moves.
LEMMA NearFacts ==
    ASSUME NEW k \in Kinds, NEW x \in UInt, NEW y \in UInt, NEW t \in Nat
    PROVE  /\ Near(k, x, x, t)
           /\ \A n \in 0..(Width(k) * Peak) :
                Near(k, x, y, t) => Near(k, (x + n) % Modulus, y, t + 1)
<1>1. Near(k, x, x, t)
  BY MinusType, RoomFacts DEF Near
<1>2. ASSUME NEW n \in 0..(Width(k) * Peak), Near(k, x, y, t)
      PROVE  Near(k, (x + n) % Modulus, y, t + 1)
  <2>1. n \in Nat /\ n <= Width(k) * Peak /\ Width(k) * Peak \in Nat
    BY WidthType
  <2>2. /\ Minus((x + n) % Modulus, y) <= Minus(x, y) + n
        /\ Minus((x + n) % Modulus, y) \in UInt /\ Minus(x, y) \in UInt
    BY <2>1, MinusMoves, MinusType
  <2>3. Minus((x + n) % Modulus, y) \in Nat /\ Minus(x, y) \in Nat
    BY <2>2, Constant DEF UInt
  <2>4. Minus(x, y) <= Room(k, t)
    BY <1>2 DEF Near
  <2>5. Room(k, t) \in Nat /\ Room(k, t + 1) = Room(k, t) + Width(k) * Peak
    BY RoomFacts
  <2>6. QED  BY <2>1, <2>2, <2>3, <2>4, <2>5 DEF Near
<1>3. QED  BY <1>1, <1>2

LEMMA FigureTypes ==
    ASSUME TypeOK, NEW k \in Kinds
    PROVE  /\ \A d \in Devices : Counted(k, d) \in UInt
           /\ Kept(k) \in UInt /\ m_total[k] \in UInt
           /\ timeBefore[k] \in Nat /\ timeStamp \in Nat /\ now \in Nat
           /\ timeStamp <= now /\ timeBefore[k] <= now
           /\ mapOf.of \subseteq Devices /\ totalOf[k].of \subseteq Devices
           /\ mapOf.at \in 0..now /\ totalOf[k].at \in 0..now
           /\ now - mapOf.at \in Nat /\ now - totalOf[k].at \in Nat
           /\ Older \in Nat
<1>1. \A d \in Devices : Counted(k, d) \in UInt
  BY FigureType DEF Counted, TypeOK
<1>2. Kept(k) \in UInt
  BY FigureType DEF Kept, TypeOK
<1>3. mapOf.of \subseteq Devices /\ totalOf[k].of \subseteq Devices
      /\ mapOf.at \in 0..now /\ totalOf[k].at \in 0..now
  BY DEF TypeOK, Origins
<1>4. m_total[k] \in UInt /\ timeBefore[k] \in Nat /\ timeStamp \in Nat /\ now \in Nat
      /\ timeStamp <= now /\ timeBefore[k] <= now
  BY Constant DEF TypeOK
<1>5. now - mapOf.at \in Nat /\ now - totalOf[k].at \in Nat
  BY <1>3, <1>4
<1>6. QED  BY <1>1, <1>2, <1>3, <1>4, <1>5, Constant DEF Older

\* The parts of the invariant in the next state, from what they are made of.
LEMMA Primes ==
    ASSUME NEW k \in Kinds, NEW d \in Devices
    PROVE  /\ Near(k, Counted(k, d), Kept(k), now - mapOf.at)'
                <=> Near(k, Counted(k, d)', Kept(k)', now' - mapOf.at')
           /\ Near(k, Counted(k, d), m_total[k], now - totalOf[k].at)'
                <=> Near(k, Counted(k, d)', m_total'[k], now' - totalOf[k].at')
           /\ Near(k, Kept(k), m_total[k], mapOf.at - totalOf[k].at)'
                <=> Near(k, Kept(k)', m_total'[k], mapOf.at' - totalOf[k].at')
  BY DEF Near, Minus, Room, Width

LEMMA InvInit == Init => NetInv
<1> SUFFICES ASSUME Init PROVE NetInv
  OBVIOUS
<1>1. /\ mapOf = Nowhere /\ totalOf = [k \in Kinds |-> Nowhere]
      /\ timeStamp = 0 /\ pc = "init"
  BY DEF Init
<1>2. KernelInv /\ MapInv /\ OrderInv
  BY <1>1 DEF KernelInv, MapInv, OrderInv, Nowhere
<1>3. ClockInv /\ CallInv /\ LagInv /\ RateInv
  BY <1>1 DEF ClockInv, CallInv, LagInv, RateInv
<1>4. QED  BY <1>2, <1>3, InitType DEF NetInv

LEMMA InvTick ==
    ASSUME NetInv, Tick PROVE NetInv'
<1> USE DEF NetInv
<1>1. /\ TypeOK' /\ now' = now + 1 /\ pc' = pc /\ pc # "init"
      /\ UNCHANGED <<networkstatMap, timeStamp, mapOf, m_total, timeBefore, totalOf>>
  BY TickType DEF Tick, mapVars, baseVars
<1>2. /\ call'.kind = call.kind /\ call'.rate = call.rate
      /\ call'.oldBytes = call.oldBytes /\ call'.oldclock = call.oldclock
      /\ call'.lag = IF pc = "idle" THEN call.lag ELSE call.lag + 1
      /\ call'.from = call.from
  BY DEF Tick, TypeOK
<1>3. \A k : Kept(k)' = Kept(k)
  BY <1>1 DEF Kept
<1>4. MapInv' /\ OrderInv' /\ ClockInv' /\ CallInv'
  BY <1>1, <1>2, <1>3 DEF MapInv, OrderInv, ClockInv, CallInv, Near, Minus, Room, Width, Older
<1>5. RateInv'
  BY <1>1, <1>2 DEF RateInv, Near, Minus, Room, Width, Older
<1>6. LagInv'
  <2> SUFFICES ASSUME pc \in {"read", "rate"}, call.rate
               PROVE  now' <= timeStamp' + Second - 1 + call'.lag
    BY <1>1, <1>2 DEF LagInv
  <2>1. now <= timeStamp + Second - 1 + call.lag
    BY DEF LagInv
  <2>2. QED  BY <1>1, <1>2, <2>1, Constant DEF TypeOK
<1>7. ASSUME NEW k \in Kinds, NEW d \in Devices, NEW y \in UInt, NEW at \in 0..now,
             Near(k, Counted(k, d), y, now - at)
      PROVE  Near(k, Counted(k, d)', y, now' - at)
  <2>1. PICK n \in 0..(Width(k) * Peak) : Counted(k, d)' = (Counted(k, d) + n) % Modulus
    BY TickMoves
  <2>2. now - at \in Nat /\ now' - at = (now - at) + 1
    BY <1>1, FigureTypes
  <2>3. Counted(k, d) \in UInt
    BY FigureTypes
  <2> DEFINE t == now - at
  <2> HIDE DEF t
  <2>4. Near(k, (Counted(k, d) + n) % Modulus, y, t + 1)
    BY <1>7, <2>2, <2>3, NearFacts DEF t
  <2>5. QED  BY <2>1, <2>2, <2>4 DEF t
<1>8. KernelInv'
  <2> SUFFICES ASSUME NEW k \in Kinds, NEW d \in Devices
               PROVE  /\ d \in mapOf.of =>
                            Near(k, Counted(k, d), Kept(k), now - mapOf.at)'
                      /\ d \in totalOf[k].of =>
                            Near(k, Counted(k, d), m_total[k], now - totalOf[k].at)'
    BY <1>1, FigureTypes DEF KernelInv
  <2>1. Kept(k) \in UInt /\ m_total[k] \in UInt
        /\ mapOf.at \in 0..now /\ totalOf[k].at \in 0..now
    BY FigureTypes
  <2>2. ASSUME d \in mapOf.of PROVE Near(k, Counted(k, d), Kept(k), now - mapOf.at)'
    <3>1. Near(k, Counted(k, d), Kept(k), now - mapOf.at)
      BY <2>2 DEF KernelInv
    <3>2. Near(k, Counted(k, d)', Kept(k), now' - mapOf.at)
      BY <1>7, <2>1, <3>1
    <3>3. QED  BY <1>1, <1>3, <3>2, Primes
  <2>3. ASSUME d \in totalOf[k].of
        PROVE  Near(k, Counted(k, d), m_total[k], now - totalOf[k].at)'
    <3>1. Near(k, Counted(k, d), m_total[k], now - totalOf[k].at)
      BY <2>3 DEF KernelInv
    <3>2. Near(k, Counted(k, d)', m_total[k], now' - totalOf[k].at)
      BY <1>7, <2>1, <3>1
    <3>3. QED  BY <1>1, <3>2, Primes
  <2>4. QED  BY <2>2, <2>3
<1>9. QED  BY <1>1, <1>4, <1>5, <1>6, <1>8

LEMMA InvVanish ==
    ASSUME NetInv, NEW d \in Devices, Vanish(d) PROVE NetInv'
<1>1. TypeOK' /\ UNCHANGED <<now, counters, mapVars, baseVars, pc, call>>
  BY FileType DEF Vanish, NetInv
<1>2. UNCHANGED <<now, counters, networkstatMap, timeStamp, mapOf, m_total, timeBefore,
                  totalOf, pc, call>>
  BY <1>1 DEF mapVars, baseVars
<1>3. QED
  BY <1>1, <1>2 DEF NetInv, KernelInv, MapInv, OrderInv, ClockInv, CallInv, LagInv, RateInv,
                    Near, Minus, Room, Width, Counted, Kept, Older

LEMMA InvAppear ==
    ASSUME NetInv, NEW d \in Devices, Appear(d) PROVE NetInv'
<1> USE DEF NetInv
<1>1. /\ TypeOK' /\ mapOf' = Replaced(mapOf, d)
      /\ totalOf' = [k \in Kinds |-> Replaced(totalOf[k], d)]
      /\ call' = [call EXCEPT !.from = Replaced(call.from, d)]
      /\ UNCHANGED <<now, timeStamp, networkstatMap, m_total, timeBefore, pc>>
      /\ counters' = [counters EXCEPT ![d] = [RXbytes |-> 0, TXbytes |-> 0]]
  BY FileType DEF Appear
<1>2. /\ mapOf.of' = mapOf.of \ {d} /\ mapOf.at' = mapOf.at
      /\ mapOf.missed' = mapOf.missed
  BY <1>1, OriginType DEF TypeOK
<1>3. \A k \in Kinds : /\ totalOf[k].of' = totalOf[k].of \ {d}
                       /\ totalOf[k].at' = totalOf[k].at
                       /\ totalOf[k].missed' = totalOf[k].missed
  <2> SUFFICES ASSUME NEW k \in Kinds
               PROVE  /\ totalOf'[k].of = totalOf[k].of \ {d}
                      /\ totalOf'[k].at = totalOf[k].at
                      /\ totalOf'[k].missed = totalOf[k].missed
    OBVIOUS
  <2>1. totalOf'[k] = Replaced(totalOf[k], d)
    BY <1>1
  <2>2. totalOf[k] \in Origins
    BY DEF TypeOK
  <2>3. /\ Replaced(totalOf[k], d).of = totalOf[k].of \ {d}
        /\ Replaced(totalOf[k], d).at = totalOf[k].at
        /\ Replaced(totalOf[k], d).missed = totalOf[k].missed
    BY <2>2, OriginType
  <2>4. QED  BY <2>1, <2>3
<1>4. /\ call.kind \in Kinds /\ call.from \in Origins
      /\ call.from' = Replaced(call.from, d)
      /\ call.kind' = call.kind /\ call.rate' = call.rate /\ call.lag' = call.lag
      /\ call.oldBytes' = call.oldBytes /\ call.oldclock' = call.oldclock
  BY <1>1 DEF TypeOK
<1>5. /\ call.from.of' = call.from.of \ {d} /\ call.from.at' = call.from.at
      /\ call.from.missed' = call.from.missed
  <2>1. /\ Replaced(call.from, d).of = call.from.of \ {d}
        /\ Replaced(call.from, d).at = call.from.at
        /\ Replaced(call.from, d).missed = call.from.missed
    BY <1>4, OriginType
  <2>2. QED  BY <1>4, <2>1
<1>6. \A k \in Kinds : Kept(k)' = Kept(k)
  BY <1>1 DEF Kept
<1>7. \A k \in Kinds, e \in Devices \ {d} : Counted(k, e)' = Counted(k, e)
  BY <1>1 DEF Counted, TypeOK
<1>8. KernelInv' /\ MapInv'
  <2> SUFFICES ASSUME NEW k \in Kinds, NEW e \in Devices
               PROVE  /\ e \in mapOf.of' =>
                            Near(k, Counted(k, e), Kept(k), now - mapOf.at)'
                      /\ e \in totalOf[k].of' =>
                            Near(k, Counted(k, e), m_total[k], now - totalOf[k].at)'
                      /\ e \in mapOf.of' \cap totalOf[k].of' =>
                            Near(k, Kept(k), m_total[k], mapOf.at - totalOf[k].at)'
    BY <1>2, <1>3, FigureTypes DEF KernelInv, MapInv
  <2>1. CASE e = d
    BY <1>2, <1>3, <2>1
  <2>2. CASE e # d
    <3>1. /\ e \in mapOf.of => Near(k, Counted(k, e), Kept(k), now - mapOf.at)
          /\ e \in totalOf[k].of => Near(k, Counted(k, e), m_total[k], now - totalOf[k].at)
          /\ e \in mapOf.of \cap totalOf[k].of =>
                Near(k, Kept(k), m_total[k], mapOf.at - totalOf[k].at)
      BY DEF KernelInv, MapInv
    <3>2. Counted(k, e)' = Counted(k, e)
      BY <1>7, <2>2
    <3>3. QED  BY <1>1, <1>2, <1>3, <1>6, <3>1, <3>2, Primes
  <2>3. QED  BY <2>1, <2>2
<1>9. OrderInv' /\ ClockInv'
  BY <1>1, <1>2, <1>3, <1>4 DEF OrderInv, ClockInv, Older
<1>10. CallInv' /\ LagInv'
  BY <1>1, <1>4 DEF CallInv, LagInv
<1>11. RateInv'
  <2> SUFFICES ASSUME pc = "rate" PROVE RateInv'
    BY <1>1 DEF RateInv
  <2>1. call.rate' /\ (totalOf[call.kind] = mapOf)'
    BY <1>1, <1>4 DEF RateInv
  <2>2. (call.from.at <= totalOf[call.kind].at)'
        /\ (call.from.missed \/ call.oldclock <= call.from.at + Older)'
    BY <1>1, <1>3, <1>4, <1>5 DEF RateInv, Older
  <2>3. ASSUME NEW e \in (call.from.of \cap totalOf[call.kind].of)'
        PROVE  Near(call.kind, m_total[call.kind], call.oldBytes,
                    totalOf[call.kind].at - call.from.at)'
    <3>1. e \in call.from.of \cap totalOf[call.kind].of
      BY <1>3, <1>4, <1>5
    <3>2. Near(call.kind, m_total[call.kind], call.oldBytes,
               totalOf[call.kind].at - call.from.at)
      BY <3>1 DEF RateInv
    <3>3. QED  BY <1>1, <1>3, <1>4, <1>5, <3>2 DEF Near, Minus, Room, Width
  <2>4. QED  BY <2>1, <2>2, <2>3 DEF RateInv
<1>12. QED  BY <1>1, <1>8, <1>9, <1>10, <1>11

LEMMA InvCall ==
    ASSUME NetInv, NEW g \in Getters, Call(g) PROVE NetInv'
<1> USE DEF NetInv
<1>1. /\ TypeOK' /\ pc = "idle" /\ pc' \in {"parse", "read"} /\ (pc' = "read" => ~call'.rate)
      /\ UNCHANGED <<now, counters, networkstatMap, timeStamp, mapOf, m_total, timeBefore,
                     totalOf>>
  BY CallType DEF Call, kernelVars, mapVars, baseVars, Getters
<1>2. KernelInv' /\ MapInv' /\ OrderInv'
  BY <1>1 DEF KernelInv, MapInv, OrderInv, Near, Minus, Room, Width, Counted, Kept
<1>3. ClockInv' /\ LagInv' /\ RateInv'
  BY <1>1 DEF ClockInv, LagInv, RateInv, Older
<1>4. CallInv'
  BY <1>1 DEF Call, CallInv, Getters, Clock
<1>5. QED  BY <1>1, <1>2, <1>3, <1>4

\* What a look at the file keeps of the invariant: a new figure is that of the
\* kernel, and so as near to the figures of the rates.
LEMMA ParseFacts ==
    ASSUME NetInv, UNCHANGED mapVars \/ parseEthernetDevice, now' = now
    PROVE  /\ \A k \in Kinds : \A d \in mapOf.of' :
                Near(k, Counted(k, d), Kept(k)', now - mapOf.at')
           /\ \A k \in Kinds : \A d \in mapOf.of' \cap totalOf[k].of :
                Near(k, Kept(k)', m_total[k], mapOf.at' - totalOf[k].at)
           /\ \A k \in Kinds : totalOf[k].at <= mapOf.at'
           /\ mapOf.at' <= timeStamp' /\ (mapOf.missed' \/ mapOf.at' = timeStamp')
<1> USE DEF NetInv
<1>1. CASE UNCHANGED mapVars
  <2>1. UNCHANGED <<networkstatMap, mapOf, timeStamp>> /\ \A k \in Kinds : Kept(k)' = Kept(k)
    BY <1>1 DEF mapVars, Kept
  <2>2. QED  BY <2>1 DEF KernelInv, MapInv, OrderInv
<1>2. ASSUME NEW d \in Devices, timeStamp' = now, networkstatMap' = counters[d],
             mapOf' = [of |-> {d}, at |-> now, missed |-> FALSE]
      PROVE  /\ \A k \in Kinds : \A e \in mapOf.of' :
                  Near(k, Counted(k, e), Kept(k)', now - mapOf.at')
             /\ \A k \in Kinds : \A e \in mapOf.of' \cap totalOf[k].of :
                  Near(k, Kept(k)', m_total[k], mapOf.at' - totalOf[k].at)
             /\ \A k \in Kinds : totalOf[k].at <= mapOf.at'
             /\ mapOf.at' <= timeStamp' /\ (mapOf.missed' \/ mapOf.at' = timeStamp')
  <2>1. mapOf.of' = {d} /\ mapOf.at' = now /\ mapOf.missed' = FALSE
    BY <1>2
  <2>2. \A k \in Kinds : Kept(k)' = Counted(k, d)
    BY <1>2 DEF Kept, Counted
  <2>3. ASSUME NEW k \in Kinds
        PROVE  /\ Near(k, Counted(k, d), Counted(k, d), now - now)
               /\ totalOf[k].at <= now
               /\ d \in totalOf[k].of =>
                    Near(k, Counted(k, d), m_total[k], now - totalOf[k].at)
    <3>1. Counted(k, d) \in UInt /\ totalOf[k].at \in 0..now /\ now \in Nat /\ now - now = 0
      BY FigureTypes
    <3>2. Near(k, Counted(k, d), Counted(k, d), 0)
      BY <3>1, NearFacts
    <3>3. QED  BY <3>1, <3>2 DEF KernelInv
  <2>4. now <= timeStamp' /\ now = timeStamp'
    BY <1>2 DEF TypeOK
  <2>5. QED  BY <2>1, <2>2, <2>3, <2>4
<1>3. CASE /\ timeStamp' = now /\ networkstatMap' = networkstatMap
           /\ mapOf' = [mapOf EXCEPT !.missed = TRUE]
  <2>1. mapOf.of' = mapOf.of /\ mapOf.at' = mapOf.at /\ mapOf.missed'
    BY <1>3 DEF TypeOK, Origins
  <2>2. \A k \in Kinds : Kept(k)' = Kept(k)
    BY <1>3 DEF Kept
  <2>3. mapOf.at' <= timeStamp'
    BY <1>3, <2>1 DEF TypeOK, Origins
  <2>4. QED  BY <2>1, <2>2, <2>3 DEF KernelInv, MapInv, OrderInv
<1>4. CASE parseEthernetDevice
  BY <1>1, <1>2, <1>3, <1>4, ParseType
<1>5. QED  BY <1>1, <1>4

\* A reading that is not a second old is kept for the rest of the getter.
LEMMA ALittleLater ==
    ASSUME NEW t \in Nat, NEW u \in Nat, NEW lag \in Nat, t < u + Second
    PROVE  /\ t <= u + Second - 1 + lag /\ u + Second > t - lag
           /\ t <= u + Older
  BY Constant DEF Older

LEMMA InvConstruct ==
    ASSUME NetInv, Construct PROVE NetInv'
<1> USE DEF NetInv
<1>1. /\ TypeOK' /\ UNCHANGED <<now, counters, call>> /\ pc = "init" /\ pc' = "idle"
      /\ parseEthernetDevice
  BY RunType DEF Run, Construct, kernelVars
<1>2. /\ \A k \in Kinds : \A d \in mapOf.of' :
            Near(k, Counted(k, d), Kept(k)', now - mapOf.at')
      /\ mapOf.at' <= timeStamp' /\ (mapOf.missed' \/ mapOf.at' = timeStamp')
  BY <1>1, ParseFacts
<1>3. \A k \in Kinds : /\ m_total'[k] = Kept(k)' /\ totalOf'[k] = mapOf'
                       /\ timeBefore'[k] = now
  BY DEF Construct, Kept
<1>4. timeStamp' \in Nat /\ mapOf.at' \in Nat /\ mapOf.of' \subseteq Devices
  BY <1>1 DEF TypeOK, Origins
<1>5. KernelInv' /\ MapInv'
  <2> SUFFICES ASSUME NEW k \in Kinds, NEW d \in mapOf.of'
               PROVE  /\ Near(k, Counted(k, d), Kept(k), now - mapOf.at)'
                      /\ Near(k, Counted(k, d), m_total[k], now - totalOf[k].at)'
                      /\ Near(k, Kept(k), m_total[k], mapOf.at - totalOf[k].at)'
    BY <1>3 DEF KernelInv, MapInv
  <2>1. Near(k, Counted(k, d), Kept(k)', now - mapOf.at') /\ Counted(k, d)' = Counted(k, d)
    BY <1>1, <1>2 DEF Counted
  <2>2. Near(k, Kept(k)', Kept(k)', 0) /\ mapOf.at' - mapOf.at' = 0
    <3>1. Kept(k)' \in UInt
      BY <1>1, FigureType DEF TypeOK, Kept
    <3>2. QED  BY <1>4, <3>1, NearFacts
  <2>3. QED  BY <1>1, <1>3, <1>4, <2>1, <2>2, Primes
<1>6. OrderInv'
  <2>1. mapOf.at' <= mapOf.at'
    BY <1>4
  <2>2. QED  BY <1>2, <1>3, <2>1 DEF OrderInv
<1>7. ClockInv'
  <2>1. mapOf.missed' \/ now <= mapOf.at' + Older
    <3>1. CASE mapOf.at' = timeStamp'
      <4>1. now \in Nat
        BY DEF TypeOK
      <4>2. now < timeStamp' + Second
        BY <1>1, ParseType
      <4>3. now <= timeStamp' + Older
        BY <1>4, <4>1, <4>2, Constant, ALittleLater
      <4>4. QED  BY <3>1, <4>3
    <3>2. CASE mapOf.missed'
      BY <3>2
    <3>3. QED  BY <1>2, <3>1, <3>2
  <2>2. QED  BY <1>3, <2>1 DEF ClockInv, Older
<1>8. CallInv' /\ LagInv' /\ RateInv'
  BY <1>1 DEF CallInv, LagInv, RateInv
<1>9. QED  BY <1>1, <1>5, <1>6, <1>7, <1>8

\* What ParseFacts says in terms of the next state, if the rates' figures stay.
LEMMA KeptAheadFacts ==
    ASSUME NetInv, UNCHANGED mapVars \/ parseEthernetDevice,
           UNCHANGED <<now, counters, m_total, totalOf>>
    PROVE  KernelInv' /\ MapInv' /\ OrderInv'
<1>1. /\ \A k \in Kinds : \A d \in mapOf.of' :
            Near(k, Counted(k, d), Kept(k)', now - mapOf.at')
      /\ \A k \in Kinds : \A d \in mapOf.of' \cap totalOf[k].of :
            Near(k, Kept(k)', m_total[k], mapOf.at' - totalOf[k].at)
      /\ \A k \in Kinds : totalOf[k].at <= mapOf.at'
      /\ mapOf.at' <= timeStamp' /\ (mapOf.missed' \/ mapOf.at' = timeStamp')
  BY ParseFacts
<1>2. mapOf' \in Origins /\ mapOf.of' \subseteq Devices
  <2>1. mapOf' \in Origins
    BY MapType DEF NetInv
  <2>2. QED  BY <2>1 DEF Origins
<1>3. \A k \in Kinds : totalOf[k].of \subseteq Devices
  BY FigureTypes DEF NetInv
<1>4. ASSUME NEW k \in Kinds, NEW d \in Devices
      PROVE  /\ d \in mapOf.of' => Near(k, Counted(k, d), Kept(k), now - mapOf.at)'
             /\ d \in totalOf[k].of =>
                   Near(k, Counted(k, d), m_total[k], now - totalOf[k].at)'
             /\ d \in mapOf.of' \cap totalOf[k].of =>
                   Near(k, Kept(k), m_total[k], mapOf.at - totalOf[k].at)'
  <2>1. Counted(k, d)' = Counted(k, d)
    BY DEF Counted
  <2>2. d \in totalOf[k].of => Near(k, Counted(k, d), m_total[k], now - totalOf[k].at)
    BY DEF NetInv, KernelInv
  <2>3. totalOf[k].at' = totalOf[k].at /\ m_total'[k] = m_total[k] /\ now' = now
    OBVIOUS
  <2>4. QED  BY <1>1, <2>1, <2>2, <2>3, Primes
<1>5. KernelInv' /\ MapInv'
  BY <1>2, <1>3, <1>4 DEF KernelInv, MapInv
<1>6. QED  BY <1>1, <1>5 DEF OrderInv

LEMMA InvParse ==
    ASSUME NetInv, Parse \/ ReadTotal PROVE NetInv'
<1>1. /\ TypeOK' /\ UNCHANGED <<now, counters, m_total, timeBefore, totalOf>>
      /\ pc \notin {"init", "rate"} /\ pc' \notin {"init", "rate"}
      /\ parseEthernetDevice
  BY RunType DEF NetInv, Run, Parse, ReadTotal, Return, kernelVars, baseVars
<1>2. KernelInv' /\ MapInv' /\ OrderInv'
  BY <1>1, KeptAheadFacts
<1>3. ClockInv' /\ RateInv'
  BY <1>1 DEF NetInv, ClockInv, RateInv, Older
<1>4. CallInv'
  BY <1>1 DEF NetInv, CallInv, Parse, ReadTotal, Return
<1>5. LagInv'
  <2> SUFFICES ASSUME pc' = "read", call'.rate PROVE (now <= timeStamp + Second - 1 + call.lag)'
    BY <1>1 DEF LagInv
  <2>1. UNCHANGED call
    BY DEF Parse, ReadTotal, Return
  <2>2. now < timeStamp' + Second
    BY <1>1, ParseType DEF NetInv
  <2>3. timeStamp' \in Nat /\ now \in Nat /\ call.lag \in Nat
    BY <1>1, Constant DEF NetInv, TypeOK
  <2>4. now <= timeStamp' + Second - 1 + call.lag
    BY <2>2, <2>3, ALittleLater
  <2>5. QED  BY <1>1, <2>1, <2>4
<1>6. QED  BY <1>1, <1>2, <1>3, <1>4, <1>5 DEF NetInv

LEMMA InvReadRate ==
    ASSUME NetInv, ReadRate PROVE NetInv'
<1>1. /\ TypeOK' /\ UNCHANGED <<now, counters, timeBefore>>
      /\ pc = "read" /\ call.rate /\ (UNCHANGED mapVars \/ parseEthernetDevice)
      /\ call.kind \in Kinds
  BY RunType DEF NetInv, Run, ReadRate, kernelVars, TypeOK
<1>2. CASE Return(0) /\ UNCHANGED <<m_total, totalOf>>
  <2>1. KernelInv' /\ MapInv' /\ OrderInv'
    BY <1>1, <1>2, KeptAheadFacts
  <2>2. ClockInv' /\ CallInv' /\ LagInv' /\ RateInv'
    BY <1>1, <1>2 DEF NetInv, Return, ClockInv, CallInv, LagInv, RateInv, Older
  <2>3. QED  BY <1>1, <2>1, <2>2 DEF NetInv
<1>3. CASE /\ m_total' = [m_total EXCEPT ![call.kind] = Figure(call.kind, networkstatMap')]
           /\ totalOf' = [totalOf EXCEPT ![call.kind] = mapOf']
           /\ pc' = "rate"
           /\ UNCHANGED <<call, result>>
  <2>1. \A k \in Kinds :
           IF k = call.kind THEN m_total'[k] = Kept(k)' /\ totalOf'[k] = mapOf'
                            ELSE m_total'[k] = m_total[k] /\ totalOf'[k] = totalOf[k]
    BY <1>1, <1>3 DEF NetInv, TypeOK, Kept
  <2>2. /\ \A k \in Kinds : \A d \in mapOf.of' :
              Near(k, Counted(k, d), Kept(k)', now - mapOf.at')
        /\ \A k \in Kinds : \A d \in mapOf.of' \cap totalOf[k].of :
              Near(k, Kept(k)', m_total[k], mapOf.at' - totalOf[k].at)
        /\ \A k \in Kinds : totalOf[k].at <= mapOf.at'
        /\ mapOf.at' <= timeStamp' /\ (mapOf.missed' \/ mapOf.at' = timeStamp')
    BY <1>1, ParseFacts
  <2>3. mapOf.of' \subseteq Devices /\ mapOf.at' \in Nat
    BY <1>1 DEF TypeOK, Origins
  <2>4. ASSUME NEW k \in Kinds, NEW d \in Devices
        PROVE  /\ d \in mapOf.of' => Near(k, Counted(k, d), Kept(k), now - mapOf.at)'
               /\ d \in totalOf[k].of' =>
                     Near(k, Counted(k, d), m_total[k], now - totalOf[k].at)'
               /\ d \in mapOf.of' \cap totalOf[k].of' =>
                     Near(k, Kept(k), m_total[k], mapOf.at - totalOf[k].at)'
    <3>1. Counted(k, d)' = Counted(k, d) /\ now' = now
      BY <1>1 DEF Counted
    <3>2. CASE k = call.kind
      <4>1. m_total'[k] = Kept(k)' /\ totalOf[k].at' = mapOf.at' /\ totalOf[k].of' = mapOf.of'
        BY <2>1, <3>2
      <4>2. Near(k, Kept(k)', Kept(k)', 0) /\ mapOf.at' - mapOf.at' = 0
        <5>1. Kept(k)' \in UInt
          BY <1>1, FigureType DEF TypeOK, Kept
        <5>2. QED  BY <2>3, <5>1, NearFacts
      <4>3. d \in mapOf.of' => Near(k, Counted(k, d), Kept(k)', now - mapOf.at')
        BY <2>2
      <4>4. QED  BY <3>1, <4>1, <4>2, <4>3, Primes
    <3>3. CASE k # call.kind
      <4>1. m_total'[k] = m_total[k] /\ totalOf[k].at' = totalOf[k].at
            /\ totalOf[k].of' = totalOf[k].of
        BY <2>1, <3>3
      <4>2. d \in totalOf[k].of => Near(k, Counted(k, d), m_total[k], now - totalOf[k].at)
        BY DEF NetInv, KernelInv
      <4>3. QED  BY <2>2, <3>1, <4>1, <4>2, Primes
    <3>4. QED  BY <3>2, <3>3
  <2>5. KernelInv' /\ MapInv'
    <3>1. \A k \in Kinds : totalOf[k].of' \subseteq Devices
      BY <1>1 DEF TypeOK, Origins
    <3>2. QED  BY <2>3, <2>4, <3>1 DEF KernelInv, MapInv
  <2>6. OrderInv'
    <3>1. ASSUME NEW k \in Kinds PROVE totalOf[k].at' <= mapOf.at'
      <4>1. totalOf[k].at' = mapOf.at' \/ totalOf[k].at' = totalOf[k].at
        BY <2>1
      <4>2. mapOf.at' <= mapOf.at'
        BY <2>3
      <4>3. QED  BY <2>2, <4>1, <4>2
    <3>2. QED  BY <2>2, <3>1 DEF OrderInv
  <2>7. ClockInv'
    BY <1>1, <1>3, <2>1 DEF NetInv, ClockInv, Older
  <2>8. CallInv'
    BY <1>3 DEF CallInv
  <2>9. LagInv'
    <3>1. timeStamp' \in Nat /\ now \in Nat /\ call.lag \in Nat
      BY <1>1, <1>3, Constant DEF TypeOK
    <3>2. CASE UNCHANGED mapVars
      BY <1>1, <1>3, <3>2 DEF NetInv, LagInv, mapVars
    <3>3. CASE parseEthernetDevice
      <4>1. now < timeStamp' + Second
        BY <1>1, <3>3, ParseType DEF NetInv
      <4>2. now <= timeStamp' + Second - 1 + call.lag
        BY <3>1, <4>1, ALittleLater
      <4>3. QED  BY <1>1, <1>3, <4>2 DEF LagInv
    <3>4. QED  BY <1>1, <3>2, <3>3
  <2>10. RateInv'
    <3>1. call.oldclock = timeBefore[call.kind] /\ call.oldBytes = m_total[call.kind]
          /\ call.from = totalOf[call.kind]
      BY <1>1 DEF NetInv, CallInv
    <3>2. call.from.missed \/ call.oldclock <= call.from.at + Older
      BY <1>1, <3>1 DEF NetInv, ClockInv
    <3>3. call.from.at <= mapOf.at'
      BY <1>1, <2>2, <3>1
    <3>4. \A k \in Kinds : k = call.kind =>
             \A d \in call.from.of \cap mapOf.of' :
                Near(k, Kept(k)', call.oldBytes, mapOf.at' - call.from.at)
      BY <2>2, <3>1
    <3>5. \A d \in (call.from.of \cap totalOf[call.kind].of)' :
             Near(call.kind, m_total[call.kind], call.oldBytes,
                  totalOf[call.kind].at - call.from.at)'
      <4>1. call' = call /\ totalOf'[call.kind] = mapOf'
        BY <1>1, <1>3, <2>1
      <4>2. \A d \in call.from.of \cap mapOf.of' :
               Near(call.kind, m_total'[call.kind], call.oldBytes, mapOf.at' - call.from.at)
        BY <1>1, <2>1, <3>4
      <4>3. QED  BY <4>1, <4>2 DEF Near, Minus, Room, Width
    <3>6. QED  BY <1>1, <1>3, <2>1, <3>2, <3>3, <3>5 DEF RateInv, Older
  <2>11. QED  BY <1>1, <2>5, <2>6, <2>7, <2>8, <2>9, <2>10 DEF NetInv
<1>4. QED  BY <1>2, <1>3 DEF ReadRate

LEMMA InvRate ==
    ASSUME NetInv, Rate PROVE NetInv'
<1>1. /\ TypeOK' /\ UNCHANGED <<now, counters, m_total, totalOf, timeStamp>>
      /\ pc = "rate" /\ pc' = "idle" /\ call.kind \in Kinds /\ call.rate
      /\ UNCHANGED mapVars
  BY RunType DEF NetInv, Run, Rate, Return, kernelVars, mapVars, TypeOK, RateInv
<1>2. KernelInv' /\ MapInv' /\ OrderInv'
  BY <1>1, KeptAheadFacts
<1>3. CallInv' /\ LagInv' /\ RateInv'
  BY <1>1 DEF CallInv, LagInv, RateInv
<1>4. ClockInv'
  <2> SUFFICES ASSUME NEW k \in Kinds
               PROVE  totalOf[k].missed \/ timeBefore'[k] <= totalOf[k].at + Older
    BY <1>1 DEF ClockInv, Older
  <2>1. CASE k # call.kind
    BY <1>1, <2>1 DEF NetInv, TypeOK, ClockInv, Rate
  <2>2. CASE k = call.kind
    <3>1. timeBefore'[k] = now
      BY <2>2 DEF Rate, NetInv, TypeOK
    <3>2. totalOf[k] = mapOf /\ (mapOf.missed \/ mapOf.at = timeStamp)
      BY <1>1, <2>2 DEF NetInv, RateInv, OrderInv
    <3>3. now <= timeStamp + Second - 1 + call.lag
      BY <1>1 DEF NetInv, LagInv
    <3>4. call.lag \in 0..Slow /\ timeStamp \in Nat /\ now \in Nat
      BY Constant DEF NetInv, TypeOK
    <3>5. now <= timeStamp + Older
      BY <3>3, <3>4, Constant DEF Older
    <3>6. QED  BY <3>1, <3>2, <3>5
  <2>3. QED  BY <2>1, <2>2
<1>5. QED  BY <1>1, <1>2, <1>3, <1>4 DEF NetInv

LEMMA InvStep ==
    ASSUME NetInv, [Next]_vars PROVE NetInv'
<1>1. CASE UNCHANGED vars
  <2>1. TypeOK'
    BY <1>1, TypeStep DEF NetInv
  <2>2. UNCHANGED <<now, counters, networkstatMap, timeStamp, mapOf, m_total, timeBefore,
                    totalOf, pc, call>>
    BY <1>1 DEF vars, kernelVars, mapVars, baseVars
  <2>3. QED
    BY <2>1, <2>2 DEF NetInv, KernelInv, MapInv, OrderInv, ClockInv, CallInv, LagInv,
                      RateInv, Near, Minus, Room, Width, Counted, Kept, Older
<1>2. CASE Environment
  BY <1>2, InvTick, InvVanish, InvAppear DEF Environment
<1>3. CASE Run
  BY <1>3, InvConstruct, InvParse, InvReadRate, InvRate DEF Run
<1>4. CASE \E g \in Getters : Call(g)
  BY <1>4, InvCall
<1>5. QED  BY <1>1, <1>2, <1>3, <1>4 DEF Next

LEMMA InvHolds == Spec => []NetInv
  BY InvInit, InvStep, PTL DEF Spec

\* The bound of a rate, from the invariant.
LEMMA RateStep ==
    ASSUME NetInv, Rate, call.from.of \cap totalOf[call.kind].of # {}
    PROVE  LET elapsed == now - call.oldclock
               between == totalOf[call.kind].at - call.from.at
           IN  /\ result' * AtLeastOne(elapsed)
                    <= Width(call.kind) * Peak * between * Second
               /\ call.from.missed \/ between <= elapsed + Older
<1> DEFINE elapsed == now - call.oldclock
           between == totalOf[call.kind].at - call.from.at
           bytes == Minus(m_total[call.kind], call.oldBytes)
           room == Room(call.kind, between)
<1>1. /\ call.kind \in Kinds /\ call.oldBytes \in UInt /\ m_total[call.kind] \in UInt
      /\ elapsed \in Nat /\ call.oldclock \in Nat /\ call.from.at \in Nat
      /\ now \in Nat /\ totalOf[call.kind].at \in 0..now
  BY Constant DEF NetInv, TypeOK, Origins
<1>2. /\ call.from.at <= totalOf[call.kind].at
      /\ call.from.missed \/ call.oldclock <= call.from.at + Older
      /\ bytes <= room
  BY DEF NetInv, RateInv, Rate, Near
<1>3. between \in Nat
  BY <1>1, <1>2
<1>4. room \in Nat
  <2> HIDE DEF between
  <2>1. QED  BY <1>1, <1>3, RoomFacts
<1>5. bytes \in UInt /\ bytes \in Nat
  BY <1>1, MinusType, Constant DEF UInt
<1>6. result' = PerSecond(bytes, elapsed)
  BY DEF Rate, Return
<1>7. PerSecond(bytes, elapsed) * AtLeastOne(elapsed) <= bytes * Second
      /\ PerSecond(bytes, elapsed) * AtLeastOne(elapsed) \in Nat
  <2> HIDE DEF bytes, elapsed
  <2>1. PerSecond(bytes, elapsed) \in UInt
        /\ PerSecond(bytes, elapsed) * AtLeastOne(elapsed) <= bytes * Second
    BY <1>1, <1>5, PerSecondFacts
  <2>2. PerSecond(bytes, elapsed) \in Nat /\ AtLeastOne(elapsed) \in Nat
    BY <1>1, <2>1, Constant DEF UInt, AtLeastOne
  <2>3. QED  BY <2>1, <2>2
<1>8. bytes * Second <= room * Second /\ bytes * Second \in Nat /\ room * Second \in Nat
  <2> HIDE DEF bytes, room
  <2>1. PICK d \in Nat : room = bytes + d
    <3>1. room - bytes \in Nat /\ room = bytes + (room - bytes)
      BY <1>2, <1>4, <1>5
    <3>2. QED  BY <3>1
  <2>2. room * Second = bytes * Second + d * Second /\ d * Second \in Nat
        /\ bytes * Second \in Nat
    BY <1>5, <2>1, Constant
  <2>3. QED  BY <2>2
<1>9. room * Second = Width(call.kind) * Peak * between * Second
  BY DEF Room
<1>10. call.from.missed \/ between <= elapsed + Older
  <2>1. CASE call.oldclock <= call.from.at + Older
    <3>1. Older \in Nat
      BY Constant DEF Older
    <3>2. QED  BY <1>1, <2>1, <3>1
  <2>2. CASE call.from.missed
    BY <2>2
  <2>3. QED  BY <1>2, <2>1, <2>2
<1> HIDE DEF bytes, room, elapsed
<1>11. result' * AtLeastOne(elapsed) <= room * Second
  BY <1>6, <1>7, <1>8
<1>12. QED  BY <1>9, <1>10, <1>11 DEF elapsed

\* A rate claims no more bytes than the device can have moved between the two
\* readings it compares, whatever failed, vanished or wrapped round in between,
\* and only an attempt that found nothing sets the readings further apart than
\* the calls and a second.
THEOREM RateBound == Spec => RateIsBounded
<1>1. ASSUME NetInv, [Next]_vars
      PROVE  pc = "rate" /\ pc' = "idle" =>
               LET elapsed == now - call.oldclock
                   between == totalOf[call.kind].at - call.from.at
               IN  call.from.of \cap totalOf[call.kind].of # {} =>
                     /\ result' * AtLeastOne(elapsed)
                          <= Width(call.kind) * Peak * between * Second
                     /\ call.from.missed \/ between <= elapsed + Older
  <2>1. pc = "rate" /\ pc' = "idle" => Rate
    BY <1>1 DEF Next, Environment, Tick, Vanish, Appear, Run, Construct, Call,
                Parse, ReadTotal, ReadRate, vars
  <2>2. QED  BY <1>1, <2>1, RateStep, Zenon
<1>2. QED  BY <1>1, InvHolds, PTL DEF Spec, RateIsBounded

\* What a getter returns is at most a second old when it is called, or an
\* attempt to read anew has found nothing since.
THEOREM FigureAge == Spec => FigureIsRecent
<1>1. ASSUME NetInv, [Next]_vars
      PROVE  pc' = "idle" /\ pc \in {"read", "rate"} =>
               /\ timeStamp' + Second > now - call.lag
               /\ (mapOf.missed \/ mapOf.at = timeStamp)'
  <2> SUFFICES ASSUME pc' = "idle", pc \in {"read", "rate"}
               PROVE  /\ timeStamp' + Second > now - call.lag
                      /\ (mapOf.missed \/ mapOf.at = timeStamp)'
    OBVIOUS
  <2>1. ReadTotal \/ ReadRate \/ Rate
    BY <1>1 DEF Next, Environment, Tick, Vanish, Appear, Run, Construct, Call,
                Parse, vars
  <2>2. (mapOf.missed \/ mapOf.at = timeStamp)'
    BY <1>1, InvStep DEF NetInv, OrderInv
  <2>3. /\ now \in Nat /\ call.lag \in Nat /\ timeStamp \in Nat /\ now' = now
        /\ Second \in Nat
    BY <1>1, <2>1, Constant DEF NetInv, TypeOK, ReadTotal, ReadRate, Rate
  <2>4. CASE ReadTotal
    <3>1. timeStamp' \in 0..now
      BY <1>1, <2>3, <2>4, ParseType DEF NetInv, ReadTotal
    <3>2. timeStamp' \in Nat
      BY <2>3, <3>1
    <3>3. now < timeStamp' + Second
      BY <1>1, <2>3, <2>4, ParseType DEF NetInv, ReadTotal
    <3>4. timeStamp' + Second > now - call.lag
      BY <2>3, <3>2, <3>3, ALittleLater
    <3>5. QED  BY <2>2, <3>4
  <2>5. CASE ReadRate \/ Rate
    <3>1. UNCHANGED timeStamp /\ call.rate
      BY <1>1, <2>5 DEF ReadRate, Rate, mapVars, NetInv, RateInv
    <3>2. now <= timeStamp + Second - 1 + call.lag
      BY <1>1, <3>1 DEF NetInv, LagInv
    <3>3. timeStamp + Second > now - call.lag
      BY <2>3, <3>2
    <3>4. QED  BY <2>2, <3>1, <3>3
  <2>6. QED  BY <2>1, <2>4, <2>5
<1>2. QED  BY <1>1, InvHolds, PTL DEF Spec, FigureIsRecent
-----------------------------------------------------------------------------
(* How far a figure that is shown is from its number.                      *)

\* A step of the three loses nothing and leaves no more than 1024.
LEMMA Carried ==
    ASSUME NEW n \in Nat
    PROVE  \E up \in Nat, left \in 0..Text!Kilo :
              /\ up = Text!Up(n) /\ left = Text!Left(n)
              /\ n = up * Text!Kilo + left /\ (up > 0 => left < Text!Kilo)
<1>1. Text!Up(n) \in Nat /\ Text!Left(n) \in 0..Text!Kilo
  BY DEF Text!Up, Text!Left, Text!Kilo
<1>2. n = Text!Up(n) * Text!Kilo + Text!Left(n) /\ (Text!Up(n) > 0 => Text!Left(n) < Text!Kilo)
  BY DEF Text!Up, Text!Left, Text!Kilo
<1> QED
  BY Zenon, <1>1, <1>2

\* The hundreds of what is left.
LEMMA Hundreds ==
    ASSUME NEW n \in 0..Text!Kilo
    PROVE  n \div 100 \in 0..10 /\ (n \div 100) * 100 <= n /\ n < (n \div 100) * 100 + 100
  BY DEF Text!Kilo

\* Whatever number of bytes is shown, the number lies between the value of the
\* text and that plus a hundred of the next smaller unit, and only 0 is shown
\* as "undef".
THEOREM FigureIsClose ==
    ASSUME NEW n \in Nat
    PROVE  Text!Close(Text!getBytesString(n), n)
<1> DEFINE f == Text!getBytesString(n)
<1>1. PICK kilo \in Nat, ones \in 0..Text!Kilo :
         /\ kilo = Text!Up(n) /\ ones = Text!Left(n)
         /\ n = kilo * Text!Kilo + ones /\ (kilo > 0 => ones < Text!Kilo)
  BY Zenon, Carried
<1>2. PICK mega \in Nat, kilos \in 0..Text!Kilo :
         /\ mega = Text!Up(kilo) /\ kilos = Text!Left(kilo)
         /\ kilo = mega * Text!Kilo + kilos /\ (mega > 0 => kilos < Text!Kilo)
  BY Zenon, Carried
<1>3. PICK giga \in Nat, megas \in 0..Text!Kilo :
         /\ giga = Text!Up(mega) /\ megas = Text!Left(mega)
         /\ mega = giga * Text!Kilo + megas /\ (giga > 0 => megas < Text!Kilo)
  BY Zenon, Carried
<1>4. n = kilo * Text!Kilo + ones /\ (kilo > 0 => ones < Text!Kilo)
  BY Zenon, <1>1
<1>5. kilo = mega * Text!Kilo + kilos /\ (mega > 0 => kilos < Text!Kilo)
  BY Zenon, <1>2
<1>6. mega = giga * Text!Kilo + megas /\ (giga > 0 => megas < Text!Kilo)
  BY Zenon, <1>3
<1>7. f = IF giga > 0       THEN Text!Figure(giga, megas, "giga")
           ELSE IF megas > 0 THEN Text!Figure(megas, kilos, "mega")
           ELSE IF kilos > 0 THEN Text!Figure(kilos, ones, "kilo")
           ELSE IF ones > 0  THEN Text!Figure(ones, 0, "one")
           ELSE Text!Undef
  BY Zenon, <1>1, <1>2, <1>3 DEF Text!getBytesString, Text!Shown
<1> HIDE DEF f
<1>8. CASE giga > 0
  <2>1. f = Text!Figure(giga, megas, "giga")
    BY <1>8, <1>7
  <2>2. /\ f.whole = giga /\ f.part = megas \div 100 /\ f.unit = "giga"
        /\ f # Text!Undef
    BY <2>1 DEF Text!Figure, Text!Undef
  <2>3. PICK part \in 0..10 : /\ part = megas \div 100
                             /\ part * 100 <= megas /\ megas < part * 100 + 100
    BY Hundreds DEF Text!Kilo
  <2>4. /\ Text!Value(f) = giga * 1073741824 + part * 104857600
        /\ Text!Open(f) = 104857600
    BY SMT, <2>2, <2>3 DEF Text!Value, Text!Open, Text!Unit, Text!Smaller, Text!Kilo
  <2>5. /\ giga * 1073741824 + part * 104857600 <= n
        /\ n < giga * 1073741824 + part * 104857600 + 104857600
        /\ n # 0
    <3>1. n = giga * 1073741824 + megas * 1048576 + kilos * 1024 + ones
      BY SMT, <1>4, <1>5, <1>6 DEF Text!Kilo
    <3>2. megas <= part * 100 + 99 /\ kilos <= 1023 /\ ones <= 1023
      BY SMT, <1>8, <2>3, <1>4, <1>5, <1>6 DEF Text!Kilo
    <3>3. part * 104857600 <= megas * 1048576
      BY SMT, <2>3 DEF Text!Kilo
    <3>4. megas * 1048576 + kilos * 1024 + ones < part * 104857600 + 104857600
      BY SMT, <3>2 DEF Text!Kilo
    <3> QED
      BY SMT, <1>8, <3>1, <3>3, <3>4 DEF Text!Kilo
  <2> QED
    BY <2>2, <2>3, <2>4, <2>5 DEF Text!Close, f
<1>9. CASE ~(giga > 0) /\ megas > 0
  <2>1. f = Text!Figure(megas, kilos, "mega")
    BY <1>9, <1>7
  <2>2. /\ f.whole = megas /\ f.part = kilos \div 100 /\ f.unit = "mega"
        /\ f # Text!Undef
    BY <2>1 DEF Text!Figure, Text!Undef
  <2>3. PICK part \in 0..10 : /\ part = kilos \div 100
                             /\ part * 100 <= kilos /\ kilos < part * 100 + 100
    BY Hundreds DEF Text!Kilo
  <2>4. /\ Text!Value(f) = megas * 1048576 + part * 102400
        /\ Text!Open(f) = 102400
    BY SMT, <2>2, <2>3 DEF Text!Value, Text!Open, Text!Unit, Text!Smaller, Text!Kilo
  <2>5. /\ megas * 1048576 + part * 102400 <= n
        /\ n < megas * 1048576 + part * 102400 + 102400
        /\ n # 0
    <3>1. n = megas * 1048576 + kilos * 1024 + ones
      BY SMT, <1>9, <1>4, <1>5, <1>6 DEF Text!Kilo
    <3>2. kilos <= part * 100 + 99 /\ ones <= 1023
      BY SMT, <1>9, <2>3, <1>4, <1>5, <1>6 DEF Text!Kilo
    <3>3. part * 102400 <= kilos * 1024
      BY SMT, <2>3 DEF Text!Kilo
    <3>4. kilos * 1024 + ones < part * 102400 + 102400
      BY SMT, <3>2 DEF Text!Kilo
    <3> QED
      BY SMT, <1>9, <3>1, <3>3, <3>4 DEF Text!Kilo
  <2> QED
    BY <2>2, <2>3, <2>4, <2>5 DEF Text!Close, f
<1>10. CASE ~(giga > 0) /\ ~(megas > 0) /\ kilos > 0
  <2>1. f = Text!Figure(kilos, ones, "kilo")
    BY <1>10, <1>7
  <2>2. /\ f.whole = kilos /\ f.part = ones \div 100 /\ f.unit = "kilo"
        /\ f # Text!Undef
    BY <2>1 DEF Text!Figure, Text!Undef
  <2>3. PICK part \in 0..10 : /\ part = ones \div 100
                             /\ part * 100 <= ones /\ ones < part * 100 + 100
    BY Hundreds DEF Text!Kilo
  <2>4. /\ Text!Value(f) = kilos * 1024 + part * 100
        /\ Text!Open(f) = 100
    BY SMT, <2>2, <2>3 DEF Text!Value, Text!Open, Text!Unit, Text!Smaller, Text!Kilo
  <2>5. /\ kilos * 1024 + part * 100 <= n
        /\ n < kilos * 1024 + part * 100 + 100
        /\ n # 0
    BY SMT, <1>10, <2>3, <1>4, <1>5, <1>6 DEF Text!Kilo
  <2> QED
    BY <2>2, <2>3, <2>4, <2>5 DEF Text!Close, f
<1>11. CASE ~(giga > 0) /\ ~(megas > 0) /\ ~(kilos > 0)
  <2>1. n = ones
    BY SMT, <1>11, <1>4, <1>5, <1>6 DEF Text!Kilo
  <2>2. CASE ones > 0
    <3>1. f = Text!Figure(ones, 0, "one")
      BY <1>11, <2>2, <1>7
    <3>2. f.whole = ones /\ f.part = 0 /\ f.unit = "one" /\ f # Text!Undef
      BY <3>1 DEF Text!Figure, Text!Undef
    <3>3. Text!Value(f) = ones /\ Text!Open(f) = 1
      BY <3>2 DEF Text!Value, Text!Open, Text!Unit, Text!Smaller
    <3> QED
      BY <2>1, <2>2, <3>2, <3>3 DEF Text!Close, f
  <2>3. CASE ~(ones > 0)
    <3>1. f = Text!Undef
      BY <1>11, <2>3, <1>7
    <3>2. Text!Value(f) = 0 /\ Text!Open(f) = 1 /\ f.part = 0
      BY <3>1 DEF Text!Undef, Text!Value, Text!Open, Text!Unit, Text!Smaller
    <3> QED
      BY <2>1, <2>3, <3>1, <3>2 DEF Text!Close, f
  <2> QED
    BY <2>2, <2>3
<1> QED
  BY <1>8, <1>9, <1>10, <1>11

-----------------------------------------------------------------------------
(* A sample: types and order.                                              *)

Texts == [whole : Nat, part : 0..10, unit : {"giga", "mega", "kilo", "one", "none"}]

\* What a text consists of.
LEMMA TextType ==
    ASSUME NEW n \in Nat PROVE Text!Shown(n) \in Texts
<1>1. ASSUME NEW whole \in Nat, NEW smaller \in 0..Text!Kilo,
             NEW unit \in {"giga", "mega", "kilo", "one", "none"}
      PROVE  Text!Figure(whole, smaller, unit) \in Texts
  BY Hundreds DEF Text!Figure, Texts
<1>2. PICK kilo \in Nat, ones \in 0..Text!Kilo : kilo = Text!Up(n) /\ ones = Text!Left(n)
  BY Zenon, Carried
<1>3. PICK mega \in Nat, kilos \in 0..Text!Kilo : mega = Text!Up(kilo) /\ kilos = Text!Left(kilo)
  BY Zenon, Carried
<1>4. PICK giga \in Nat, megas \in 0..Text!Kilo : giga = Text!Up(mega) /\ megas = Text!Left(mega)
  BY Zenon, Carried
<1>5. Text!Undef \in Texts
  BY DEF Text!Undef, Texts
<1>6. megas \in Nat /\ kilos \in Nat /\ ones \in Nat /\ 0 \in 0..Text!Kilo
  BY DEF Text!Kilo
<1>7. Text!Shown(n) = IF giga > 0 THEN Text!Figure(giga, megas, "giga")
           ELSE IF megas > 0 THEN Text!Figure(megas, kilos, "mega")
           ELSE IF kilos > 0 THEN Text!Figure(kilos, ones, "kilo")
           ELSE IF ones > 0  THEN Text!Figure(ones, 0, "one")
           ELSE Text!Undef
  BY Zenon, <1>2, <1>3, <1>4 DEF Text!Shown
<1>8. QED  BY <1>1, <1>5, <1>6, <1>7

\* The figures of a sample: totals, texts, and those of the memory.
ShownFigures == UInt \cup Texts \cup Mem!Figures

LEMMA AppendFacts ==
    ASSUME NEW S, NEW seq \in Seq(S), NEW x \in S
    PROVE  /\ Append(seq, x) \in Seq(S)
           /\ Len(Append(seq, x)) = Len(seq) + 1
           /\ Append(seq, x)[Len(seq) + 1] = x
           /\ \A i \in 1..Len(seq) : Append(seq, x)[i] = seq[i]
  OBVIOUS

\* What is asked for.
LEMMA Scripts ==
    /\ Len(NetScript) = 6 /\ Len(MemScript) = 3
    /\ \A i \in 1..6 : NetScript[i] \in Getters
    /\ \A i \in 1..6 : NetScript[i].rate <=> i \notin {2, 4}
    /\ NetScript[1].kind = "total" /\ NetScript[2].kind = "total"
    /\ NetScript[3].kind = "rx" /\ NetScript[4].kind = "rx"
    /\ NetScript[5].kind = "tx" /\ NetScript[6].kind = "rx"
    /\ MemScript[1] = "percent" /\ MemScript[2] = "used" /\ MemScript[3] = "total"
  BY DEF NetScript, MemScript, Getters, Kinds


LEMMA KeepIsTime == Keep \in Nat \ {0} /\ Second \in Nat \ {0}
  BY MonitorSampleAssumption, NetworkLoadAssumption DEF Mem!ConstantsFit

\* What is kept of the memory never shows more in use than there is.
LEMMA KeptFacts ==
    ASSUME NEW m \in Memories \cup {Mem!Nothing}
    PROVE  /\ m.total \in Nat /\ m.available \in Nat
           /\ m.total - m.available \in 0..m.total
  BY MonitorSampleAssumption DEF Mem!ConstantsFit, Mem!Nothing

LEMMA MemInitType == SampleInit => Mem!TypeOK
  BY KeepIsTime DEF SampleInit, Init, Mem!Init, Mem!TypeOK, Mem!Getters, Mem!Figures

LEMMA MemParseType ==
    ASSUME Mem!TypeOK, now \in Nat, Mem!parseMemoryFile, UNCHANGED now
    PROVE  /\ memStamp' \in 0..now /\ kept' \in Memories \cup {Mem!Nothing}
           /\ readAt' \in 0..now /\ readAt' <= memStamp'
  BY DEF Mem!TypeOK, Mem!parseMemoryFile, Mem!keptVars

LEMMA MemRunType ==
    ASSUME Mem!TypeOK, now \in Nat, Mem!Run PROVE Mem!TypeOK'
<1>1. /\ memStamp' \in 0..now /\ kept' \in Memories \cup {Mem!Nothing}
      /\ readAt' \in 0..now /\ readAt' <= memStamp'
      /\ UNCHANGED <<now, memory, readableSince, getter, calledAt>>
  BY MemParseType DEF Mem!Run, Mem!Percent, Mem!Used, Mem!Difference, Mem!Total, Mem!kernelVars
<1>2. /\ memPc' \in {"idle", "percent", "used", "left", "total"}
      /\ used' \in Int /\ figure' \in Mem!Figures
  <2>1. used \in Int /\ figure \in Mem!Figures
    BY DEF Mem!TypeOK
  <2>2. CASE Mem!Percent \/ Mem!Used
    BY <2>1, <2>2 DEF Mem!Percent, Mem!Used
  <2>3. CASE Mem!Difference
    <3>1. PICK available \in {kept.available, kept'.available} :
         LET difference == kept'.total - available
         IN  IF getter = "used"
               THEN Mem!Return(difference, 0)
               ELSE used' = difference /\ memPc' = "total" /\ UNCHANGED figure
      BY <2>3 DEF Mem!Difference
    <3>2. kept'.total - available \in Int
      BY <1>1, KeptFacts DEF Mem!TypeOK
    <3>3. QED  BY <2>1, <3>1, <3>2 DEF Mem!Return, Mem!Figures
  <2>4. CASE Mem!Total
    <3>1. kept'.total \in Nat
      BY <1>1, KeptFacts
    <3>2. QED  BY <2>1, <2>4, <3>1 DEF Mem!Total, Mem!Return, Mem!Figures
  <2>5. QED  BY <2>2, <2>3, <2>4 DEF Mem!Run
<1>3. QED  BY <1>1, <1>2 DEF Mem!TypeOK


\* A sample is asked for figure by figure, each when the last is there.
ScriptInv ==
    /\ obj \in Seq(ShownFigures) /\ Asked <= 9
    /\ pc = "init" => obj = << >> /\ memPc = "idle"
    /\ pc \notin {"init", "idle"} =>
         /\ Asked <= 5 /\ memPc = "idle"
         /\ call.kind = NetScript[Asked + 1].kind
         /\ call.rate = NetScript[Asked + 1].rate
    /\ pc \in {"parse", "rate"} => call.rate
    /\ memPc # "idle" => Asked \in 6..8 /\ getter = MemScript[Asked - 5]
    /\ memPc = "percent" => getter = "percent"
    /\ memPc \in {"used", "left"} => getter # "total"
    /\ memPc = "total" => getter # "used"

SampleTypeOK == TypeOK /\ Mem!TypeOK /\ ScriptInv

LEMMA AskedType ==
    ASSUME ScriptInv
    PROVE  Asked \in 0..9 /\ Asked \in Nat /\ (obj = << >> <=> Asked = 0)
<1>1. Asked \in 0..9 /\ Asked \in Nat
  <2>1. Asked \in Nat
    BY LenProperties DEF ScriptInv, Asked
  <2>2. Asked <= 9
    BY DEF ScriptInv
  <2>3. QED  BY <2>1, <2>2
<1>2. obj = << >> <=> Asked = 0
  BY EmptySeq DEF ScriptInv, Asked
<1>3. QED  BY <1>1, <1>2

\* What is asked for next.
LEMMA Asks ==
    ASSUME ScriptInv, Wake \/ Go
    PROVE  /\ \/ Asked \in 0..5 /\ Call(NetScript[Asked + 1]) /\ UNCHANGED memVars
              \/ Asked \in 6..8 /\ Mem!Call(MemScript[Asked - 5]) /\ UNCHANGED vars
           /\ UNCHANGED obj
<1>1. Asked \in 0..8
  BY AskedType, Scripts DEF Wake, Go, Asleep, Sampled
<1>2. Asked - Len(NetScript) + 1 = Asked - 5 /\ (NetPart <=> Asked \in 0..5)
  BY <1>1, Scripts DEF NetPart
<1>3. Ask /\ UNCHANGED obj
  BY DEF Wake, Go, workerVars
<1>4. QED  BY <1>1, <1>2, <1>3 DEF Ask

LEMMA NextFigure ==
    ASSUME NEW i \in 0..5 PROVE  NetScript[i + 1] \in Getters
  BY Scripts

LEMMA MemFigure ==
    ASSUME NEW i \in 6..8 PROVE  MemScript[i - 5] \in Mem!Getters
  BY Scripts DEF Mem!Getters

\* Every step of a sample is one of the networkLoad or none.
LEMMA SampleStep == ScriptInv /\ [SampleNext]_sampleVars => [Next]_vars
<1> SUFFICES ASSUME ScriptInv, [SampleNext]_sampleVars PROVE [Next]_vars
  OBVIOUS
<1>1. CASE Wake \/ Go
  BY <1>1, Asks, NextFigure DEF Next
<1>2. QED
  BY <1>1 DEF SampleNext, sampleVars, NetFigures, MemFigures, Sleep, Wait, Memory, Next

LEMMA MemType ==
    ASSUME Mem!TypeOK, ScriptInv, [SampleNext]_sampleVars, now \in Nat, now' \in Nat, now <= now'
    PROVE  Mem!TypeOK'
<1>1. 0..now \subseteq 0..now'
  OBVIOUS
<1>2. CASE UNCHANGED memVars
  BY <1>1, <1>2 DEF memVars, Mem!TypeOK
<1>3. CASE Wake \/ Go
  <2>1. ASSUME NEW i \in 6..8, Mem!Call(MemScript[i - 5]) PROVE Mem!TypeOK'
    BY <2>1, MemFigure DEF Mem!Call, Mem!TypeOK, Mem!Getters, Mem!kernelVars, Mem!keptVars
  <2>2. QED  BY <1>2, <1>3, <2>1, Asks
<1>4. CASE Mem!Run
  BY <1>4, MemRunType
<1>5. CASE Mem!Changes \/ Mem!Toggles
  BY <1>5 DEF Mem!Changes, Mem!Toggles, Mem!keptVars, Mem!callVars, Mem!TypeOK
<1>6. QED
  BY <1>2, <1>3, <1>4, <1>5
  DEF SampleNext, sampleVars, NetFigures, MemFigures, Sleep, Wait, Memory

LEMMA AsShownType ==
    ASSUME NEW x \in UInt, Asked \in 0..5 PROVE AsShown(x) \in ShownFigures
<1>1. x \in Nat /\ (x * 8) % Modulus \in Nat
  <2>1. x \in Nat /\ x * 8 \in Nat
    BY Constant DEF UInt
  <2>2. (x * 8) % Modulus \in 0..(Modulus - 1)
    BY <2>1, Constant, RemainderFacts
  <2>3. QED  BY <2>1, <2>2, Constant
<1>2. Text!getBytesString(x) \in Texts /\ Text!getBitsString(x, Modulus) \in Texts
  BY <1>1, TextType DEF Text!getBytesString, Text!getBitsString
<1>3. QED  BY <1>2 DEF AsShown, ShownFigures

\* A figure is set behind the others.
LEMMA FigureAdded ==
    ASSUME ScriptInv, NEW x \in ShownFigures, obj' = Append(obj, x)
    PROVE  /\ obj' \in Seq(ShownFigures) /\ Asked' = Asked + 1
           /\ obj'[Asked + 1] = x
           /\ \A i \in 1..Asked : obj'[i] = obj[i]
  BY AppendFacts DEF ScriptInv, Asked

\* A getter of the networkLoad goes on or returns.
LEMMA NetScriptStep ==
    ASSUME SampleTypeOK, TypeOK', NetFigures PROVE ScriptInv'
<1> USE DEF SampleTypeOK
<1>1. UNCHANGED <<memPc, getter>> /\ Run
  BY DEF NetFigures, memVars
<1>2. CASE Construct
  BY <1>1, <1>2 DEF NetFigures, Construct, ScriptInv, Asked
<1>3. CASE Parse
  BY <1>1, <1>3 DEF NetFigures, Parse, ScriptInv, Asked
<1>4. CASE ReadRate /\ pc' = "rate"
  <2>1. UNCHANGED <<call, obj>> /\ call.rate
    BY <1>4 DEF NetFigures, ReadRate, Return
  <2>2. QED  BY <1>1, <1>4, <2>1 DEF ScriptInv, Asked, ReadRate
<1>5. CASE pc \in {"read", "rate"} /\ pc' = "idle"
  <2>1. obj' = Append(obj, AsShown(result'))
    BY <1>5 DEF NetFigures
  <2>2. Asked \in 0..5 /\ memPc = "idle"
    BY <1>5, AskedType DEF ScriptInv
  <2>3. AsShown(result') \in ShownFigures
    BY <2>2, AsShownType DEF TypeOK
  <2>4. obj' \in Seq(ShownFigures) /\ Asked' = Asked + 1
    BY <2>1, <2>3, FigureAdded
  <2>5. QED  BY <1>1, <1>5, <2>2, <2>4 DEF ScriptInv
<1>6. QED
  BY <1>1, <1>2, <1>3, <1>4, <1>5 DEF Run, ReadTotal, ReadRate, Rate, Return

LEMMA MemScriptStep ==
    ASSUME SampleTypeOK, Mem!TypeOK', MemFigures PROVE ScriptInv'
<1> USE DEF SampleTypeOK
<1>1. UNCHANGED <<pc, call, getter>> /\ memPc # "idle" /\ pc = "idle"
  <2>1. UNCHANGED <<pc, call, getter>> /\ memPc # "idle"
    BY DEF MemFigures, vars, Mem!Run, Mem!Percent, Mem!Used, Mem!Difference, Mem!Total
  <2>2. QED  BY <2>1 DEF ScriptInv, TypeOK
<1>2. CASE memPc' = "idle"
  <2>1. obj' = Append(obj, figure')
    BY <1>2 DEF MemFigures
  <2>2. figure' \in ShownFigures
    BY DEF Mem!TypeOK, ShownFigures
  <2>3. obj' \in Seq(ShownFigures) /\ Asked' = Asked + 1
    BY <2>1, <2>2, FigureAdded
  <2>4. Asked \in 6..8
    BY <1>1 DEF ScriptInv
  <2>5. QED  BY <1>1, <1>2, <2>3, <2>4 DEF ScriptInv
<1>3. CASE memPc' # "idle"
  <2>1. UNCHANGED obj
    BY <1>3 DEF MemFigures
  <2>2. getter \in {"percent", "used", "total"}
    BY DEF Mem!TypeOK, Mem!Getters
  <2>3. /\ memPc' = "percent" => getter = "percent"
        /\ memPc' \in {"used", "left"} => getter # "total"
        /\ memPc' = "total" => getter # "used"
    BY <1>3, <2>2 DEF ScriptInv, MemFigures, Mem!Run, Mem!Percent, Mem!Used,
                      Mem!Difference, Mem!Total, Mem!Return
  <2>4. QED  BY <1>1, <2>1, <2>3 DEF ScriptInv, Asked
<1>4. QED  BY <1>2, <1>3

LEMMA SampleTypeStep ==
    ASSUME SampleTypeOK, [SampleNext]_sampleVars PROVE SampleTypeOK'
<1> USE DEF SampleTypeOK
<1>1. TypeOK'
  BY SampleStep, TypeStep
<1>2. now \in Nat /\ now' \in Nat /\ now <= now'
  <2>1. now' = now \/ now' = now + 1
    BY SampleStep DEF Next, Environment, Tick, Vanish, Appear, Run, Construct, Call,
                Parse, ReadTotal, ReadRate, Rate, vars
  <2>2. now \in Nat
    BY DEF TypeOK
  <2>3. QED  BY <2>1, <2>2
<1>3. Mem!TypeOK'
  BY <1>2, MemType
<1> SUFFICES ScriptInv'
  BY <1>1, <1>3
<1>4. ASSUME Wake \/ Go PROVE ScriptInv'
  <2>1. UNCHANGED obj /\ Resting
    BY <1>4, Asks DEF Wake, Go, Asleep
  <2>2. CASE Asked \in 0..5 /\ Call(NetScript[Asked + 1]) /\ UNCHANGED memVars
    <3>1. UNCHANGED <<memPc, getter>>
      BY <2>2 DEF memVars
    <3>2. pc' \in {"parse", "read"} /\ (pc' = "parse" => call'.rate)
          /\ call'.kind = NetScript[Asked + 1].kind /\ call'.rate = NetScript[Asked + 1].rate
      BY <2>2 DEF Call
    <3>3. Asked' = Asked /\ memPc' = "idle"
      BY <2>1, <3>1 DEF Asked, Resting
    <3>4. obj' \in Seq(ShownFigures) /\ Asked' <= 9
      BY <2>1, <3>3 DEF ScriptInv
    <3>5. QED  BY <2>2, <3>2, <3>3, <3>4 DEF ScriptInv
  <2>3. CASE Asked \in 6..8 /\ Mem!Call(MemScript[Asked - 5]) /\ UNCHANGED vars
    <3>1. UNCHANGED <<pc, call>>
      BY <2>3 DEF vars
    <3>2. memPc' = getter' /\ getter' = MemScript[Asked - 5] /\ getter' \in Mem!Getters
      BY <2>3, MemFigure DEF Mem!Call
    <3>3. QED  BY <2>1, <2>3, <3>1, <3>2 DEF ScriptInv, Asked, Resting, Mem!Getters
  <2>4. QED  BY <1>4, <2>2, <2>3, Asks
<1>5. CASE NetFigures
  BY <1>1, <1>5, NetScriptStep
<1>6. CASE MemFigures
  BY <1>3, <1>6, MemScriptStep
<1>7. CASE Sleep
  <2>1. Asked = 9
    BY <1>7, Scripts DEF Sleep, Sampled
  <2>2. pc = "idle" /\ memPc = "idle" /\ UNCHANGED <<pc, memPc>>
    BY <1>7, <2>1, AskedType DEF ScriptInv, TypeOK, Sleep, vars, memVars
  <2>3. obj' \in Seq(ShownFigures) /\ Asked' = 0
    BY <1>7 DEF Sleep, Asked
  <2>4. QED  BY <2>2, <2>3 DEF ScriptInv
<1>8. CASE Wait
  <2>1. UNCHANGED <<obj, memPc, getter, pc>> /\ call'.kind = call.kind /\ call'.rate = call.rate
    BY <1>8 DEF Wait, workerVars, memVars, Environment, Tick, Vanish, Appear, TypeOK
  <2>2. QED  BY <2>1 DEF ScriptInv, Asked
<1>9. CASE Memory \/ UNCHANGED sampleVars
  <2>1. UNCHANGED <<obj, memPc, getter, pc, call>>
    BY <1>9 DEF Memory, sampleVars, workerVars, memVars, vars, Mem!Changes, Mem!Toggles, Mem!callVars
  <2>2. QED  BY <2>1 DEF ScriptInv, Asked
<1>10. QED
  BY <1>1, <1>3, <1>4, <1>5, <1>6, <1>7, <1>8, <1>9 DEF SampleNext

LEMMA SampleInitType == SampleInit => SampleTypeOK
<1> SUFFICES ASSUME SampleInit PROVE SampleTypeOK
  OBVIOUS
<1>1. TypeOK /\ Mem!TypeOK
  BY InitType, MemInitType DEF SampleInit
<1>2. obj \in Seq(ShownFigures) /\ Asked = 0
  BY DEF SampleInit, Asked
<1>3. QED
  BY <1>1, <1>2 DEF SampleTypeOK, ScriptInv, SampleInit, Init, Mem!Init

\* The variables of a sample keep their types, those of the two objects it
\* asks included, and no object is asked before the other has answered.
THEOREM SampleTypeCorrect == SampleSpec => []SampleTypeOK
  BY SampleInitType, SampleTypeStep, PTL DEF SampleSpec

\* Whatever the worker does with the networkLoad, it does nothing that module
\* NetworkLoad does not allow: RateBound and FigureAge hold for its samples.
THEOREM SampleIsOfNetworkLoad == SampleSpec => Spec
<1>1. SampleInit => Init
  BY DEF SampleInit
<1>2. SampleTypeOK /\ [SampleNext]_sampleVars => [Next]_vars
  BY SampleStep DEF SampleTypeOK
<1>3. QED  BY <1>1, <1>2, SampleTypeCorrect, PTL DEF SampleSpec, Spec

-----------------------------------------------------------------------------
(* The memory after a failure.                                             *)

\* What was tried since the file can be opened has succeeded.
TriedInv == readableSince > 0 /\ memStamp > readableSince => readAt = memStamp

LEMMA MemTimes ==
    ASSUME SampleTypeOK
    PROVE  /\ now \in Nat
           /\ readableSince \in Nat /\ readableSince <= now
           /\ memStamp \in Nat      /\ memStamp <= now
           /\ calledAt \in Nat      /\ calledAt <= now
           /\ readAt \in Nat        /\ readAt <= memStamp
  BY DEF SampleTypeOK, TypeOK, Mem!TypeOK

\* What a getter returns once the file can be opened for long enough.
LEMMA TriedParse ==
    ASSUME SampleTypeOK, TriedInv, Mem!parseMemoryFile,
           UNCHANGED <<now, readableSince, calledAt>>
    PROVE  /\ TriedInv'
           /\ readableSince > 0 /\ readableSince + Keep <= calledAt
                => readAt' > calledAt - Keep
<1>1. CASE Mem!Fresh
  <2>1. UNCHANGED <<memStamp, readAt>>
    BY <1>1 DEF Mem!parseMemoryFile, Mem!keptVars
  <2>2. ASSUME readableSince > 0, readableSince + Keep <= calledAt
        PROVE  readAt > calledAt - Keep
    BY <1>1, <2>2, MemTimes, KeepIsTime DEF TriedInv, Mem!Fresh
  <2>3. QED  BY <2>1, <2>2 DEF TriedInv
<1>2. CASE ~Mem!Fresh
  <2>1. memStamp' = now /\ readAt' = IF readableSince > 0 THEN now ELSE readAt
    BY <1>2 DEF Mem!parseMemoryFile, Mem!readable
  <2>2. QED  BY <2>1, MemTimes, KeepIsTime DEF TriedInv
<1>3. QED  BY <1>1, <1>2

LEMMA RunParses ==
    ASSUME Mem!Run
    PROVE  Mem!parseMemoryFile /\ UNCHANGED <<now, memory, readableSince, getter, calledAt>>
  BY DEF Mem!Run, Mem!Percent, Mem!Used, Mem!Difference, Mem!Total, Mem!kernelVars

LEMMA TriedStep ==
    ASSUME SampleTypeOK, TriedInv, [SampleNext]_sampleVars PROVE TriedInv'
<1>1. CASE UNCHANGED <<readableSince, memStamp, readAt>>
  BY <1>1 DEF TriedInv
<1>2. CASE Wake \/ Go
  <2>1. UNCHANGED <<readableSince, memStamp, readAt>>
    BY <1>2, Asks DEF SampleTypeOK, memVars, Mem!Call, Mem!kernelVars, Mem!keptVars, Wake, Go, Ask
  <2>2. QED  BY <1>1, <2>1
<1>3. CASE MemFigures
  BY <1>3, RunParses, TriedParse DEF MemFigures
<1>4. CASE Memory
  <2>1. CASE Mem!Changes
    BY <1>1, <2>1 DEF Mem!Changes, Mem!keptVars
  <2>2. CASE Mem!Toggles
    BY <2>2, MemTimes DEF Mem!Toggles, Mem!keptVars, TriedInv
  <2>3. QED  BY <1>4, <2>1, <2>2 DEF Memory
<1>5. QED
  BY <1>1, <1>2, <1>3, <1>4 DEF SampleNext, NetFigures, Sleep, Wait, memVars, sampleVars

\* Once /proc/meminfo can be opened for as long as a reading is kept, no
\* getter of the memoryLoad returns figures that are older than that.
THEOREM MemoryIsRecent == SampleSpec => MemoryRecovers
<1>1. ASSUME SampleTypeOK, TriedInv, Mem!Run, Mem!readable, readableSince + Keep <= calledAt
      PROVE  readAt' > calledAt - Keep
  BY <1>1, RunParses, TriedParse DEF Mem!readable
<1>2. SampleTypeOK /\ TriedInv =>
        (Mem!Run /\ memPc' = "idle" /\ Mem!readable
           /\ readableSince + Keep <= calledAt => readAt' > calledAt - Keep)
  BY <1>1
<1>3. SampleInit => TriedInv
  BY DEF SampleInit, Init, Mem!Init, TriedInv
<1>4. SampleTypeOK /\ TriedInv /\ [SampleNext]_sampleVars => TriedInv'
  BY TriedStep
<1>5. SampleSpec => []TriedInv
  BY <1>3, <1>4, SampleTypeCorrect, PTL DEF SampleSpec
<1>6. QED
  BY <1>2, <1>5, SampleTypeCorrect, PTL DEF MemoryRecovers, Mem!MemoryRecovers

-----------------------------------------------------------------------------
(* The figures of a sample belong together.                                *)

\* The samples are far enough apart, and each is quick.
Paced == Second <= Interval /\ Keep <= Second /\ Haste < Keep

Working == pc # "init" /\ ~Asleep
NetRead == Asked > 0 \/ pc # "parse"
MemRead == Asked > 6 \/ memPc \notin {"idle", "percent"}

\* The worker sleeps long enough for both readings to be too old, and works
\* too quickly for a new one to become so.
PaceInv ==
    /\ since \in Nat /\ since <= now
    /\ pc = "init" => since = now
    /\ ~Working => timeStamp <= since /\ memStamp <= since
    /\ Working =>
         /\ now <= since + Haste
         /\ IF NetRead THEN timeStamp >= since ELSE timeStamp + Second <= since
         /\ IF MemRead THEN memStamp >= since ELSE memStamp + Keep <= since

LEMMA Times ==
    ASSUME SampleTypeOK, PaceInv
    PROVE  /\ now \in Nat /\ since \in Nat /\ timeStamp \in Nat /\ memStamp \in Nat
           /\ timeStamp <= now /\ memStamp <= now /\ since <= now
           /\ Second \in Nat \ {0} /\ Keep \in Nat \ {0} /\ Haste \in Nat /\ Interval \in Nat
  BY MemTimes, KeepIsTime, MonitorSampleAssumption DEF SampleTypeOK, TypeOK, PaceInv

\* Each of the two files is read once in a sample, by the first getter that
\* looks at it.
LEMMA NetReadsOnce ==
    ASSUME Paced, SampleTypeOK, PaceInv, parseEthernetDevice, Working
    PROVE  IF NetRead THEN UNCHANGED mapVars ELSE timeStamp' = now
<1>1. CASE NetRead
  <2>1. Throttled
    BY <1>1, Times DEF PaceInv, Throttled, Paced
  <2>2. QED  BY <1>1, <2>1 DEF parseEthernetDevice
<1>2. CASE ~NetRead
  <2>1. ~Throttled
    BY <1>2, Times DEF PaceInv, Throttled
  <2>2. QED  BY <1>2, <2>1 DEF parseEthernetDevice
<1>3. QED  BY <1>1, <1>2

LEMMA MemReadsOnce ==
    ASSUME Paced, SampleTypeOK, PaceInv, Mem!parseMemoryFile, Working
    PROVE  IF MemRead THEN UNCHANGED <<memStamp, kept>> ELSE memStamp' = now
<1>1. CASE MemRead
  <2>1. Mem!Fresh
    BY <1>1, Times DEF PaceInv, Mem!Fresh, Paced
  <2>2. QED  BY <1>1, <2>1 DEF Mem!parseMemoryFile, Mem!keptVars
<1>2. CASE ~MemRead
  <2>1. ~Mem!Fresh
    BY <1>2, Times DEF PaceInv, Mem!Fresh
  <2>2. QED  BY <1>2, <2>1 DEF Mem!parseMemoryFile
<1>3. QED  BY <1>1, <1>2

LEMMA PaceInit == SampleInit => PaceInv
  BY Constant DEF SampleInit, Init, Mem!Init, PaceInv, Working

\* What a step of a getter of the networkLoad leaves alone.
LEMMA NetFrame ==
    ASSUME SampleTypeOK, NetFigures, pc # "init"
    PROVE  /\ UNCHANGED <<now, since, memVars>> /\ pc' \notin {"init", "parse"}
           /\ Working /\ Asked \in 0..5 /\ memPc = "idle" /\ ~MemRead
           /\ \/ pc' # "idle" /\ UNCHANGED obj
              \/ /\ pc' = "idle" /\ pc \in {"read", "rate"}
                 /\ obj' = Append(obj, AsShown(result'))
<1>1. /\ UNCHANGED <<now, since, memVars>> /\ pc' \notin {"init", "parse"}
      /\ pc \in {"parse", "read", "rate"} /\ (pc = "parse" => pc' # "idle")
  BY DEF NetFigures, Run, Construct, Parse, ReadTotal, ReadRate, Rate, Return
<1>2. Asked \in 0..5 /\ memPc = "idle"
  BY <1>1, AskedType DEF SampleTypeOK, ScriptInv
<1>3. QED
  BY <1>1, <1>2 DEF NetFigures, Working, Asleep, Resting, MemRead

LEMMA NetPace ==
    ASSUME Paced, SampleTypeOK, PaceInv, NetFigures PROVE PaceInv'
<1>1. CASE pc = "init"
  <2>1. /\ Construct /\ UNCHANGED <<now, since, memVars, obj>> /\ pc' = "idle"
    BY <1>1 DEF NetFigures, Run, Construct, Parse, ReadTotal, ReadRate, Rate
  <2>2. timeStamp' \in 0..now
    BY <2>1, ParseType DEF Construct, SampleTypeOK
  <2>3. memPc' = "idle" /\ obj' = << >> /\ memStamp' = memStamp
    BY <1>1, <2>1 DEF SampleTypeOK, ScriptInv, memVars
  <2>4. ~Working'
    BY <2>1, <2>3 DEF Working, Asleep, Resting
  <2>5. since = now
    BY <1>1 DEF PaceInv
  <2>6. QED  BY <2>1, <2>2, <2>3, <2>4, <2>5, Times DEF PaceInv
<1>2. CASE pc # "init"
  <2>1. /\ UNCHANGED <<now, since, memVars>> /\ pc' \notin {"init", "parse"}
        /\ Working /\ Asked \in 0..5 /\ memPc = "idle" /\ ~MemRead
    BY <1>2, NetFrame
  <2>2. Asked' \in 0..6 /\ (pc' = "idle" => Asked' > 0)
    <3>1. CASE UNCHANGED obj /\ pc' # "idle"
      BY <2>1, <3>1 DEF Asked
    <3>2. CASE obj' = Append(obj, AsShown(result'))
      <4>1. AsShown(result') \in ShownFigures
        BY <2>1, AsShownType, SampleStep, TypeStep DEF SampleNext, SampleTypeOK, TypeOK
      <4>2. QED  BY <2>1, <3>2, <4>1, FigureAdded DEF SampleTypeOK
    <3>3. QED  BY <1>2, <3>1, <3>2, NetFrame
  <2>3. Working' /\ NetRead' /\ ~MemRead'
    <3>1. Asked' > 0 => obj' # << >>
      BY EmptySeq DEF Asked
    <3>2. memPc' = "idle"
      BY <2>1 DEF memVars
    <3>3. QED  BY <2>1, <2>2, <3>1, <3>2 DEF Working, Asleep, Resting, NetRead, MemRead
  <2>4. timeStamp' >= since
    <3>1. CASE parseEthernetDevice
      BY <2>1, <3>1, NetReadsOnce, Times DEF PaceInv, mapVars
    <3>2. CASE UNCHANGED mapVars /\ pc # "parse"
      BY <2>1, <3>2 DEF PaceInv, mapVars, NetRead
    <3>3. QED
      BY <1>2, <3>1, <3>2 DEF NetFigures, Run, Construct, Parse, ReadTotal, ReadRate, Rate
  <2>5. memStamp' = memStamp
    BY <2>1 DEF memVars
  <2>6. QED  BY <2>1, <2>3, <2>4, <2>5 DEF PaceInv
<1>3. QED  BY <1>1, <1>2

\* What a step of a getter of the memoryLoad leaves alone.
LEMMA MemFrame ==
    ASSUME SampleTypeOK, MemFigures
    PROVE  /\ UNCHANGED <<now, since, vars, getter>> /\ pc = "idle"
           /\ Mem!parseMemoryFile
           /\ Working /\ NetRead /\ Asked \in 6..8 /\ getter = MemScript[Asked - 5]
           /\ memPc' # "percent"
           /\ \/ memPc' # "idle" /\ UNCHANGED obj
              \/ memPc' = "idle" /\ obj' = Append(obj, figure')
<1>1. /\ UNCHANGED <<now, since, vars, getter>> /\ memPc # "idle" /\ memPc' # "percent"
      /\ Mem!parseMemoryFile
  BY RunParses DEF MemFigures, Mem!Run, Mem!Percent, Mem!Used, Mem!Difference, Mem!Total,
                   Mem!Return
<1>2. Asked \in 6..8 /\ getter = MemScript[Asked - 5] /\ pc = "idle"
  BY <1>1 DEF SampleTypeOK, ScriptInv, TypeOK
<1>3. QED
  BY <1>1, <1>2 DEF MemFigures, Working, Asleep, Resting, NetRead

LEMMA MemGrows ==
    ASSUME SampleTypeOK, MemFigures, memPc' = "idle"
    PROVE  /\ Asked' = Asked + 1 /\ obj'[Asked + 1] = figure'
           /\ \A i \in 1..Asked : obj'[i] = obj[i]
<1>1. figure' \in ShownFigures
  BY MemRunType DEF SampleTypeOK, TypeOK, MemFigures, Mem!TypeOK, ShownFigures
<1>2. QED  BY <1>1, MemFrame, FigureAdded DEF SampleTypeOK

LEMMA MemPace ==
    ASSUME Paced, SampleTypeOK, PaceInv, MemFigures PROVE PaceInv'
<1>1. /\ UNCHANGED <<now, since, vars>> /\ pc = "idle"
      /\ Working /\ NetRead /\ Asked \in 6..8 /\ memPc' # "percent"
  BY MemFrame
<1>2. IF memPc' = "idle" THEN Asked' = Asked + 1 ELSE Asked' = Asked
  BY MemFrame, MemGrows DEF Asked
<1>3. Working' /\ NetRead' /\ MemRead'
  <2>1. obj' # << >>
    BY <1>1, <1>2, EmptySeq DEF Asked
  <2>2. pc' = "idle"
    BY <1>1 DEF vars
  <2>3. QED  BY <1>1, <1>2, <2>1, <2>2 DEF Working, Asleep, NetRead, MemRead
<1>4. memStamp' >= since
  BY <1>1, MemFrame, MemReadsOnce, Times DEF PaceInv
<1>5. timeStamp' = timeStamp /\ pc' = pc
  BY <1>1 DEF vars, mapVars
<1>6. QED  BY <1>1, <1>3, <1>4, <1>5 DEF PaceInv

LEMMA PaceStep ==
    ASSUME Paced, SampleTypeOK, PaceInv, [SampleNext]_sampleVars PROVE PaceInv'
<1>1. CASE Wake
  <2>1. Asked = 0 /\ Asleep /\ ~Working
    BY <1>1, AskedType DEF Wake, Asleep, SampleTypeOK, Working
  <2>2. Call(NetScript[1]) /\ UNCHANGED <<memVars, obj>>
    BY <1>1, <2>1, Asks DEF SampleTypeOK
  <2>3. pc' = "parse" /\ UNCHANGED <<now, timeStamp>>
    BY <2>2, Scripts DEF Call, mapVars
  <2>4. Working' /\ ~NetRead' /\ ~MemRead'
    BY <2>1, <2>2, <2>3 DEF Working, NetRead, MemRead, Asleep, Resting, Asked, memVars
  <2>5. timeStamp <= since /\ memStamp <= since
    BY <2>1 DEF PaceInv
  <2>6. now >= since + SleepTime /\ since' = now /\ memStamp' = memStamp
    BY <1>1, <2>2 DEF Wake, memVars
  <2>7. SleepTime \in Nat /\ SleepTime >= Second
    BY Times DEF SleepTime, Paced
  <2>8. timeStamp + Second <= now /\ memStamp + Keep <= now
    BY <2>5, <2>6, <2>7, Times DEF Paced
  <2>9. QED  BY <2>3, <2>4, <2>6, <2>8, Times DEF PaceInv
<1>2. CASE Go
  <2>1. UNCHANGED <<now, since, timeStamp, memStamp, obj>> /\ Resting /\ obj # << >>
    BY <1>2, Asks DEF Go, SampleTypeOK, workerVars, Call, Mem!Call, vars, memVars, mapVars, Mem!keptVars
  <2>2. Working /\ Working' /\ NetRead /\ NetRead'
    <3>1. pc' # "init"
      BY <1>2, Asks DEF Go, SampleTypeOK, Call, vars, Resting
    <3>2. Asked > 0 /\ Asked' > 0
      BY <2>1, AskedType DEF SampleTypeOK, Asked
    <3>3. QED  BY <2>1, <3>1, <3>2 DEF Working, NetRead, Asleep, Resting
  <2>3. MemRead' = MemRead
    <3>1. CASE Asked \in 0..5 /\ UNCHANGED memVars
      BY <2>1, <3>1 DEF MemRead, Asked, memVars
    <3>2. CASE Asked \in 6..8 /\ Mem!Call(MemScript[Asked - 5])
      <4>1. memPc = "idle" /\ memPc' = MemScript[Asked - 5] /\ Asked' = Asked
        BY <2>1, <3>2 DEF Asked, Mem!Call, Resting
      <4>2. CASE Asked = 6
        <5>1. memPc' = "percent"
          BY <4>1, <4>2, Scripts
        <5>2. QED  BY <4>1, <4>2, <5>1 DEF MemRead
      <4>3. CASE Asked \in 7..8
        BY <4>1, <4>3 DEF MemRead
      <4>4. QED  BY <3>2, <4>2, <4>3
    <3>3. QED  BY <1>2, <3>1, <3>2, Asks DEF SampleTypeOK
  <2>4. QED  BY <2>1, <2>2, <2>3 DEF PaceInv, Working
<1>3. CASE NetFigures
  BY <1>3, NetPace
<1>4. CASE MemFigures
  BY <1>4, MemPace
<1>5. CASE Sleep
  <2>1. Asked = 9
    BY <1>5, Scripts DEF Sleep, Sampled
  <2>2. pc = "idle" /\ memPc = "idle"
    BY <2>1, AskedType DEF SampleTypeOK, ScriptInv, TypeOK
  <2>3. UNCHANGED <<pc, memPc, now, timeStamp, memStamp>> /\ obj' = << >> /\ since' = now
    BY <1>5 DEF Sleep, vars, memVars, mapVars
  <2>4. ~Working'
    BY <2>2, <2>3 DEF Working, Asleep, Resting
  <2>5. QED  BY <2>2, <2>3, <2>4, Times DEF PaceInv
<1>6. CASE Wait
  <2>1. UNCHANGED <<pc, memPc, obj, timeStamp, memStamp, since>>
        /\ (~Asleep => now' <= since + Haste)
        /\ (now' = now \/ (now' = now + 1 /\ pc # "init"))
    BY <1>6 DEF Wait, workerVars, memVars, mapVars, Environment, Tick, Vanish, Appear
  <2>2. Working' = Working /\ NetRead' = NetRead /\ MemRead' = MemRead
    BY <2>1 DEF Working, Asleep, Resting, NetRead, MemRead, Asked
  <2>3. QED  BY <2>1, <2>2, Times DEF PaceInv, Working
<1>7. CASE Memory \/ UNCHANGED sampleVars
  <2>1. UNCHANGED <<pc, memPc, obj, timeStamp, memStamp, since, now>>
    BY <1>7 DEF Memory, sampleVars, workerVars, memVars, vars, mapVars,
                Mem!Changes, Mem!Toggles, Mem!callVars, Mem!keptVars
  <2>2. Working' = Working /\ NetRead' = NetRead /\ MemRead' = MemRead
    BY <2>1 DEF Working, Asleep, Resting, NetRead, MemRead, Asked
  <2>3. QED  BY <2>1, <2>2 DEF PaceInv
<1>8. QED
  BY <1>1, <1>2, <1>3, <1>4, <1>5, <1>6, <1>7 DEF SampleNext



\* The figures of a sample, as far as they are there, are those of what was read.
NetFigureInv ==
    /\ Asked >= 2 => obj[2] = Figure("total", networkstatMap)
    /\ Asked >= 4 => obj[4] = Figure("rx", networkstatMap)
    /\ Asked >= 5 \/ (Asked = 4 /\ pc = "rate")
         => m_total["tx"] = Figure("tx", networkstatMap)

InUse == kept.total - kept.available

MemFigureInv ==
    /\ memPc = "total" /\ getter = "percent" => used = InUse
    /\ Asked >= 7 => obj[7] = [used |-> InUse, total |-> kept.total]
    /\ Asked >= 8 => obj[8] = [used |-> InUse, total |-> 0]
    /\ Asked >= 9 => obj[9] = [used |-> 0, total |-> kept.total]

\* The inductive invariant.
ConsistentInv == PaceInv /\ NetFigureInv /\ MemFigureInv

LEMMA NetFigureStep ==
    ASSUME Paced, SampleTypeOK, PaceInv, NetFigureInv, NetFigures PROVE NetFigureInv'
<1>1. CASE pc = "init"
  <2>1. Asked' = 0 /\ pc' = "idle"
    BY <1>1 DEF NetFigures, Run, Construct, Parse, ReadTotal, ReadRate, Rate,
                Asked, SampleTypeOK, ScriptInv
  <2>2. QED  BY <2>1 DEF NetFigureInv
<1>2. CASE pc # "init"
  <2> USE <1>2 DEF SampleTypeOK
  <2>1. /\ Working /\ Asked \in 0..5 /\ Asked \in Nat
        /\ call.kind = NetScript[Asked + 1].kind
        /\ call.rate = NetScript[Asked + 1].rate
        /\ call.kind \in Kinds /\ m_total \in [Kinds -> UInt]
    <3>1. pc # "idle"
      BY DEF NetFigures, Run, Construct, Parse, ReadTotal, ReadRate, Rate
    <3>2. Working /\ Asked \in 0..5 /\ Asked \in Nat
      BY NetFrame, AskedType
    <3>3. call.kind \in Kinds /\ m_total \in [Kinds -> UInt]
      BY DEF TypeOK
    <3>4. QED  BY <3>1, <3>2, <3>3 DEF ScriptInv
  <2>2. parseEthernetDevice => IF NetRead THEN UNCHANGED networkstatMap ELSE pc = "parse"
    BY <2>1, NetReadsOnce DEF mapVars, NetRead
  <2>3. CASE Parse
    <3>1. Asked' = Asked /\ pc' = "read" /\ m_total' = m_total /\ obj' = obj /\ pc = "parse"
      BY <2>3 DEF NetFigures, Parse, Asked, baseVars
    <3>2. Asked > 0 => networkstatMap' = networkstatMap
      BY <2>2, <2>3 DEF Parse, NetRead
    <3>3. QED  BY <2>1, <3>1, <3>2 DEF NetFigureInv
  <2>4. CASE ReadTotal
    <3>1. networkstatMap' = networkstatMap /\ m_total' = m_total /\ pc' = "idle"
          /\ result' = Figure(call.kind, networkstatMap)
      BY <2>2, <2>4 DEF ReadTotal, NetRead, baseVars, Return
    <3>2. Asked \in {1, 3}
      BY <2>1, <2>4, Scripts DEF ReadTotal
    <3>3. obj' = Append(obj, AsShown(result')) /\ AsShown(result') = result'
      BY <2>1, <2>4, <3>1 DEF NetFigures, ReadTotal, AsShown
    <3>4. result' \in UInt
      BY <2>1, <3>1, FigureType DEF TypeOK
    <3>5. /\ Asked' = Asked + 1
          /\ obj'[Asked + 1] = Figure(call.kind, networkstatMap)
          /\ \A i \in 1..Asked : obj'[i] = obj[i]
      BY <3>1, <3>3, <3>4, FigureAdded DEF ShownFigures
    <3>6. CASE Asked = 1
      BY <2>1, <3>1, <3>5, <3>6, Scripts DEF NetFigureInv
    <3>7. CASE Asked = 3
      BY <2>1, <3>1, <3>5, <3>7, Scripts DEF NetFigureInv
    <3>8. QED  BY <3>2, <3>6, <3>7
  <2>5. ASSUME pc' = "idle", UNCHANGED <<networkstatMap, m_total>>, Asked \notin {1, 3},
               Asked = 4 => pc = "rate", TypeOK'
        PROVE  NetFigureInv'
    <3>1. obj' = Append(obj, AsShown(result')) /\ AsShown(result') \in ShownFigures
      BY <2>1, <2>5, NetFrame, AsShownType DEF TypeOK
    <3>2. Asked' = Asked + 1 /\ \A i \in 1..Asked : obj'[i] = obj[i]
      BY <3>1, FigureAdded
    <3>3. Asked >= 2 => obj'[2] = obj[2]
      BY <2>1, <3>2
    <3>4. Asked >= 4 => obj'[4] = obj[4]
      BY <2>1, <3>2
    <3>5. QED  BY <2>1, <2>5, <3>2, <3>3, <3>4 DEF NetFigureInv
  <2>6. CASE ReadRate
    <3>1. networkstatMap' = networkstatMap
      BY <2>2, <2>6 DEF ReadRate, NetRead, mapVars
    <3>2. Asked \in {0, 2, 4, 5}
      <4>1. Asked + 1 \in 1..6 /\ NetScript[Asked + 1].rate
        BY <2>1, <2>6 DEF ReadRate
      <4>2. Asked + 1 \notin {2, 4}
        BY <4>1, Scripts
      <4>3. QED  BY <2>1, <4>2
    <3>3. CASE Return(0) /\ UNCHANGED m_total /\ call.kind = "total"
      <4>1. Asked # 4
        <5> SUFFICES ASSUME Asked = 4 PROVE FALSE
          OBVIOUS
        <5>1. call.kind = NetScript[5].kind
          BY <2>1
        <5>2. QED  BY <3>3, <5>1, Scripts
      <4>2. TypeOK'
        BY <2>6, RunType DEF Run
      <4>3. QED  BY <2>5, <3>1, <3>2, <3>3, <4>1, <4>2 DEF Return
    <3>4. CASE /\ m_total' = [m_total EXCEPT ![call.kind] = Figure(call.kind, networkstatMap')]
               /\ pc' = "rate"
      <4>1. Asked' = Asked /\ obj' = obj
        BY <3>4 DEF NetFigures, Asked
      <4>2. Asked >= 4 => m_total'["tx"] = Figure("tx", networkstatMap)
        <5>1. CASE Asked = 4
          <6>1. call.kind = "tx"
            BY <2>1, <5>1, Scripts
          <6>2. QED  BY <2>1, <3>1, <3>4, <6>1
        <5>2. CASE Asked = 5
          <6>1. call.kind = "rx" /\ "tx" \in Kinds
            BY <2>1, <5>2, Scripts DEF Kinds
          <6>2. QED  BY <2>1, <3>4, <5>2, <6>1 DEF NetFigureInv
        <5>3. QED  BY <2>1, <5>1, <5>2
      <4>3. QED  BY <2>1, <3>1, <4>1, <4>2 DEF NetFigureInv
    <3>5. QED  BY <2>6, <3>3, <3>4 DEF ReadRate
  <2>7. CASE Rate
    <3>1. UNCHANGED <<networkstatMap, m_total>> /\ pc' = "idle" /\ pc = "rate"
      BY <2>7 DEF Rate, Return, mapVars
    <3>2. Asked \notin {1, 3}
      BY <2>1, <3>1, Scripts DEF ScriptInv
    <3>3. TypeOK'
      BY <2>7, RunType DEF Run
    <3>4. QED  BY <2>5, <3>1, <3>2, <3>3
  <2>8. QED  BY <2>3, <2>4, <2>6, <2>7 DEF NetFigures, Run, Construct
<1>3. QED  BY <1>1, <1>2

LEMMA MemFigureStep ==
    ASSUME Paced, SampleTypeOK, PaceInv, MemFigureInv, MemFigures PROVE MemFigureInv'
<1>1. /\ UNCHANGED getter /\ Asked \in 6..8 /\ getter = MemScript[Asked - 5]
      /\ (memPc # "percent" => UNCHANGED kept)
      /\ memPc # "idle"
  <2>1. memPc # "idle"
    BY DEF MemFigures, Mem!Run, Mem!Percent, Mem!Used, Mem!Difference, Mem!Total
  <2>2. QED  BY <2>1, MemFrame, MemReadsOnce DEF MemRead
<1>2. /\ Asked = 6 <=> getter = "percent"
      /\ Asked = 7 <=> getter = "used"
      /\ Asked = 8 <=> getter = "total"
  <2>1. Asked = 6 \/ Asked = 7 \/ Asked = 8
    BY <1>1
  <2>2. QED  BY <1>1, <2>1, Scripts
<1>3. CASE Mem!Percent \/ Mem!Used
  <2>1. memPc' \in {"used", "left"} /\ UNCHANGED obj /\ Asked' = Asked
    BY <1>3 DEF Mem!Percent, Mem!Used, MemFigures, Asked
  <2>2. Asked = 6 \/ UNCHANGED kept
    BY <1>1, <1>2 DEF SampleTypeOK, ScriptInv
  <2>3. QED  BY <1>1, <2>1, <2>2 DEF MemFigureInv, InUse
<1>4. CASE Mem!Difference
  <2>1. UNCHANGED kept
    BY <1>1, <1>4 DEF Mem!Difference
  <2>2. IF getter = "used"
          THEN figure' = [used |-> InUse, total |-> 0] /\ memPc' = "idle"
          ELSE used' = InUse /\ memPc' = "total"
    BY <1>4, <2>1 DEF Mem!Difference, Mem!Return, InUse
  <2>3. InUse' = InUse
    BY <2>1 DEF InUse
  <2>4. CASE getter = "used"
    <3>1. Asked = 7 /\ memPc' = "idle" /\ figure' = [used |-> InUse, total |-> 0]
      BY <1>2, <2>2, <2>4
    <3>2. Asked' = 8 /\ obj'[8] = figure' /\ obj'[7] = obj[7]
      BY <3>1, MemGrows
    <3>3. QED  BY <2>1, <2>3, <3>1, <3>2 DEF MemFigureInv
  <2>5. CASE getter # "used"
    <3>1. memPc' = "total" /\ used' = InUse /\ obj' = obj /\ Asked' = Asked
      BY <2>2, <2>5 DEF MemFigures, Asked
    <3>2. QED  BY <1>1, <2>1, <2>3, <3>1 DEF MemFigureInv
  <2>6. QED  BY <2>4, <2>5
<1>5. CASE Mem!Total
  <2>1. UNCHANGED kept
    BY <1>1, <1>5 DEF Mem!Total
  <2>2. /\ memPc' = "idle"
        /\ figure' = [used |-> IF getter = "percent" THEN used ELSE 0, total |-> kept.total]
    BY <1>5, <2>1 DEF Mem!Total, Mem!Return
  <2>3. InUse' = InUse
    BY <2>1 DEF InUse
  <2>4. /\ Asked' = Asked + 1 /\ obj'[Asked + 1] = figure'
        /\ \A i \in 1..Asked : obj'[i] = obj[i]
    BY <2>2, MemGrows
  <2>5. CASE getter = "percent"
    <3>1. used = InUse
      BY <1>5, <2>5 DEF Mem!Total, MemFigureInv
    <3>2. QED  BY <1>2, <2>1, <2>2, <2>3, <2>4, <2>5, <3>1 DEF MemFigureInv
  <2>6. CASE getter = "total"
    <3>1. Asked' = 9 /\ obj'[9] = figure' /\ obj'[8] = obj[8] /\ obj'[7] = obj[7]
      BY <1>2, <2>4, <2>6
    <3>2. QED  BY <1>2, <2>1, <2>2, <2>3, <2>6, <3>1 DEF MemFigureInv
  <2>7. getter # "used"
    BY <1>5 DEF Mem!Total, SampleTypeOK, ScriptInv
  <2>8. QED  BY <1>1, <1>2, <2>5, <2>6, <2>7
<1>6. QED  BY <1>3, <1>4, <1>5 DEF MemFigures, Mem!Run

LEMMA ConsistentStep ==
    ASSUME Paced, SampleTypeOK, ConsistentInv, [SampleNext]_sampleVars
    PROVE  ConsistentInv'
<1> USE DEF ConsistentInv
<1> SUFFICES NetFigureInv' /\ MemFigureInv'
  BY PaceStep
<1>1. ASSUME UNCHANGED <<obj, networkstatMap, m_total, pc>> PROVE NetFigureInv'
  BY <1>1 DEF NetFigureInv, Asked
<1>2. ASSUME UNCHANGED <<obj, kept, memPc, getter, used>> PROVE MemFigureInv'
  BY <1>2 DEF MemFigureInv, InUse, Asked
<1>3. CASE Wake \/ Go
  <2>1. CASE Asked \in 0..5 /\ Call(NetScript[Asked + 1]) /\ UNCHANGED <<memVars, obj>>
    <3>1. UNCHANGED <<networkstatMap, m_total>> /\ pc' # "rate" /\ Asked' = Asked
      BY <2>1 DEF Call, mapVars, baseVars, Asked
    <3>2. NetFigureInv'
      BY <2>1, <3>1 DEF NetFigureInv
    <3>3. QED  BY <1>2, <2>1, <3>2 DEF memVars
  <2>2. CASE Asked \in 6..8 /\ Mem!Call(MemScript[Asked - 5]) /\ UNCHANGED <<vars, obj>>
    <3>1. UNCHANGED <<kept, used>> /\ memPc' = getter' /\ Asked' = Asked
      BY <2>2 DEF Mem!Call, Mem!keptVars, Asked
    <3>2. MemFigureInv'
      BY <2>2, <3>1 DEF MemFigureInv, InUse
    <3>3. QED  BY <1>1, <2>2, <3>2 DEF vars, mapVars, baseVars
  <2>3. QED  BY <1>3, <2>1, <2>2, Asks DEF SampleTypeOK
<1>4. CASE NetFigures
  <2>1. NetFigureInv'
    BY <1>4, NetFigureStep
  <2>2. MemFigureInv'
    <3>1. UNCHANGED <<kept, memPc, getter, used>> /\ memPc = "idle"
      BY <1>4, NetFrame DEF SampleTypeOK, ScriptInv, NetFigures, memVars
    <3>2. Asked' <= 6
      <4>1. CASE UNCHANGED obj
        <5>1. Asked \in 0..5
          <6>1. CASE pc = "init"
            BY <6>1, AskedType DEF SampleTypeOK, ScriptInv
          <6>2. CASE pc # "init"
            BY <1>4, <6>2, NetFrame
          <6>3. QED  BY <6>1, <6>2
        <5>2. Asked' = Asked
          BY <4>1 DEF Asked
        <5>3. QED  BY <5>1, <5>2
      <4>2. CASE ~UNCHANGED obj
        <5>1. /\ obj' = Append(obj, AsShown(result')) /\ pc # "init"
          BY <1>4, <4>2 DEF NetFigures
        <5>2. Asked \in 0..5
          BY <1>4, <5>1, NetFrame
        <5>3. AsShown(result') \in ShownFigures
          BY <1>4, <5>2, AsShownType, SampleStep, TypeStep DEF SampleNext, SampleTypeOK, TypeOK
        <5>4. QED  BY <5>1, <5>2, <5>3, FigureAdded DEF SampleTypeOK
      <4>3. QED  BY <4>1, <4>2
    <3>3. Asked' \in Nat
      BY PaceStep, SampleTypeStep, AskedType DEF SampleTypeOK, ScriptInv, Asked
    <3>4. QED  BY <3>1, <3>2, <3>3 DEF MemFigureInv
  <2>3. QED  BY <2>1, <2>2
<1>5. CASE MemFigures
  <2>1. NetFigureInv'
    <3>1. UNCHANGED <<networkstatMap, m_total, pc>> /\ Asked \in 6..8
      BY <1>5, MemFrame DEF vars, mapVars, baseVars
    <3>2. CASE UNCHANGED obj
      BY <1>1, <3>1, <3>2
    <3>3. CASE memPc' = "idle"
      <4>1. Asked' = Asked + 1 /\ obj'[2] = obj[2] /\ obj'[4] = obj[4]
        BY <1>5, <3>1, <3>3, MemGrows
      <4>2. QED  BY <3>1, <4>1 DEF NetFigureInv
    <3>4. QED  BY <1>5, <3>2, <3>3, MemFrame
  <2>2. QED  BY <1>5, <2>1, MemFigureStep
<1>6. CASE Sleep
  <2>1. Asked = 9
    BY <1>6, Scripts DEF Sleep, Sampled
  <2>2. memPc' = "idle" /\ Asked' = 0
    BY <1>6, <2>1 DEF SampleTypeOK, ScriptInv, Sleep, memVars, Asked
  <2>3. QED  BY <2>2 DEF NetFigureInv, MemFigureInv
<1>7. CASE Wait \/ Memory \/ UNCHANGED sampleVars
  <2>1. UNCHANGED <<obj, networkstatMap, m_total, pc, kept, memPc, getter, used>>
    BY <1>7 DEF Wait, Environment, Tick, Vanish, Appear, Memory, sampleVars, workerVars,
                memVars, vars, mapVars, baseVars, Mem!Changes, Mem!Toggles,
                Mem!callVars, Mem!keptVars
  <2>2. QED  BY <1>1, <1>2, <2>1
<1>8. QED
  BY <1>3, <1>4, <1>5, <1>6, <1>7 DEF SampleNext

\* All figures of a sample come from one reading of each file, and fit.
THEOREM SamplesAreConsistent ==
    ASSUME Paced PROVE SampleSpec => []SampleIsConsistent
<1>1. SampleInit => ConsistentInv
  <2> SUFFICES ASSUME SampleInit PROVE NetFigureInv /\ MemFigureInv
    BY PaceInit DEF ConsistentInv
  <2>1. Asked = 0 /\ pc = "init" /\ memPc = "idle"
    BY DEF SampleInit, Init, Mem!Init, Asked
  <2>2. QED  BY <2>1 DEF NetFigureInv, MemFigureInv
<1>2. ASSUME SampleTypeOK, ConsistentInv, Sampled PROVE SampleIsConsistent
  <2>1. Asked = 9
    BY <1>2, Scripts DEF Sampled
  <2>2. timeStamp >= since
    <3>1. obj # << >> /\ Asked > 0
      BY <2>1, EmptySeq DEF Asked
    <3>2. Working /\ NetRead
      BY <1>2, <3>1 DEF Working, NetRead, Asleep, SampleTypeOK, ScriptInv
    <3>3. QED  BY <1>2, <3>2 DEF ConsistentInv, PaceInv
  <2>3. /\ obj[2] = Figure("total", networkstatMap) /\ obj[4] = Figure("rx", networkstatMap)
        /\ m_total["tx"] = Figure("tx", networkstatMap)
    BY <1>2, <2>1 DEF ConsistentInv, NetFigureInv
  <2>4. obj[2] = (obj[4] + m_total["tx"]) % Modulus
    <3>1. CASE networkstatMap = Empty
      <4>1. 0 % Modulus = 0 /\ 0 + 0 = 0
        BY Constant, RemainderFacts
      <4>2. QED  BY <2>3, <3>1, <4>1 DEF Figure
    <3>2. CASE networkstatMap # Empty
      <4>1. networkstatMap.RXbytes \in Nat /\ networkstatMap.TXbytes \in Nat
        BY <1>2, <3>2, Constant DEF SampleTypeOK, TypeOK, Stat, UInt
      <4>2. /\ obj[2] = (networkstatMap.RXbytes + networkstatMap.TXbytes) % Modulus
            /\ obj[4] = networkstatMap.TXbytes /\ m_total["tx"] = networkstatMap.RXbytes
        BY <2>3, <3>2 DEF Figure
      <4>3. networkstatMap.RXbytes + networkstatMap.TXbytes
              = networkstatMap.TXbytes + networkstatMap.RXbytes
        BY <4>1
      <4>4. QED  BY <4>2, <4>3
    <3>3. QED  BY <3>1, <3>2
  <2>5. /\ obj[7] = [used |-> InUse, total |-> kept.total]
        /\ obj[8] = [used |-> InUse, total |-> 0]
        /\ obj[9] = [used |-> 0, total |-> kept.total]
    BY <1>2, <2>1 DEF ConsistentInv, MemFigureInv
  <2>6. InUse \in 0..kept.total
    BY <1>2, KeptFacts DEF InUse, SampleTypeOK, Mem!TypeOK
  <2>7. obj[7] = [used |-> obj[8].used, total |-> obj[9].total] /\ obj[7].used \in 0..obj[7].total
    BY <2>5, <2>6
  <2>8. QED  BY <2>2, <2>4, <2>7 DEF SampleIsConsistent
<1>3. SampleTypeOK /\ ConsistentInv => SampleIsConsistent
  BY <1>2 DEF SampleIsConsistent
<1>4. SampleTypeOK /\ ConsistentInv /\ [SampleNext]_sampleVars => ConsistentInv'
  BY ConsistentStep
<1>5. SampleSpec => []ConsistentInv
  BY <1>1, <1>4, SampleTypeCorrect, PTL DEF SampleSpec
<1>6. QED  BY <1>3, <1>5, SampleTypeCorrect, PTL

=============================================================================
