---------------------------- MODULE NetworkLoad -----------------------------
(***************************************************************************)
(* lib/linux_networkload: one networkLoad object, which samples the byte   *)
(* counters of a network device from /proc/net/dev, keeps them for a       *)
(* second, and derives totals and rates from them.  Its callers (a timer   *)
(* callback, the worker of linuxsysmonitor) use it from one thread.        *)
(*                                                                         *)
(* The kernel's file, the traffic and the steady clock are the             *)
(* environment.  A tick of the clock is a millisecond, Second of them are  *)
(* the 1000 of the code.  Time may pass inside a getter, as little as Slow *)
(* ticks.  A figure is a uint64_t: all arithmetic is modulo Modulus.       *)
(***************************************************************************)
EXTENDS Naturals, FiniteSets, SequencesExt, FiniteSetsExt

CONSTANTS
    Devices,        \* the names in the file
    ethDev,         \* the name the object was made for
    Alike,          \* the devices whose line contains that name
    Second,         \* the ticks of a second
    Modulus,        \* 2^64
    Peak,           \* the most bytes a device moves in a tick, each way
    Flows,          \* what it may move
    Slow,           \* the most ticks that pass inside a getter
    Busy,           \* the devices that move any
    Removable,      \* the devices that may be removed
    Starts,         \* the counters a device may have at the start
    MaxTime         \* bound: the clock stops here

ASSUME NetworkLoadAssumption ==
    /\ IsFiniteSet(Devices)
    /\ ethDev \in Alike
    /\ Alike \subseteq Devices
    /\ {Second, Modulus} \subseteq Nat \ {0}
    /\ {Peak, Slow, MaxTime} \subseteq Nat
    /\ Flows \subseteq [RXbytes : 0..Peak, TXbytes : 0..Peak]
    /\ Busy \subseteq Devices
    /\ Removable \subseteq Devices
    /\ Starts \subseteq 0..(Modulus - 1)

VARIABLES
    now,                \* steady_clock::now()
    file,               \* the lines of /proc/net/dev: devices in order
    counters,           \* the kernel's RX and TX bytes of each device
    timeStamp,          \* when the file was last read
    networkstatMap,     \* what was read last, or Empty
    isDeviceAvailable,  \* what isDeviceUp() returns
    m_total,            \* the figure each rate was last computed from
    timeBefore,         \* and when
    pc,                 \* where the call of a getter is
    call,               \* which getter it is, its locals oldBytesTransceived
                        \* and oldclock, and the ticks passed in it
    result,             \* what the last getter returned
    mapOf,              \* history: where what is in the map comes from, and
    totalOf             \* the figures in m_total; call.from: oldBytes

kernelVars == <<file, counters>>
mapVars    == <<timeStamp, networkstatMap, isDeviceAvailable, mapOf>>
baseVars   == <<m_total, timeBefore, totalOf>>
vars       == <<now, kernelVars, mapVars, baseVars, pc, call, result>>

Kinds   == {"total", "rx", "tx"}
Getters == [kind : Kinds, rate : BOOLEAN]
UInt    == 0..(Modulus - 1)
Stat    == [RXbytes : UInt, TXbytes : UInt]
Empty   == << >>                  \* the function with no argument

\* Where a figure comes from: the line of which device, or none if that device
\* has been replaced since; when that was read; and whether an attempt to read
\* it again has found nothing.
Origins == [of : SUBSET Devices, at : 0..now, missed : BOOLEAN]
Nowhere == [of |-> {}, at |-> 0, missed |-> FALSE]
NoCall  == [kind |-> "total", rate |-> FALSE,
            oldBytes |-> 0, oldclock |-> 0, lag |-> 0, from |-> Nowhere]

TypeOK ==
    /\ now \in Nat /\ now >= Second
    /\ file \in Seq(Devices) /\ IsInjective(file)
    /\ counters \in [Devices -> Stat]
    /\ timeStamp \in 0..now
    /\ networkstatMap \in Stat \cup {Empty}
    /\ isDeviceAvailable = (networkstatMap # Empty)
    /\ m_total \in [Kinds -> UInt]
    /\ timeBefore \in [Kinds -> Second..now]
    /\ pc \in {"init", "idle", "parse", "read", "rate"}
    /\ call \in [kind : Kinds, rate : BOOLEAN, oldBytes : UInt,
                oldclock : 0..now, lag : 0..Slow, from : Origins]
    /\ result \in UInt
    /\ mapOf \in Origins
    /\ totalOf \in [Kinds -> Origins]

-----------------------------------------------------------------------------
(* What the object computes.                                               *)

\* The lines that contain the object's name: the search stops at the first.
Matching == {i \in DOMAIN file : file[i] \in Alike}
Matched  == file[Min(Matching)]

\* Slip: the second lasts for two.
ThrottledTwice == timeStamp + 2 * Second > now

\* Within a second of the last attempt to read the file nothing is done.
Throttled == timeStamp + Second > now

LineRead ==
    /\ Matching # {}
    /\ networkstatMap' = counters[Matched]
    /\ isDeviceAvailable' = TRUE
    /\ mapOf' = [of |-> {Matched}, at |-> now, missed |-> FALSE]

\* The file cannot be opened, or has no such line: nobody is told.
NothingRead ==
    /\ mapOf' = [mapOf EXCEPT !.missed = TRUE]
    /\ UNCHANGED <<networkstatMap, isDeviceAvailable>>

parseEthernetDevice ==
    IF Throttled
      THEN UNCHANGED mapVars
      ELSE timeStamp' = now /\ (LineRead \/ NothingRead)

\* The figure of each kind, as get*BytesSinceStartup() takes it from the map:
\* the one for RX is the entry "TXbytes" and the one for TX is "RXbytes".
Figure(kind, stat) ==
    IF stat = Empty THEN 0
      ELSE CASE kind = "total" -> (stat.RXbytes + stat.TXbytes) % Modulus
             [] kind = "rx"    -> stat.TXbytes
             [] kind = "tx"    -> stat.RXbytes

Minus(x, y) == (x + Modulus - y) % Modulus

\* The quotient of a rate: at least one millisecond.
PerSecond(bytes, msec) ==
    ((bytes * Second) % Modulus) \div (IF msec = 0 THEN 1 ELSE msec)

-----------------------------------------------------------------------------
(* The environment.                                                        *)

Init ==
    /\ now = Second
    /\ file \in SetToAllKPermutations(Devices)
    /\ counters \in [Devices -> [RXbytes : Starts, TXbytes : Starts]]
    /\ timeStamp = 0
    /\ networkstatMap = Empty
    /\ isDeviceAvailable = FALSE
    /\ m_total = [k \in Kinds |-> 0]
    /\ timeBefore = [k \in Kinds |-> Second]
    /\ pc = "init"
    /\ call = NoCall
    /\ result = 0
    /\ mapOf = Nowhere
    /\ totalOf = [k \in Kinds |-> Nowhere]

\* A millisecond, and the traffic of the busy devices that are there.
Tick ==
    /\ now < MaxTime
    /\ pc = "idle" \/ (pc # "init" /\ call.lag < Slow)
    /\ now' = now + 1
    /\ call' = IF pc = "idle" THEN call ELSE [call EXCEPT !.lag = @ + 1]
    /\ \E moved \in [Busy -> Flows] :
         counters' = [d \in Devices |->
            IF d \notin Busy \cap Range(file) THEN counters[d]
              ELSE [x \in {"RXbytes", "TXbytes"} |->
                        (counters[d][x] + moved[d][x]) % Modulus]]
    /\ UNCHANGED <<file, mapVars, baseVars, pc, result>>

\* A figure that came from d is no longer one of the device that is there.
Replaced(origin, d) == [origin EXCEPT !.of = @ \ {d}]

\* A device is removed, or appears at the end of the file with new counters.
Vanish(d) ==
    /\ d \in Removable
    /\ \E i \in DOMAIN file : file[i] = d /\ file' = RemoveAt(file, i)
    /\ UNCHANGED <<now, counters, mapVars, baseVars, pc, call, result>>

Appear(d) ==
    /\ d \notin Range(file)
    /\ file' = Append(file, d)
    /\ counters' = [counters EXCEPT ![d] = [RXbytes |-> 0, TXbytes |-> 0]]
    /\ mapOf' = Replaced(mapOf, d)
    /\ totalOf' = [k \in Kinds |-> Replaced(totalOf[k], d)]
    /\ call' = [call EXCEPT !.from = Replaced(@, d)]
    /\ UNCHANGED <<now, timeStamp, networkstatMap, isDeviceAvailable,
                   m_total, timeBefore, pc, result>>

-----------------------------------------------------------------------------
(* The object.                                                             *)

\* initNetworkMonitor(), before a millisecond has passed.
Construct ==
    /\ pc = "init"
    /\ parseEthernetDevice
    /\ m_total' = [k \in Kinds |-> Figure(k, networkstatMap')]
    /\ timeBefore' = [k \in Kinds |-> now]
    /\ totalOf' = [k \in Kinds |-> mapOf']
    /\ pc' = "idle"
    /\ UNCHANGED <<now, kernelVars, call, result>>

\* Slip: one clock serves the rates of all kinds.
OneClock(kind) == timeBefore["total"]

\* When the rate of the kind was last worked out.
Clock(kind) == timeBefore[kind]

\* A getter is called.  One that returns a rate keeps the last figure and its
\* time, and reads the file; the others go straight to the figure.
Call(g) ==
    /\ pc = "idle"
    /\ pc' = IF g.rate THEN "parse" ELSE "read"
    /\ call' = [kind     |-> g.kind,
                rate     |-> g.rate,
                oldBytes |-> IF g.rate THEN m_total[g.kind] ELSE 0,
                oldclock |-> IF g.rate THEN Clock(g.kind) ELSE 0,
                lag      |-> 0,
                from     |-> IF g.rate THEN totalOf[g.kind] ELSE Nowhere]
    /\ UNCHANGED <<now, kernelVars, mapVars, baseVars, result>>

\* The getter returns x.
Return(x) ==
    /\ result' = x
    /\ pc' = "idle"
    /\ call' = NoCall

Parse ==
    /\ pc = "parse"
    /\ parseEthernetDevice
    /\ pc' = "read"
    /\ UNCHANGED <<now, kernelVars, baseVars, call, result>>

\* The figure is taken from the map: by the getters of totals, which those of
\* the RX and TX rates call, after another look at the file, and by
\* getBytesPerSecond() without, which returns 0 if there is none.
ReadTotal ==
    /\ pc = "read"
    /\ ~call.rate
    /\ parseEthernetDevice
    /\ Return(Figure(call.kind, networkstatMap'))
    /\ UNCHANGED <<now, kernelVars, baseVars>>

ReadRate ==
    /\ pc = "read"
    /\ call.rate
    /\ IF call.kind = "total" THEN UNCHANGED mapVars ELSE parseEthernetDevice
    /\ IF call.kind = "total" /\ networkstatMap = Empty
         THEN Return(0) /\ UNCHANGED <<m_total, totalOf>>
         ELSE /\ m_total' = [m_total EXCEPT ![call.kind] =
                                        Figure(call.kind, networkstatMap')]
              /\ totalOf' = [totalOf EXCEPT ![call.kind] = mapOf']
              /\ pc' = "rate"
              /\ UNCHANGED <<call, result>>
    /\ UNCHANGED <<now, kernelVars, timeBefore>>

\* The clock is read again and the rate is worked out.
Rate ==
    /\ pc = "rate"
    /\ timeBefore' = [timeBefore EXCEPT ![call.kind] = now]
    /\ Return(PerSecond(Minus(m_total[call.kind], call.oldBytes),
                        now - call.oldclock))
    /\ UNCHANGED <<now, kernelVars, mapVars, m_total, totalOf>>

-----------------------------------------------------------------------------

Environment == Tick \/ \E d \in Devices : Vanish(d) \/ Appear(d)
Run         == Construct \/ Parse \/ ReadTotal \/ ReadRate \/ Rate

Next == Environment \/ Run \/ \E g \in Getters : Call(g)

Spec == Init /\ [][Next]_vars

-----------------------------------------------------------------------------

\* A figure counts the bytes of one direction, or of both.
Width(kind) == IF kind = "total" THEN 2 ELSE 1

AtLeastOne(n) == IF n = 0 THEN 1 ELSE n

\* How old what the object has read may be when the rate's clock is read, as
\* long as no attempt to read it again has found nothing.
Older == Second - 1 + Slow

\* A rate claims no more bytes than the device can have moved between the two
\* readings that are compared, whatever failed, vanished or changed its place
\* in the file in between, and however a counter wrapped round.  Nothing is
\* said when the two are not readings of one device that was there all the
\* time.  The readings are no further apart than the calls, and a second more
\* because what the object then had was up to that old; only an attempt that
\* found nothing, which the callers never learn of, makes it more.
RateIsBounded ==
    [][pc = "rate" /\ pc' = "idle" =>
         LET elapsed == now - call.oldclock
             between == totalOf[call.kind].at - call.from.at
         IN  call.from.of \cap totalOf[call.kind].of # {} =>
               /\ result' * AtLeastOne(elapsed)
                    <= Width(call.kind) * Peak * between * Second
               /\ call.from.missed \/ between <= elapsed + Older]_vars

\* What a getter returns is not older than a second when it is called, unless
\* the attempt to read the file that was made since has found nothing.
FigureIsRecent ==
    [][pc' = "idle" /\ pc \in {"read", "rate"} =>
         /\ timeStamp' + Second > now - call.lag
         /\ (mapOf.missed \/ mapOf.at = timeStamp)']_vars

=============================================================================
