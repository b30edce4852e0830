--------------------------- MODULE MonitorSample ----------------------------
(***************************************************************************)
(* linuxsysmonitor::getlinuxSysMonitoringData(), its network and its       *)
(* memory part: the worker asks the object of a device for six figures and *)
(* the memoryLoad for three, one after the other, as one sample for the    *)
(* websockets, and sleeps until the next.                                  *)
(***************************************************************************)
EXTENDS NetworkLoad

CONSTANTS
    Interval,       \* the ticks between two samples
    Haste,          \* the most ticks from the first figure to the last
    Memories,       \* what /proc/meminfo may show
    Keep            \* the ticks for which the memoryLoad keeps a reading

VARIABLES
    obj,            \* the figures of the sample, as far as they are there
    since,          \* when it was begun, or when the worker lay down to sleep
    memory, readableSince,                      \* the kernel's, and
    memStamp, kept, readAt,                     \* the variables of the
    memPc, getter, used, figure, calledAt       \* memoryLoad

Mem  == INSTANCE MemoryLoad WITH timeStamp <- memStamp, pc <- memPc
Text == INSTANCE ByteFigures

ASSUME MonitorSampleAssumption ==
    {Interval, Haste} \subseteq Nat /\ Mem!ConstantsFit

workerVars == <<obj, since>>
memVars    == <<memory, readableSince, memStamp, kept, readAt,
                memPc, getter, used, figure, calledAt>>
sampleVars == <<vars, workerVars, memVars>>

\* The getters in the order of the calls, those of the memoryLoad last.
NetScript == << [kind |-> "total", rate |-> TRUE],    \* bytes_total_per_second
                [kind |-> "total", rate |-> FALSE],   \* bytes_total
                [kind |-> "rx",    rate |-> TRUE],    \* bytes_rx_second
                [kind |-> "rx",    rate |-> FALSE],   \* bytes_rx_total
                [kind |-> "tx",    rate |-> TRUE],    \* bytes_tx_second
                [kind |-> "rx",    rate |-> TRUE] >>  \* bits_rx_second
BitsPlace == 6
MemScript == << "percent", "used", "total" >>

Asked   == Len(obj)
NetPart == Asked < Len(NetScript)
Sampled == Asked = Len(NetScript) + Len(MemScript)
Resting == pc = "idle" /\ memPc = "idle"
Asleep  == obj = << >> /\ Resting

SampleInit == Init /\ Mem!Init /\ obj = << >> /\ since = now

\* The thread sleeps three seconds after the start, later for the interval.
SleepTime == IF since = Second THEN 3 * Second ELSE Interval

\* The next figure is asked for.
Ask ==
    IF NetPart
      THEN Call(NetScript[Asked + 1])
           /\ UNCHANGED memVars
      ELSE Mem!Call(MemScript[Asked - Len(NetScript) + 1])
           /\ UNCHANGED vars

\* The first figure of a sample is asked for.
Wake ==
    /\ Asleep
    /\ now >= since + SleepTime
    /\ Ask
    /\ since' = now
    /\ UNCHANGED obj

\* The next one.
Go ==
    /\ Resting
    /\ obj # << >> /\ ~Sampled
    /\ Ask
    /\ UNCHANGED workerVars

\* What is set in the sample: a total as it is, a rate as a text.
AsShown(x) ==
    IF ~NetScript[Asked + 1].rate    THEN x
    ELSE IF Asked + 1 = BitsPlace THEN Text!getBitsString(x, Modulus)
    ELSE Text!getBytesString(x)

\* A getter goes on, and what it returns is set in the sample.
NetFigures ==
    /\ Run
    /\ obj' = IF pc \in {"read", "rate"} /\ pc' = "idle"
                THEN Append(obj, AsShown(result')) ELSE obj
    /\ UNCHANGED <<since, memVars>>

MemFigures ==
    /\ Mem!Run
    /\ obj' = IF memPc' = "idle" THEN Append(obj, figure') ELSE obj
    /\ UNCHANGED <<since, vars>>

\* Notify() has sent the sample.
Sleep ==
    /\ Sampled
    /\ obj' = << >>
    /\ since' = now
    /\ UNCHANGED <<vars, memVars>>

\* Time passes, traffic flows, and the memory is used.
Wait ==
    /\ Environment
    /\ ~Asleep => now' <= since + Haste
    /\ UNCHANGED <<workerVars, memVars>>

Memory ==
    /\ Mem!Changes \/ Mem!Toggles
    /\ UNCHANGED <<workerVars, vars>>

SampleNext ==
    Wake \/ Go \/ NetFigures \/ MemFigures \/ Sleep \/ Wait \/ Memory

SampleSpec == SampleInit /\ [][SampleNext]_sampleVars

-----------------------------------------------------------------------------

\* All figures of a sample come from one reading of each file, and it was tried
\* to read the network's anew for it, if the samples are a second apart or more
\* and each is quicker than the 100 ms of the memory's: the totals of the two
\* directions add up to the total, the percentage is that of the two figures
\* shown beside it, and no more is used than there is.
SampleIsConsistent ==
    Sampled => /\ timeStamp >= since
               /\ obj[2] = (obj[4] + m_total["tx"]) % Modulus
               /\ obj[7] = [used |-> obj[8].used, total |-> obj[9].total]
               /\ obj[7].used \in 0..obj[7].total

\* The memory of a sample is not older than 100 ms once /proc/meminfo can be
\* opened for as long as that, whatever failed before.
MemoryRecovers == Mem!MemoryRecovers

\* readme.md: "Bytes/Bits per Second - per Network Device".  The bits received
\* per second are those of the bytes received per second in the same sample: the
\* text is "undef" for both or for none.
BitsAreBytes == Sampled => (obj[BitsPlace] = Text!Undef <=> obj[3] = Text!Undef)

=============================================================================
