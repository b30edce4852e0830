-------------------------- MODULE MCMonitorSample ---------------------------
(***************************************************************************)
(* Instances of MonitorSample for TLC: the time is enough for the first    *)
(* three seconds of sleep, two samples and the interval between them.  The *)
(* memory grows and shrinks, in use and in total.                          *)
(***************************************************************************)
EXTENDS MonitorSample

CONSTANTS eth0

\* The device rests or moves a byte each way.
FlowsDef == {[RXbytes |-> n, TXbytes |-> n] : n \in 0..1}

MemoriesDef == {[total |-> 4, available |-> 1], [total |-> 2, available |-> 2]}

=============================================================================
