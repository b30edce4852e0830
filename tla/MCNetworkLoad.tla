--------------------------- MODULE MCNetworkLoad ----------------------------
(***************************************************************************)
(* Instances of NetworkLoad for TLC.  A second is two ticks, so that a     *)
(* call can come within it and after it, and the counters start where they *)
(* wrap round while the run lasts.                                         *)
(***************************************************************************)
EXTENDS NetworkLoad

CONSTANTS eth0, veth0

\* The device moves all it can: less is further from any bound.
FlowsDef == {[RXbytes |-> Peak, TXbytes |-> Peak]}

\* All but what was returned last, which no step and no property looks at.
ButResult == <<now, kernelVars, mapVars, baseVars, pc, call>>

=============================================================================
