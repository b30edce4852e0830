----------------------------- MODULE MCCpuLoad ------------------------------
(***************************************************************************)
(* An instance of CpuLoad for TLC: three cores, of which the middle one or *)
(* the last or both may be offline when the lines are counted and later.   *)
(***************************************************************************)
EXTENDS CpuLoad

=============================================================================
