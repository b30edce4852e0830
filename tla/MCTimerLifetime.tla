-------------------------- MODULE MCTimerLifetime ---------------------------
(***************************************************************************)
(* Instances of TimerLifetime for TLC: main() with two slots, one thread   *)
(* that attaches a slot of its own and one that calls stop().              *)
(***************************************************************************)
EXTENDS TimerLifetime

CONSTANTS cpuSlot, memorySlot

MainSlotsDef == <<cpuSlot, memorySlot>>

=============================================================================
