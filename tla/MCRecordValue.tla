--------------------------- MODULE MCRecordValue ----------------------------
(***************************************************************************)
(* Instances of RecordValue for TLC: two windows' worth of values, so that *)
(* every cell comes to be overwritten under the reader more than once.     *)
(***************************************************************************)
EXTENDS RecordValue
=============================================================================
