---------------------------- MODULE MCSystemUtil ----------------------------
(***************************************************************************)
(* An instance of SystemUtil for TLC: four numbers for processes, as the   *)
(* application has three while it forks, and two pipes, so that one can be *)
(* lost and another used.                                                  *)
(***************************************************************************)
EXTENDS SystemUtil

=============================================================================
