---------------------------- MODULE MCSysMonitor ----------------------------
(***************************************************************************)
(* Instances of SysMonitor for TLC.  Three sockets are enough for one that *)
(* the worker is at, one in front of it and one behind it to come and go.  *)
(***************************************************************************)
EXTENDS SysMonitor

CONSTANTS a, b, c

=============================================================================
