----------------------------- MODULE MC_Daemon -------------------------------
(* Small instances of Daemon: the daemon's device and one or two others. *)
EXTENDS Daemon
==============================================================================
