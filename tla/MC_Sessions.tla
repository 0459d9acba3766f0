---------------------------- MODULE MC_Sessions ------------------------------
(* Small instances of Sessions: the client that tries again, and another one. *)
EXTENDS Sessions
==============================================================================
