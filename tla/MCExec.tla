------------------------------- MODULE MCExec -------------------------------
(* Instance of Exec for TLC: three chunks on each stream and two pieces of    *)
(* content, so that a client can end after some and before all of them.     *)
EXTENDS Exec
=============================================================================
