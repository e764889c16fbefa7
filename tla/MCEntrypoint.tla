---------------------------- MODULE MCEntrypoint -----------------------------
(* Instances of Entrypoint for TLC: a few attempts at the certificate (ten   *)
(* in the code), and the faults of the run.                                  *)
EXTENDS Entrypoint
=============================================================================
