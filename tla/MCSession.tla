----------------------------- MODULE MCSession ------------------------------
(* Instances of Session for TLC: two containers of each kind, so that a     *)
(* session can meet what an earlier one left, and two overlapping calls.    *)
EXTENDS Session, TLC

CONSTANTS w1, w2, p1, p2, c1, c2

MCSymmetry ==
  Permutations(Workloads) \cup Permutations(Proxies) \cup Permutations(Calls)
=============================================================================
