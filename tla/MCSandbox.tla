----------------------------- MODULE MCSandbox ------------------------------
(* One session, one workload, one proxy and two overlapping tool calls.      *)
EXTENDS Sandbox

CONSTANTS w1, p1, c1, c2
=============================================================================
