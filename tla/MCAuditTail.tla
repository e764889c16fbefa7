---------------------------- MODULE MCAuditTail -----------------------------
(* Instance of AuditTail for TLC: every instance with up to MaxWrites       *)
(* pieces is part of the one checked, since the proxy may stop writing.     *)
EXTENDS AuditTail
=============================================================================
