------------------------------ MODULE Monitor --------------------------------
(***************************************************************************)
(* What the policy addon promises, without threads, the audit log or the   *)
(* steps of a look-up: the workload is told addresses that are bound, only *)
(* names of the policy file are bound to addresses, and each request is    *)
(* answered in one instant, by the last rule that applies to it and the    *)
(* bindings of that instant (docs/egress-control.md 83-90, 110-123,        *)
(* 132-136).                                                               *)
(***************************************************************************)
EXTENDS Policy

CONSTANTS
  Ips,
  Unresolved,   \* the destination of a connection that is no address
  Files

VARIABLES
  file,
  bound,        \* pairs of a name and an address that was found for it
  told,         \* those the workload knows
  request       \* the request at hand

vars == <<file, bound, told, request>>

Nothing == [stage |-> "idle", host |-> "", path |-> "", method |-> "", dest |-> Unresolved]

Init ==
  /\ file \in {f \in Files : ~Rejected(f)}
  /\ bound = {}
  /\ told = {}
  /\ request = Nothing

Bind(name, ip) ==
  /\ name \in AllowedHosts(file)
  /\ bound' = bound \cup {<<name, ip>>}
  /\ UNCHANGED <<file, told, request>>

Tell(name, ips) ==
  /\ {name} \X ips \subseteq bound
  /\ told' = told \cup ({name} \X ips)
  /\ UNCHANGED <<file, bound, request>>

Ask(host, path, method, dest) ==
  /\ request.stage # "asked"
  /\ request' = [stage |-> "asked", host |-> host, path |-> path, method |-> method, dest |-> dest]
  /\ UNCHANGED <<file, bound, told>>

\* the rules allow the request, and its destination is one of the host's
Permitted ==
  /\ Documented(file, request.host, request.path, request.method) = "ALLOW"
  /\ request.dest = Unresolved \/ <<request.host, request.dest>> \in bound

Answer ==
  /\ request.stage = "asked"
  /\ request' = [request EXCEPT !.stage = IF Permitted THEN "forwarded" ELSE "refused"]
  /\ UNCHANGED <<file, bound, told>>

Next ==
  \/ \E name \in Hosts, ip \in Ips : Bind(name, ip)
  \/ \E name \in Hosts, ips \in SUBSET Ips : Tell(name, ips)
  \/ \E host \in Hosts, path \in Paths, method \in Methods, dest \in Ips \cup {Unresolved} :
       Ask(host, path, method, dest)
  \/ Answer

Spec == Init /\ [][Next]_vars
=============================================================================
