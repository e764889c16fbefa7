----------------------------- MODULE PolicyGate ------------------------------
(***************************************************************************)
(* The two threads of the policy addon that decide what the workload may   *)
(* reach: the DNS interceptor thread (proxy/dns_interceptor.py) and the    *)
(* request hook in mitmproxy's event loop (proxy/policy.py).  They share   *)
(* the binding cache and the audit log, each behind a lock; what is done   *)
(* under one lock, with the thread's own work around it, is one action.    *)
(***************************************************************************)
EXTENDS Policy

CONSTANTS
  Ips,         \* addresses a name may have
  Unresolved,  \* the destination of a connection that is no address
  Files        \* the policy files of this instance

ASSUME GateAssumption == Unresolved \notin Ips /\ Files \subseteq Seq(Entries)

VARIABLES
  file,      \* the policy file the addon was started with
  writable,  \* the audit log can be written
  bound,     \* BindingCache: pairs of a host and an address
  learned,   \* history: what the workload was told in answers to A queries
  log,       \* audit log: the entries of the query and of the request at hand
  resolver,  \* the interceptor thread: "alive" or "dead"
  query,     \* the DNS query at hand
  request    \* the HTTP request at hand

vars == <<file, writable, bound, learned, log, resolver, query, request>>

Types == {"A", "AAAA", "PTR", "other"}
Decisions == {"DNS-ALLOW", "DNS-DENY", "ALLOW", "DENY", "DENY ip-not-bound-to-host"}

NoQuery == [pc |-> "idle", name |-> "", type |-> "A", given |-> {}, todo |-> {}, rcode |-> ""]
NoRequest == [pc |-> "idle", host |-> "", path |-> "", method |-> "", dest |-> Unresolved,
              outcome |-> ""]

LogType == [{"dns", "http"} -> Seq(Decisions)]

QueryType ==
  [pc : {"idle", "sent", "upstream", "record", "send", "answered"}, name : Hosts \cup {""},
   type : Types, given : SUBSET Ips, todo : SUBSET Ips,
   rcode : {"", "ok", "nodata", "nxdomain", "servfail"}]

RequestType ==
  [pc : {"idle", "hook", "unbound", "policy", "done"}, host : Hosts \cup {""},
   path : Paths \cup {""}, method : Methods \cup {""}, dest : Ips \cup {Unresolved},
   outcome : {"", "forwarded", "refused"}]

\* the shape of every value, and that a query under way has a name
GateTypeOK ==
  /\ bound \subseteq Hosts \X Ips
  /\ learned \subseteq Hosts \X Ips
  /\ log \in LogType
  /\ resolver \in {"alive", "dead"}
  /\ query \in QueryType
  /\ query.pc # "idle" => query.name \in Hosts
  /\ request \in RequestType

\* the addon is running: its policy loaded without an error
Init ==
  /\ file \in {f \in Files : ~Rejected(f)}
  /\ writable \in BOOLEAN
  /\ bound = {}
  /\ learned = {}
  /\ log = [who \in {"dns", "http"} |-> <<>>]
  /\ resolver = "alive"
  /\ query = NoQuery
  /\ request = NoRequest

\* _audit, in both classes: a failure to write is swallowed
Audit(who, decision) ==
  log' = IF writable THEN [log EXCEPT ![who] = Append(@, decision)] ELSE log

-----------------------------------------------------------------------------
(***************************************************************************)
(* The DNS interceptor: _serve and _handle                                 *)
(***************************************************************************)
\* a process of the workload asks; the answer to its last query is over
SendQuery(name, type) ==
  /\ query.pc \in {"idle", "answered"}
  /\ query' = [NoQuery EXCEPT !.pc = "sent", !.name = name, !.type = type]
  /\ log' = [log EXCEPT !["dns"] = <<>>]
  /\ UNCHANGED <<file, writable, bound, learned, resolver, request>>

\* AAAA: no data; PTR, or a host that is not in the file: no such name
RefuseQuery ==
  /\ query.pc = "sent"
  /\ \/ /\ query.type = "AAAA"
        /\ query' = [query EXCEPT !.pc = "send", !.rcode = "nodata"]
     \/ /\ query.type = "PTR" \/ (query.type # "AAAA" /\ query.name \notin AllowedHosts(file))
        /\ query' = [query EXCEPT !.pc = "send", !.rcode = "nxdomain"]
  /\ Audit("dns", "DNS-DENY")
  /\ UNCHANGED <<file, writable, bound, learned, resolver, request>>

ForwardQuery ==
  /\ query.pc = "sent"
  /\ query.type \notin {"AAAA", "PTR"} /\ query.name \in AllowedHosts(file)
  /\ query' = [query EXCEPT !.pc = "upstream"]
  /\ UNCHANGED <<file, writable, bound, learned, log, resolver, request>>

\* Mutant: only one address of the answer is recorded.
UpstreamAnswersFirst(ips) ==
  /\ query.pc = "upstream"
  /\ LET found == IF query.type = "A" THEN ips ELSE {}
     IN  query' = [query EXCEPT !.pc = "record", !.rcode = "ok", !.given = found,
                     !.todo = IF found = {} THEN {} ELSE {CHOOSE ip \in found : TRUE}]
  /\ UNCHANGED <<file, writable, bound, learned, log, resolver, request>>

\* Mutant: the type of the reply's records is not looked at, and a CNAME's target
\* is recorded like an address.
UpstreamAnswersAnyRecord(ips) ==
  /\ query.pc = "upstream"
  /\ LET found == IF query.type = "A" THEN ips \cup {Unresolved} ELSE {}
     IN  query' = [query EXCEPT !.pc = "record", !.rcode = "ok", !.given = found, !.todo = found]
  /\ UNCHANGED <<file, writable, bound, learned, log, resolver, request>>

\* the reply of the upstream server, "ok" whatever its own code, and the addresses
\* in it, which are looked at and recorded for A queries only
UpstreamAnswers(ips) ==
  /\ query.pc = "upstream"
  /\ LET found == IF query.type = "A" THEN ips ELSE {}
     IN  query' = [query EXCEPT !.pc = "record", !.rcode = "ok", !.given = found, !.todo = found]
  /\ UNCHANGED <<file, writable, bound, learned, log, resolver, request>>

\* Mutant: the upstream socket has no timeout.
UpstreamNeverFails == FALSE

\* no reply within the timeout of the socket, or one that cannot be parsed
UpstreamFails ==
  /\ query.pc = "upstream"
  /\ query' = [query EXCEPT !.pc = "send", !.rcode = "servfail"]
  /\ Audit("dns", "DNS-DENY")
  /\ UNCHANGED <<file, writable, bound, learned, resolver, request>>

\* BindingCache.record, for one address of the answer
RecordOne ==
  /\ query.pc = "record"
  /\ \E ip \in query.todo :
       /\ bound' = bound \cup {<<query.name, ip>>}
       /\ query' = [query EXCEPT !.todo = @ \ {ip}]
  /\ UNCHANGED <<file, writable, learned, log, resolver, request>>

Recorded ==
  /\ query.pc = "record" /\ query.todo = {}
  /\ query' = [query EXCEPT !.pc = "send"]
  /\ Audit("dns", "DNS-ALLOW")
  /\ UNCHANGED <<file, writable, bound, learned, resolver, request>>

\* sendto: from now on the workload knows the addresses
SendAnswer ==
  /\ query.pc = "send"
  /\ query' = [query EXCEPT !.pc = "answered", !.given = {}]
  /\ learned' = learned \cup ({query.name} \X query.given)
  /\ UNCHANGED <<file, writable, bound, log, resolver, request>>

\* a datagram that is no DNS message, or a send that fails: the loop is left
ServeBreaks ==
  /\ query.pc \in {"sent", "send"}
  /\ resolver' = "dead"
  /\ UNCHANGED <<file, writable, bound, learned, log, query, request>>

Serve ==
  /\ resolver = "alive"
  /\ \/ RefuseQuery \/ ForwardQuery \/ UpstreamFails \/ RecordOne \/ Recorded \/ SendAnswer

-----------------------------------------------------------------------------
(***************************************************************************)
(* The request hook                                                        *)
(***************************************************************************)
\* a request whose headers are there, on a connection the workload opened to dest
NewRequest(host, path, method, dest) ==
  /\ request.pc \in {"idle", "done"}
  /\ request' = [pc |-> "hook", host |-> host, path |-> path, method |-> method,
                 dest |-> dest, outcome |-> ""]
  /\ log' = [log EXCEPT !["http"] = <<>>]
  /\ UNCHANGED <<file, writable, bound, learned, resolver, query>>

\* Mutant: the address may be bound to any host.
CheckBindingAnyHost ==
  /\ request.pc = "hook"
  /\ request' = [request EXCEPT !.pc =
                   IF request.dest = Unresolved \/ \E host \in Hosts : <<host, request.dest>> \in bound
                     THEN "policy" ELSE "unbound"]
  /\ UNCHANGED <<file, writable, bound, learned, log, resolver, query>>

\* _check_binding; a destination that is no address needs no binding
CheckBinding ==
  /\ request.pc = "hook"
  /\ request' = [request EXCEPT !.pc =
                   IF request.dest = Unresolved \/ <<request.host, request.dest>> \in bound
                     THEN "policy" ELSE "unbound"]
  /\ UNCHANGED <<file, writable, bound, learned, log, resolver, query>>

\* Mutant: no return after the refusal.
RefuseUnboundGoesOn ==
  /\ request.pc = "unbound"
  /\ request' = [request EXCEPT !.pc = "policy", !.outcome = "refused"]
  /\ Audit("http", "DENY ip-not-bound-to-host")
  /\ UNCHANGED <<file, writable, bound, learned, resolver, query>>

RefuseUnbound ==
  /\ request.pc = "unbound"
  /\ request' = [request EXCEPT !.pc = "done", !.outcome = "refused"]
  /\ Audit("http", "DENY ip-not-bound-to-host")
  /\ UNCHANGED <<file, writable, bound, learned, resolver, query>>

\* _check_policy; only ALLOW leaves the request without a 403 response
Decide ==
  /\ request.pc = "policy"
  /\ LET decision == CheckPolicy(NetworkPolicies(file), request.host, request.path, request.method)
     IN  /\ request' = [request EXCEPT !.pc = "done",
                          !.outcome = IF decision = "ALLOW" THEN "forwarded" ELSE "refused"]
         /\ Audit("http", IF decision = "ALLOW" THEN "ALLOW" ELSE "DENY")
  /\ UNCHANGED <<file, writable, bound, learned, resolver, query>>

-----------------------------------------------------------------------------
Next ==
  \/ \E name \in Hosts, type \in Types : SendQuery(name, type)
  \/ \E ips \in SUBSET Ips : resolver = "alive" /\ UpstreamAnswers(ips)
  \/ Serve
  \/ resolver = "alive" /\ ServeBreaks
  \/ \E host \in Hosts, path \in Paths, method \in Methods, dest \in Ips \cup {Unresolved} :
       NewRequest(host, path, method, dest)
  \/ CheckBinding \/ RefuseUnbound \/ Decide

Spec == Init /\ [][Next]_vars

\* the interceptor thread runs while it lives; the upstream server need not answer
FairSpec == Spec /\ WF_vars(Serve)
-----------------------------------------------------------------------------
(***************************************************************************)
(* Properties                                                              *)
(***************************************************************************)
\* "Cache A record IPs before returning response to workload (race-free)"
\* (dns_interceptor.py 91): a request to an address that the workload was told
\* for that host is never refused for want of a binding, however the DNS thread
\* and the hook interleave.
LearnedAddressAccepted ==
  [][request.pc = "hook" /\ request'.pc = "unbound"
       => <<request.host, request.dest>> \notin learned]_vars

\* Each decision leaves exactly one entry in the audit log, of the decision that
\* was taken, before it takes effect (policy.py 161-211, dns_interceptor.py 71-103).
AuditedOnce ==
  writable =>
    /\ query.pc \in {"send", "answered"} =>
         log["dns"] = <<IF query.rcode = "ok" THEN "DNS-ALLOW" ELSE "DNS-DENY">>
    /\ request.pc = "done" =>
         /\ Len(log["http"]) = 1
         /\ log["http"][1] = "ALLOW" <=> request.outcome = "forwarded"

\* A request is forwarded only if the last rule of its host that matches, in the
\* order of the file, allows it; and one that the rules allow is refused only for
\* want of a binding (policy.py 24-33, 238-259).
DecidedAsDocumented ==
  request.pc = "done" =>
    LET documented == Documented(file, request.host, request.path, request.method)
    IN  /\ request.outcome = "forwarded" => documented = "ALLOW"
        /\ request.outcome = "refused" /\ writable /\ log["http"] = <<"DENY">>
             => documented = "DENY"

\* The two halves of the addon agree: a name is refused only if no request to it
\* could be allowed (policy.py 118-147, dns_interceptor.py 84-86).
RefusedNamesAreUseless ==
  query.rcode = "nxdomain" /\ query.type # "PTR" =>
    \A path \in Paths, method \in Methods :
      Documented(file, query.name, path, method) = "DENY"

\* A query is answered, if only with a failure, unless the thread has died, which
\* the watchdog reports (dns_interceptor.py 58-70, 105-115).
QueriesAnswered ==
  query.pc # "idle" ~> (query.pc = "answered" \/ resolver = "dead")

\* The request as the monitor sees it: one that failed the check of its binding
\* has been refused, although its refusal is yet to be written.
Asked ==
  [stage  |-> CASE request.pc = "idle" -> "idle"
                [] request.pc \in {"hook", "policy"} -> "asked"
                [] request.pc = "unbound" -> "refused"
                [] request.pc = "done" -> request.outcome,
   host   |-> request.host, path |-> request.path, method |-> request.method,
   dest   |-> request.dest]

Monitored == INSTANCE Monitor WITH told <- learned, request <- Asked

\* The hook and the DNS thread together are a monitor that decides each request in
\* one instant (policy.py 186-259, dns_interceptor.py 72-100): no request goes to
\* an address that was not found for its host, or against the rules; none that is
\* permitted when it is decided is refused.
ImplementsMonitor == Monitored!Spec
=============================================================================
