-------------------------- MODULE PolicyGateProofs ---------------------------
(***************************************************************************)
(* The binding cache is ahead of what the workload knows.                  *)
(***************************************************************************)
EXTENDS PolicyGate, PolicyProofs, TLAPS

\* What makes LearnedAddressAccepted inductive: every address the workload was
\* told is bound, and so is every address of an answer that is about to be sent;
\* while an answer is recorded, those not yet bound are still to do.
Ahead ==
  /\ learned \subseteq bound
  /\ \A ip \in query.given \ query.todo : <<query.name, ip>> \in bound
  /\ query.pc # "record" => \A ip : ip \notin query.todo

LEMMA AheadInitially == Init => Ahead
<1>1. Init => bound = {} /\ learned = {} /\ query = NoQuery
  BY Zenon DEF Init
<1>2. NoQuery.given = {} /\ NoQuery.todo = {}
  BY DEF NoQuery
<1>3. QED
  BY <1>1, <1>2 DEF Ahead

\* Only the recording of an answer changes the cache, and it adds to it.
LEMMA AheadStep == Ahead /\ [Next]_vars => Ahead'
<1> SUFFICES ASSUME Ahead, [Next]_vars PROVE Ahead'
  OBVIOUS
<1> USE DEF Ahead
<1>1. ASSUME NEW name \in Hosts, NEW type \in Types, SendQuery(name, type) PROVE Ahead'
  BY <1>1 DEF SendQuery, NoQuery
<1>2. ASSUME NEW ips \in SUBSET Ips, UpstreamAnswers(ips) PROVE Ahead'
  BY <1>2 DEF UpstreamAnswers
<1>3. CASE RefuseQuery
  <2>1. query.pc = "sent" /\ UNCHANGED <<bound, learned>>
    BY <1>3 DEF RefuseQuery
  <2>2. \E rcode : query' = [query EXCEPT !.pc = "send", !.rcode = rcode]
    BY <1>3, Zenon DEF RefuseQuery
  <2>3. query'.name = query.name /\ query'.given = query.given /\ query'.todo = query.todo
    BY <2>2
  <2>4. QED
    BY <2>1, <2>3
<1>4. CASE ForwardQuery
  BY <1>4 DEF ForwardQuery
<1>5. CASE UpstreamFails
  BY <1>5 DEF UpstreamFails
<1>6. CASE RecordOne
  BY <1>6 DEF RecordOne
<1>7. CASE Recorded
  BY <1>7 DEF Recorded
<1>8. CASE SendAnswer
  BY <1>8 DEF SendAnswer
<1>9. CASE UNCHANGED <<bound, learned, query>>
  BY <1>9
<1>10. QED
  BY <1>1, <1>2, <1>3, <1>4, <1>5, <1>6, <1>7, <1>8, <1>9
  DEF Next, Serve, ServeBreaks, NewRequest, CheckBinding, RefuseUnbound, Decide, vars

LEMMA AheadHolds == Spec => []Ahead
BY AheadInitially, AheadStep, PTL DEF Spec

\* "Cache A record IPs before returning response to workload (race-free)"
\* (dns_interceptor.py 91), for any number of hosts and addresses and any file.
THEOREM LearnedAddressAcceptedHolds == Spec => LearnedAddressAccepted
<1>1. Ahead /\ [Next]_vars =>
        [request.pc = "hook" /\ request'.pc = "unbound"
           => <<request.host, request.dest>> \notin learned]_vars
  <2> SUFFICES ASSUME Ahead, [Next]_vars, request.pc = "hook", request'.pc = "unbound"
               PROVE <<request.host, request.dest>> \notin learned
    OBVIOUS
  <2>1. CASE CheckBinding
    BY <2>1 DEF CheckBinding, Ahead
  <2>2. CASE UNCHANGED request
    BY <2>2
  <2>3. ASSUME NEW host \in Hosts, NEW path \in Paths, NEW method \in Methods,
               NEW dest \in Ips \cup {Unresolved}, NewRequest(host, path, method, dest)
        PROVE FALSE
    BY <2>3 DEF NewRequest
  <2>4. CASE RefuseUnbound \/ Decide
    BY <2>4 DEF RefuseUnbound, Decide
  <2>5. QED
    BY <2>1, <2>2, <2>3, <2>4
    DEF Next, Serve, SendQuery, UpstreamAnswers, RefuseQuery, ForwardQuery, UpstreamFails,
        RecordOne, Recorded, SendAnswer, ServeBreaks, vars
<1>2. QED
  BY AheadHolds, <1>1, PTL DEF Spec, LearnedAddressAccepted

-----------------------------------------------------------------------------
\* What each action does to the log, the query and the request, without the
\* operators that read the policy.
LEMMA GateStep ==
  ASSUME [Next]_vars
  PROVE  \/ \E name \in Hosts, type \in Types : SendQuery(name, type)
         \/ \E ips \in SUBSET Ips : UpstreamAnswers(ips)
         \/ RefuseQuery \/ ForwardQuery \/ UpstreamFails \/ RecordOne \/ Recorded \/ SendAnswer
         \/ ServeBreaks
         \/ \E host \in Hosts, path \in Paths, method \in Methods, dest \in Ips \cup {Unresolved} :
              NewRequest(host, path, method, dest)
         \/ CheckBinding \/ RefuseUnbound \/ Decide
         \/ UNCHANGED vars
  BY Zenon DEF Next, Serve

\* One entry more, or none when the file cannot be written.
LEMMA AuditAppends ==
  ASSUME log \in LogType, NEW who \in {"dns", "http"}, NEW decision \in Decisions,
         Audit(who, decision)
  PROVE  /\ log' \in LogType
         /\ \A other \in {"dns", "http"} \ {who} : log'[other] = log[other]
         /\ writable /\ log[who] = <<>> => log'[who] = <<decision>>
<1> USE DEF LogType
<1>1. log[who] \in Seq(Decisions)
  OBVIOUS
<1>2. CASE writable
  <2>1. log' = [log EXCEPT ![who] = Append(log[who], decision)]
    BY <1>2 DEF Audit
  <2>2. Append(log[who], decision) \in Seq(Decisions)
    BY <1>1
  <2>3. log[who] = <<>> => Append(log[who], decision) = <<decision>>
    BY <1>1
  <2>4. QED
    BY <2>1, <2>2, <2>3
<1>3. CASE ~writable
  BY <1>3 DEF Audit
<1>4. QED
  BY <1>2, <1>3

\* The shape of every value in every reachable state.
THEOREM GateTypeCorrect == Spec => []GateTypeOK
<1>1. Init => GateTypeOK
  <2> SUFFICES ASSUME Init PROVE GateTypeOK
    OBVIOUS
  <2>1. /\ bound = {} /\ learned = {} /\ resolver = "alive"
        /\ query = NoQuery /\ request = NoRequest /\ log = [who \in {"dns", "http"} |-> <<>>]
    BY Zenon DEF Init
  <2>2. NoQuery \in QueryType /\ NoQuery.pc = "idle"
    BY DEF NoQuery, QueryType, Types
  <2>3. NoRequest \in RequestType
    BY DEF NoRequest, RequestType
  <2>4. log \in LogType
    BY <2>1 DEF LogType
  <2>5. QED
    BY <2>1, <2>2, <2>3, <2>4 DEF GateTypeOK
<1>2. GateTypeOK /\ [Next]_vars => GateTypeOK'
  <2> SUFFICES ASSUME GateTypeOK, [Next]_vars PROVE GateTypeOK'
    OBVIOUS
  <2> USE DEF GateTypeOK
  <2>1. ASSUME NEW name \in Hosts, NEW type \in Types, SendQuery(name, type) PROVE GateTypeOK'
    <3>1. query' \in QueryType /\ query'.name \in Hosts
      BY <2>1 DEF SendQuery, NoQuery, QueryType, Types
    <3>2. log' \in LogType
      BY <2>1 DEF SendQuery, LogType
    <3>3. QED
      BY <2>1, <3>1, <3>2 DEF SendQuery
  <2>2. ASSUME NEW ips \in SUBSET Ips, UpstreamAnswers(ips) PROVE GateTypeOK'
    <3>1. query' \in QueryType /\ query'.name = query.name
      BY <2>2 DEF UpstreamAnswers, QueryType
    <3>2. QED
      BY <2>2, <3>1 DEF UpstreamAnswers
  <2>3. CASE RefuseQuery
    <3>1. log' \in LogType
      BY <2>3, AuditAppends DEF RefuseQuery, Decisions
    <3>2. query' \in QueryType /\ query'.name = query.name
      BY <2>3 DEF RefuseQuery, QueryType
    <3>3. QED
      BY <2>3, <3>1, <3>2 DEF RefuseQuery, QueryType
  <2>4. CASE ForwardQuery
    <3>1. query' \in QueryType /\ query'.name = query.name
      BY <2>4 DEF ForwardQuery, QueryType
    <3>2. QED
      BY <2>4, <3>1 DEF ForwardQuery
  <2>5. CASE UpstreamFails
    <3>1. log' \in LogType
      BY <2>5, AuditAppends DEF UpstreamFails, Decisions
    <3>2. query' \in QueryType /\ query'.name = query.name
      BY <2>5 DEF UpstreamFails, QueryType
    <3>3. QED
      BY <2>5, <3>1, <3>2 DEF UpstreamFails, QueryType
  <2>6. CASE RecordOne
    <3>1. PICK ip \in query.todo : /\ bound' = bound \cup {<<query.name, ip>>}
                                  /\ query' = [query EXCEPT !.todo = @ \ {ip}]
      BY <2>6 DEF RecordOne
    <3>2. ip \in Ips /\ query.name \in Hosts
      BY <2>6 DEF RecordOne, QueryType
    <3>3. query' \in QueryType /\ query'.name = query.name
      BY <3>1 DEF QueryType
    <3>4. bound' \subseteq Hosts \X Ips
      BY <3>1, <3>2
    <3>5. QED
      BY <2>6, <3>2, <3>3, <3>4 DEF RecordOne
  <2>7. CASE Recorded
    <3>1. log' \in LogType
      BY <2>7, AuditAppends DEF Recorded, Decisions
    <3>2. query' \in QueryType /\ query'.name = query.name
      BY <2>7 DEF Recorded, QueryType
    <3>3. QED
      BY <2>7, <3>1, <3>2 DEF Recorded, QueryType
  <2>8. CASE SendAnswer
    <3>1. query.given \subseteq Ips /\ query.name \in Hosts
      BY <2>8 DEF SendAnswer, QueryType
    <3>2. query' \in QueryType /\ query'.name = query.name
      BY <2>8 DEF SendAnswer, QueryType
    <3>3. learned' \subseteq Hosts \X Ips
      BY <2>8, <3>1 DEF SendAnswer
    <3>4. QED
      BY <2>8, <3>1, <3>2, <3>3 DEF SendAnswer
  <2>9. CASE ServeBreaks
    BY <2>9 DEF ServeBreaks
  <2>10. ASSUME NEW host \in Hosts, NEW path \in Paths, NEW method \in Methods,
                NEW dest \in Ips \cup {Unresolved}, NewRequest(host, path, method, dest)
         PROVE GateTypeOK'
    <3>1. request' \in RequestType
      BY <2>10 DEF NewRequest, RequestType
    <3>2. log' = [log EXCEPT !["http"] = <<>>]
      BY <2>10 DEF NewRequest
    <3>3. log' \in LogType
      BY <3>2 DEF LogType
    <3>4. QED
      BY <2>10, <3>1, <3>3 DEF NewRequest
  <2>11. CASE CheckBinding
    <3>1. request' \in RequestType
      BY <2>11 DEF CheckBinding, RequestType
    <3>2. QED
      BY <2>11, <3>1 DEF CheckBinding
  <2>12. CASE RefuseUnbound
    <3>1. log' \in LogType
      BY <2>12, AuditAppends DEF RefuseUnbound, Decisions
    <3>2. request' \in RequestType
      BY <2>12 DEF RefuseUnbound, RequestType
    <3>3. QED
      BY <2>12, <3>1, <3>2 DEF RefuseUnbound
  <2>13. CASE Decide
    <3>1. log' \in LogType
      BY <2>13, AuditAppends DEF Decide, Decisions
    <3>2. request' \in RequestType
      BY <2>13 DEF Decide, RequestType
    <3>3. QED
      BY <2>13, <3>1, <3>2 DEF Decide
  <2>14. CASE UNCHANGED vars
    BY <2>14 DEF vars
  <2>15. QED
    BY GateStep, <2>1, <2>2, <2>3, <2>4, <2>5, <2>6, <2>7, <2>8, <2>9, <2>10, <2>11, <2>12,
       <2>13, <2>14
<1>3. QED
  BY <1>1, <1>2, PTL DEF Spec

-----------------------------------------------------------------------------
\* The log of one refusal.
LEMMA SingleEntry ==
  ASSUME NEW entries, entries = <<"DENY ip-not-bound-to-host">>
  PROVE  Len(entries) = 1 /\ entries[1] # "ALLOW"
OBVIOUS

\* What makes AuditedOnce inductive: until the decision, there is no entry.
OneEntry ==
  /\ query.pc = "record" => query.rcode = "ok"
  /\ writable /\ query.pc \in {"sent", "upstream", "record"} => log["dns"] = <<>>
  /\ writable /\ request.pc \in {"hook", "unbound", "policy"} => log["http"] = <<>>
  /\ AuditedOnce

LEMMA OneEntryHolds == Spec => []OneEntry
<1>1. Init => OneEntry
  <2> SUFFICES ASSUME Init PROVE OneEntry
    OBVIOUS
  <2>1. query = NoQuery /\ request = NoRequest
    BY Zenon DEF Init
  <2>2. NoQuery.pc = "idle" /\ NoRequest.pc = "idle"
    BY DEF NoQuery, NoRequest
  <2>3. QED
    BY <2>1, <2>2 DEF OneEntry, AuditedOnce
<1>2. GateTypeOK /\ OneEntry /\ [Next]_vars => OneEntry'
  <2> SUFFICES ASSUME GateTypeOK, OneEntry, [Next]_vars PROVE OneEntry'
    OBVIOUS
  <2>0. log \in LogType /\ query \in QueryType /\ request \in RequestType
    BY DEF GateTypeOK
  <2> USE DEF OneEntry, AuditedOnce
  <2>1. ASSUME NEW name \in Hosts, NEW type \in Types, SendQuery(name, type) PROVE OneEntry'
    <3>1. query'.pc = "sent"
      BY <2>1 DEF SendQuery, NoQuery
    <3>2. log'["dns"] = <<>> /\ log'["http"] = log["http"]
      BY <2>0, <2>1 DEF SendQuery, LogType
    <3>3. QED
      BY <2>1, <3>1, <3>2 DEF SendQuery
  <2>2. ASSUME NEW ips \in SUBSET Ips, UpstreamAnswers(ips) PROVE OneEntry'
    <3>1. query.pc = "upstream" /\ query'.pc = "record" /\ query'.rcode = "ok"
      BY <2>0, <2>2 DEF UpstreamAnswers, QueryType
    <3>2. QED
      BY <2>2, <3>1 DEF UpstreamAnswers
  <2>3. CASE RefuseQuery
    <3>1. query.pc = "sent" /\ query'.pc = "send" /\ query'.rcode # "ok"
      BY <2>0, <2>3 DEF RefuseQuery, QueryType
    <3>2. /\ log'["http"] = log["http"]
          /\ writable /\ log["dns"] = <<>> => log'["dns"] = <<"DNS-DENY">>
      BY <2>0, <2>3, AuditAppends DEF RefuseQuery, Decisions
    <3>3. QED
      BY <2>3, <3>1, <3>2 DEF RefuseQuery
  <2>4. CASE ForwardQuery
    <3>1. query.pc = "sent" /\ query'.pc = "upstream"
      BY <2>0, <2>4 DEF ForwardQuery, QueryType
    <3>2. QED
      BY <2>4, <3>1 DEF ForwardQuery
  <2>5. CASE UpstreamFails
    <3>1. query.pc = "upstream" /\ query'.pc = "send" /\ query'.rcode # "ok"
      BY <2>0, <2>5 DEF UpstreamFails, QueryType
    <3>2. /\ log'["http"] = log["http"]
          /\ writable /\ log["dns"] = <<>> => log'["dns"] = <<"DNS-DENY">>
      BY <2>0, <2>5, AuditAppends DEF UpstreamFails, Decisions
    <3>3. QED
      BY <2>5, <3>1, <3>2 DEF UpstreamFails
  <2>6. CASE RecordOne
    <3>1. query.pc = "record" /\ query'.pc = "record" /\ query'.rcode = query.rcode
      BY <2>0, <2>6 DEF RecordOne, QueryType
    <3>2. QED
      BY <2>6, <3>1 DEF RecordOne
  <2>7. CASE Recorded
    <3>1. query.pc = "record" /\ query'.pc = "send" /\ query'.rcode = "ok"
      BY <2>0, <2>7 DEF Recorded, QueryType
    <3>2. /\ log'["http"] = log["http"]
          /\ writable /\ log["dns"] = <<>> => log'["dns"] = <<"DNS-ALLOW">>
      BY <2>0, <2>7, AuditAppends DEF Recorded, Decisions
    <3>3. QED
      BY <2>7, <3>1, <3>2 DEF Recorded
  <2>8. CASE SendAnswer
    <3>1. query.pc = "send" /\ query'.pc = "answered" /\ query'.rcode = query.rcode
      BY <2>0, <2>8 DEF SendAnswer, QueryType
    <3>2. QED
      BY <2>8, <3>1 DEF SendAnswer
  <2>9. CASE ServeBreaks
    BY <2>9 DEF ServeBreaks
  <2>10. ASSUME NEW host \in Hosts, NEW path \in Paths, NEW method \in Methods,
                NEW dest \in Ips \cup {Unresolved}, NewRequest(host, path, method, dest)
         PROVE OneEntry'
    <3>1. request'.pc = "hook" /\ UNCHANGED <<query, writable>>
      BY <2>10 DEF NewRequest
    <3>2. log' = [log EXCEPT !["http"] = <<>>]
      BY <2>10 DEF NewRequest
    <3>3. log'["http"] = <<>> /\ log'["dns"] = log["dns"]
      BY <2>0, <3>2 DEF LogType
    <3>4. QED
      BY <3>1, <3>3
  <2>11. CASE CheckBinding
    <3>1. request.pc = "hook" /\ request'.pc \in {"policy", "unbound"}
      BY <2>0, <2>11 DEF CheckBinding, RequestType
    <3>2. QED
      BY <2>11, <3>1 DEF CheckBinding
  <2>12. CASE RefuseUnbound
    <3>1. request.pc = "unbound" /\ request'.pc = "done" /\ request'.outcome = "refused"
      BY <2>0, <2>12 DEF RefuseUnbound, RequestType
    <3>2. /\ log'["dns"] = log["dns"]
          /\ writable /\ log["http"] = <<>> => log'["http"] = <<"DENY ip-not-bound-to-host">>
      BY <2>0, <2>12, AuditAppends DEF RefuseUnbound, Decisions
    <3>3. query' = query /\ writable' = writable
      BY <2>12 DEF RefuseUnbound
    <3>4. ASSUME writable PROVE Len(log'["http"]) = 1 /\ log'["http"][1] # "ALLOW"
      <4>1. log'["http"] = <<"DENY ip-not-bound-to-host">>
        BY <3>1, <3>2, <3>4
      <4>2. QED
        BY <4>1, SingleEntry
    <3>5. QED
      BY <3>1, <3>2, <3>3, <3>4
  <2>13. CASE Decide
    <3>1. PICK decision \in {"ALLOW", "DENY"} :
            /\ Audit("http", decision) /\ request.pc = "policy" /\ request'.pc = "done"
            /\ request'.outcome = "forwarded" <=> decision = "ALLOW"
      BY <2>0, <2>13 DEF Decide, RequestType
    <3>2. /\ log'["dns"] = log["dns"]
          /\ writable /\ log["http"] = <<>> => log'["http"] = <<decision>>
      BY <2>0, <3>1, AuditAppends DEF Decisions
    <3>3. query' = query /\ writable' = writable
      BY <2>13 DEF Decide
    <3>4. ASSUME writable PROVE Len(log'["http"]) = 1 /\ log'["http"][1] = decision
      <4>1. log'["http"] = <<decision>>
        BY <3>1, <3>2, <3>4
      <4>2. QED
        BY <4>1
    <3>5. QED
      BY <3>1, <3>2, <3>3, <3>4
  <2>14. CASE UNCHANGED vars
    BY <2>14 DEF vars
  <2>15. QED
    BY GateStep, <2>1, <2>2, <2>3, <2>4, <2>5, <2>6, <2>7, <2>8, <2>9, <2>10, <2>11, <2>12,
       <2>13, <2>14
<1>3. QED
  BY GateTypeCorrect, <1>1, <1>2, PTL DEF Spec

\* Each decision leaves exactly one entry in the log, of the decision taken,
\* before it takes effect (policy.py 161-211, dns_interceptor.py 71-103).
THEOREM AuditedOnceHolds == Spec => []AuditedOnce
<1>1. OneEntry => AuditedOnce
  BY DEF OneEntry
<1>2. QED
  BY OneEntryHolds, <1>1, PTL

-----------------------------------------------------------------------------
(***************************************************************************)
(* Decisions                                                               *)
(***************************************************************************)
\* The file is one of those of the instance and stays the same.
LEMMA FileHolds == Spec => [](file \in Files)
<1>1. Init => file \in Files
  BY Zenon DEF Init
<1>2. file \in Files /\ [Next]_vars => (file \in Files)'
  <2>1. [Next]_vars => UNCHANGED file
    BY GateStep DEF SendQuery, UpstreamAnswers, RefuseQuery, ForwardQuery, UpstreamFails,
       RecordOne, Recorded, SendAnswer, ServeBreaks, NewRequest, CheckBinding, RefuseUnbound,
       Decide, vars
  <2>2. QED
    BY <2>1
<1>3. QED
  BY <1>1, <1>2, PTL DEF Spec

\* A step that leaves a finished request and its entries alone decides nothing.
LEMMA DecisionStays ==
  ASSUME DecidedAsDocumented, UNCHANGED <<file, writable, request>>, log'["http"] = log["http"]
  PROVE  DecidedAsDocumented'
<1>1. Documented(file, request.host, request.path, request.method)' =
        Documented(file, request.host, request.path, request.method)
  BY Zenon
<1>2. QED
  BY <1>1 DEF DecidedAsDocumented

\* A request is forwarded only if the last rule of its host that matches, in the
\* order of the file, allows it; and one that the rules allow is refused only for
\* want of a binding (policy.py 24-33, 238-259), for any file.
THEOREM DecidedAsDocumentedHolds == Spec => []DecidedAsDocumented
<1>1. Init => DecidedAsDocumented
  <2>1. Init => request = NoRequest
    BY Zenon DEF Init
  <2>2. NoRequest.pc # "done"
    BY DEF NoRequest
  <2>3. QED
    BY <2>1, <2>2 DEF DecidedAsDocumented
<1>2. GateTypeOK /\ OneEntry /\ file \in Files /\ DecidedAsDocumented /\ [Next]_vars
        => DecidedAsDocumented'
  <2> SUFFICES ASSUME GateTypeOK, OneEntry, file \in Files, DecidedAsDocumented, [Next]_vars
               PROVE  DecidedAsDocumented'
    OBVIOUS
  <2>0. log \in LogType /\ query \in QueryType /\ request \in RequestType
    BY DEF GateTypeOK
  <2>1. ASSUME NEW name \in Hosts, NEW type \in Types, SendQuery(name, type)
        PROVE  DecidedAsDocumented'
    <3>1. log'["http"] = log["http"]
      BY <2>0, <2>1 DEF SendQuery, LogType
    <3>2. QED
      BY <2>1, <3>1, DecisionStays DEF SendQuery
  <2>2. ASSUME NEW ips \in SUBSET Ips, UpstreamAnswers(ips) PROVE DecidedAsDocumented'
    BY <2>2, DecisionStays DEF UpstreamAnswers
  <2>3. CASE RefuseQuery
    <3>1. log'["http"] = log["http"]
      BY <2>0, <2>3, AuditAppends DEF RefuseQuery, Decisions
    <3>2. QED
      BY <2>3, <3>1, DecisionStays DEF RefuseQuery
  <2>4. CASE ForwardQuery
    BY <2>4, DecisionStays DEF ForwardQuery
  <2>5. CASE UpstreamFails
    <3>1. log'["http"] = log["http"]
      BY <2>0, <2>5, AuditAppends DEF UpstreamFails, Decisions
    <3>2. QED
      BY <2>5, <3>1, DecisionStays DEF UpstreamFails
  <2>6. CASE RecordOne
    BY <2>6, DecisionStays DEF RecordOne
  <2>7. CASE Recorded
    <3>1. log'["http"] = log["http"]
      BY <2>0, <2>7, AuditAppends DEF Recorded, Decisions
    <3>2. QED
      BY <2>7, <3>1, DecisionStays DEF Recorded
  <2>8. CASE SendAnswer
    BY <2>8, DecisionStays DEF SendAnswer
  <2>9. CASE ServeBreaks
    BY <2>9, DecisionStays DEF ServeBreaks
  <2>10. ASSUME NEW host \in Hosts, NEW path \in Paths, NEW method \in Methods,
                NEW dest \in Ips \cup {Unresolved}, NewRequest(host, path, method, dest)
         PROVE  DecidedAsDocumented'
    <3>1. request'.pc = "hook"
      BY <2>10 DEF NewRequest
    <3>2. QED
      BY <3>1 DEF DecidedAsDocumented
  <2>11. CASE CheckBinding
    <3>1. request'.pc \in {"policy", "unbound"}
      BY <2>0, <2>11 DEF CheckBinding, RequestType
    <3>2. QED
      BY <3>1 DEF DecidedAsDocumented
  <2>12. CASE RefuseUnbound
    <3>1. request.pc = "unbound" /\ request'.outcome = "refused" /\ writable' = writable
      BY <2>0, <2>12 DEF RefuseUnbound, RequestType
    <3>2. writable => log'["http"] = <<"DENY ip-not-bound-to-host">>
      BY <2>0, <2>12, <3>1, AuditAppends DEF RefuseUnbound, Decisions, OneEntry
    <3>3. <<"DENY ip-not-bound-to-host">> # <<"DENY">>
      OBVIOUS
    <3>4. QED
      BY <3>1, <3>2, <3>3 DEF DecidedAsDocumented
  <2>13. CASE Decide
    <3> DEFINE decision == CheckPolicy(NetworkPolicies(file), request.host, request.path, request.method)
               documented == Documented(file, request.host, request.path, request.method)
    <3>1. file \in Seq(Entries)
      BY GateAssumption
    <3>2. documented \in {"ALLOW", "DENY"} /\ (decision = "ALLOW" => documented = "ALLOW")
      BY <3>1, CheckPolicyIsDocumented
    <3>3. decision # "ALLOW" => documented = "DENY"
      <4>1. Matching(file, request.host, request.path, request.method) = {} => documented = "DENY"
        BY Zenon DEF Documented
      <4>2. QED
        BY <3>1, <4>1, CheckPolicyIsDocumented
    <3>4. /\ request.pc = "policy" /\ file' = file
          /\ request' = [request EXCEPT !.pc = "done",
                            !.outcome = IF decision = "ALLOW" THEN "forwarded" ELSE "refused"]
      BY <2>13, Zenon DEF Decide
    <3> HIDE DEF decision
    <3>5. /\ request'.host = request.host /\ request'.path = request.path
          /\ request'.method = request.method
          /\ request'.outcome = IF decision = "ALLOW" THEN "forwarded" ELSE "refused"
      BY <2>0, <3>4 DEF RequestType
    <3>6. Documented(file, request.host, request.path, request.method)' = documented
      BY Zenon, <3>4, <3>5
    <3>7. QED
      BY <3>2, <3>3, <3>5, <3>6 DEF DecidedAsDocumented
  <2>14. CASE UNCHANGED vars
    BY <2>14, DecisionStays DEF vars
  <2>15. QED
    BY GateStep, <2>1, <2>2, <2>3, <2>4, <2>5, <2>6, <2>7, <2>8, <2>9, <2>10, <2>11, <2>12,
       <2>13, <2>14
<1>3. QED
  BY GateTypeCorrect, OneEntryHolds, FileHolds, <1>1, <1>2, PTL DEF Spec

-----------------------------------------------------------------------------
(***************************************************************************)
(* Refused names                                                           *)
(***************************************************************************)
\* What makes RefusedNamesAreUseless inductive: the name is not in the file.
NotInFile ==
  query.rcode = "nxdomain" /\ query.type # "PTR" => query.name \notin AllowedHosts(file)

LEMMA UnlistedHostIsDenied ==
  ASSUME NEW name, name \notin AllowedHosts(file), NEW path, NEW method
  PROVE  Documented(file, name, path, method) = "DENY"
<1>1. Matching(file, name, path, method) = {}
  <2> SUFFICES ASSUME NEW at \in Matching(file, name, path, method) PROVE FALSE
    OBVIOUS
  <2>1. /\ file[at[1]].host = name
        /\ \E i \in DOMAIN file : at \in {i} \X DOMAIN file[i].rules
    BY DEF Matching
  <2>2. PICK i \in DOMAIN file : at \in {i} \X DOMAIN file[i].rules
    BY <2>1
  <2>3. at[1] = i
    BY <2>2
  <2>4. QED
    BY <2>1, <2>3 DEF AllowedHosts
<1>2. QED
  BY <1>1 DEF Documented

LEMMA NoQueryCode == NoQuery.rcode # "nxdomain"
BY Zenon DEF NoQuery

\* The DNS thread says "no such name" to an address query only for a host of which
\* no request could be allowed (policy.py 118-147, dns_interceptor.py 84-86).
THEOREM RefusedNamesAreUselessHolds == Spec => []RefusedNamesAreUseless
<1>1. Init => NotInFile
  <2> SUFFICES ASSUME Init PROVE NotInFile
    OBVIOUS
  <2>1. query = NoQuery
    BY Zenon DEF Init
  <2>2. QED
    BY <2>1, NoQueryCode DEF NotInFile
<1>2. GateTypeOK /\ NotInFile /\ [Next]_vars => NotInFile'
  <2> SUFFICES ASSUME GateTypeOK, NotInFile, [Next]_vars PROVE NotInFile'
    OBVIOUS
  <2>0. query \in QueryType
    BY DEF GateTypeOK
  <2>1. ASSUME NEW name \in Hosts, NEW type \in Types, SendQuery(name, type) PROVE NotInFile'
    <3>1. query'.rcode = NoQuery.rcode
      BY <2>1 DEF SendQuery, NoQuery
    <3>2. QED
      BY <3>1, NoQueryCode DEF NotInFile
  <2>2. ASSUME NEW ips \in SUBSET Ips, UpstreamAnswers(ips) PROVE NotInFile'
    <3>1. query'.rcode = "ok"
      BY <2>0, <2>2 DEF UpstreamAnswers, QueryType
    <3>2. QED
      BY <3>1 DEF NotInFile
  <2>3. CASE RefuseQuery
    <3>1. /\ query'.name = query.name /\ query'.type = query.type /\ file' = file
          /\ \/ query'.rcode = "nodata"
             \/ query.type = "PTR"
             \/ query.name \notin AllowedHosts(file)
      BY <2>0, <2>3 DEF RefuseQuery, QueryType
    <3>2. QED
      BY <3>1 DEF NotInFile, AllowedHosts
  <2>4. CASE UpstreamFails
    <3>1. query'.rcode = "servfail"
      BY <2>0, <2>4 DEF UpstreamFails, QueryType
    <3>2. QED
      BY <3>1 DEF NotInFile
  <2>5. CASE ForwardQuery \/ RecordOne \/ Recorded \/ SendAnswer
    <3>1. /\ query'.name = query.name /\ query'.type = query.type
          /\ query'.rcode = query.rcode /\ file' = file
      BY <2>0, <2>5 DEF ForwardQuery, RecordOne, Recorded, SendAnswer, QueryType
    <3>2. QED
      BY <3>1 DEF NotInFile, AllowedHosts
  <2>6. CASE ServeBreaks \/ CheckBinding \/ RefuseUnbound \/ Decide \/ UNCHANGED vars
    <3>1. query' = query /\ file' = file
      BY <2>6 DEF ServeBreaks, CheckBinding, RefuseUnbound, Decide, vars
    <3>2. QED
      BY <3>1 DEF NotInFile, AllowedHosts
  <2>7. ASSUME NEW host \in Hosts, NEW path \in Paths, NEW method \in Methods,
               NEW dest \in Ips \cup {Unresolved}, NewRequest(host, path, method, dest)
        PROVE  NotInFile'
    <3>1. query' = query /\ file' = file
      BY <2>7 DEF NewRequest
    <3>2. QED
      BY <3>1 DEF NotInFile, AllowedHosts
  <2>8. QED
    BY GateStep, <2>1, <2>2, <2>3, <2>4, <2>5, <2>6, <2>7
<1>3. NotInFile => RefusedNamesAreUseless
  BY UnlistedHostIsDenied DEF NotInFile, RefusedNamesAreUseless
<1>4. QED
  BY GateTypeCorrect, <1>1, <1>2, <1>3, PTL DEF Spec

-----------------------------------------------------------------------------
(***************************************************************************)
(* The two threads are a monitor                                           *)
(***************************************************************************)
\* The instance computes with the same rules.
LEMMA SameRules ==
  /\ \A name : name \in Monitored!AllowedHosts(file) <=> name \in AllowedHosts(file)
  /\ \A f : Monitored!Rejected(f) <=> Rejected(f)
  /\ \A host, path, method :
       Monitored!Documented(file, host, path, method) = Documented(file, host, path, method)
<1>1. \A name : name \in Monitored!AllowedHosts(file) <=> name \in AllowedHosts(file)
  BY DEF Monitored!AllowedHosts, AllowedHosts
<1>2. \A f : Monitored!Rejected(f) <=> Rejected(f)
  BY Zenon DEF Monitored!Rejected, Monitored!Usable, Monitored!Compiled, Rejected, Usable, Compiled
<1>3. ASSUME NEW host, NEW path, NEW method
      PROVE  Monitored!Documented(file, host, path, method) = Documented(file, host, path, method)
  <2>1. Monitored!Matching(file, host, path, method) = Matching(file, host, path, method)
    BY Zenon DEF Monitored!Matching, Monitored!Usable, Monitored!Compiled, Monitored!Applies,
       Matching, Usable, Compiled, Applies
  <2>2. QED
    BY <2>1 DEF Monitored!Documented, Documented
<1>4. QED
  BY <1>1, <1>2, <1>3

\* A request past the check of its binding has one, and what is looked up or
\* recorded is a name of the file.
Checked ==
  /\ request.pc = "policy" =>
       request.dest = Unresolved \/ <<request.host, request.dest>> \in bound
  /\ query.pc \in {"upstream", "record"} => query.name \in AllowedHosts(file)

LEMMA CheckedHolds == Spec => []Checked
<1>1. Init => Checked
  <2>1. Init => query = NoQuery /\ request = NoRequest
    BY Zenon DEF Init
  <2>2. NoQuery.pc = "idle" /\ NoRequest.pc = "idle"
    BY DEF NoQuery, NoRequest
  <2>3. QED
    BY <2>1, <2>2 DEF Checked
<1>2. GateTypeOK /\ Checked /\ [Next]_vars => Checked'
  <2> SUFFICES ASSUME GateTypeOK, Checked, [Next]_vars PROVE Checked'
    OBVIOUS
  <2>0. query \in QueryType /\ request \in RequestType
    BY DEF GateTypeOK
  <2>1. ASSUME NEW name \in Hosts, NEW type \in Types, SendQuery(name, type) PROVE Checked'
    <3>1. query'.pc = "sent" /\ UNCHANGED <<file, bound, request>>
      BY <2>1 DEF SendQuery, NoQuery
    <3>2. QED
      BY <3>1 DEF Checked
  <2>2. ASSUME NEW ips \in SUBSET Ips, UpstreamAnswers(ips) PROVE Checked'
    <3>1. /\ query.pc = "upstream" /\ query'.name = query.name
          /\ UNCHANGED <<file, bound, request>>
      BY <2>0, <2>2 DEF UpstreamAnswers, QueryType
    <3>2. QED
      BY <3>1 DEF Checked, AllowedHosts
  <2>3. CASE RefuseQuery \/ UpstreamFails \/ Recorded \/ SendAnswer
    <3>1. query'.pc \in {"send", "answered"} /\ UNCHANGED <<file, bound, request>>
      BY <2>0, <2>3 DEF RefuseQuery, UpstreamFails, Recorded, SendAnswer, QueryType
    <3>2. QED
      BY <3>1 DEF Checked
  <2>4. CASE ForwardQuery
    <3>1. /\ query.name \in AllowedHosts(file) /\ query'.name = query.name
          /\ UNCHANGED <<file, bound, request>>
      BY <2>0, <2>4 DEF ForwardQuery, QueryType
    <3>2. QED
      BY <3>1 DEF Checked, AllowedHosts
  <2>5. CASE RecordOne
    <3>1. /\ query.pc = "record" /\ query'.name = query.name /\ bound \subseteq bound'
          /\ UNCHANGED <<file, request>>
      BY <2>0, <2>5 DEF RecordOne, QueryType
    <3>2. QED
      BY <3>1 DEF Checked, AllowedHosts
  <2>6. CASE ServeBreaks \/ UNCHANGED vars
    <3>1. UNCHANGED <<file, bound, query, request>>
      BY <2>6 DEF ServeBreaks, vars
    <3>2. QED
      BY <3>1 DEF Checked, AllowedHosts
  <2>7. ASSUME NEW host \in Hosts, NEW path \in Paths, NEW method \in Methods,
               NEW dest \in Ips \cup {Unresolved}, NewRequest(host, path, method, dest)
        PROVE  Checked'
    <3>1. request'.pc = "hook" /\ UNCHANGED <<file, query>>
      BY <2>7 DEF NewRequest
    <3>2. QED
      BY <3>1 DEF Checked, AllowedHosts
  <2>8. CASE CheckBinding
    <3>1. /\ request'.host = request.host /\ request'.dest = request.dest
          /\ request'.pc = "policy" =>
               request.dest = Unresolved \/ <<request.host, request.dest>> \in bound
          /\ UNCHANGED <<file, bound, query>>
      BY <2>0, <2>8 DEF CheckBinding, RequestType
    <3>2. QED
      BY <3>1 DEF Checked, AllowedHosts
  <2>9. CASE RefuseUnbound \/ Decide
    <3>1. request'.pc = "done" /\ UNCHANGED <<file, query>>
      BY <2>0, <2>9 DEF RefuseUnbound, Decide, RequestType
    <3>2. QED
      BY <3>1 DEF Checked, AllowedHosts
  <2>10. QED
    BY GateStep, <2>1, <2>2, <2>3, <2>4, <2>5, <2>6, <2>7, <2>8, <2>9
<1>3. QED
  BY GateTypeCorrect, <1>1, <1>2, PTL DEF Spec

\* The hook and the DNS thread, whatever their interleaving and whichever the file,
\* decide each request as a monitor would that does it in one instant
\* (policy.py 186-259, dns_interceptor.py 72-100).
THEOREM GateImplementsMonitor == Spec => ImplementsMonitor
<1>1. Init => Monitored!Init
  <2> SUFFICES ASSUME Init PROVE Monitored!Init
    OBVIOUS
  <2>1. /\ file \in {f \in Files : ~Rejected(f)}
        /\ bound = {} /\ learned = {} /\ request = NoRequest
    BY Zenon DEF Init
  <2>2. Asked = Monitored!Nothing
    BY <2>1 DEF Asked, NoRequest, Monitored!Nothing
  <2>3. file \in {f \in Files : ~Monitored!Rejected(f)}
    BY <2>1, SameRules
  <2>4. QED
    BY Zenon, <2>1, <2>2, <2>3 DEF Monitored!Init
<1>2. GateTypeOK /\ file \in Files /\ Ahead /\ Checked /\ [Next]_vars
        => [Monitored!Next]_(Monitored!vars)
  <2> SUFFICES ASSUME GateTypeOK, file \in Files, Ahead, Checked, [Next]_vars
               PROVE  Monitored!Next \/ UNCHANGED Monitored!vars
    OBVIOUS
  <2>0. query \in QueryType /\ request \in RequestType
    BY DEF GateTypeOK
  <2>1. ASSUME UNCHANGED <<file, bound, learned, request>> PROVE UNCHANGED Monitored!vars
    BY <2>1 DEF Asked, Monitored!vars
  <2>2. CASE \E name \in Hosts, type \in Types : SendQuery(name, type)
    BY <2>1, <2>2 DEF SendQuery
  <2>3. CASE \E ips \in SUBSET Ips : UpstreamAnswers(ips)
    BY <2>1, <2>3 DEF UpstreamAnswers
  <2>4. CASE RefuseQuery \/ ForwardQuery \/ UpstreamFails \/ Recorded \/ ServeBreaks \/ UNCHANGED vars
    BY <2>1, <2>4 DEF RefuseQuery, ForwardQuery, UpstreamFails, Recorded, ServeBreaks, vars
  <2>5. CASE RecordOne
    <3>1. PICK ip \in query.todo : bound' = bound \cup {<<query.name, ip>>}
      BY <2>5 DEF RecordOne
    <3>2. ip \in Ips /\ query.name \in Hosts
      BY <2>0, <2>5 DEF GateTypeOK, RecordOne, QueryType
    <3>3. query.name \in Monitored!AllowedHosts(file)
      BY <2>5, SameRules DEF RecordOne, Checked
    <3>4. UNCHANGED <<file, learned, Asked>>
      BY <2>5 DEF RecordOne, Asked
    <3>5. Monitored!Bind(query.name, ip)
      BY <3>1, <3>3, <3>4 DEF Monitored!Bind
    <3>6. QED
      BY <3>2, <3>5 DEF Monitored!Next
  <2>6. CASE SendAnswer
    <3>1. query.given \subseteq Ips /\ query.name \in Hosts
      BY <2>0, <2>6 DEF GateTypeOK, SendAnswer, QueryType
    <3>2. {query.name} \X query.given \subseteq bound
      BY <2>6 DEF Ahead, SendAnswer
    <3>3. learned' = learned \cup ({query.name} \X query.given) /\ UNCHANGED <<file, bound, Asked>>
      BY <2>6 DEF SendAnswer, Asked
    <3>4. Monitored!Tell(query.name, query.given)
      BY <3>2, <3>3 DEF Monitored!Tell
    <3>5. QED
      BY <3>1, <3>4 DEF Monitored!Next
  <2>7. ASSUME NEW host \in Hosts, NEW path \in Paths, NEW method \in Methods,
               NEW dest \in Ips \cup {Unresolved}, NewRequest(host, path, method, dest)
        PROVE  Monitored!Next
    <3>1. Asked.stage # "asked"
      BY <2>0, <2>7 DEF NewRequest, Asked, RequestType
    <3>2. Asked' = [stage |-> "asked", host |-> host, path |-> path, method |-> method,
                    dest |-> dest]
      BY <2>7 DEF NewRequest, Asked
    <3>3. Monitored!Ask(host, path, method, dest)
      BY <2>7, <3>1, <3>2 DEF NewRequest, Monitored!Ask
    <3>4. QED
      BY <3>3 DEF Monitored!Next
  <2>8. ASSUME NEW allowed,
               Documented(file, request.host, request.path, request.method) = allowed
        PROVE  Monitored!Permitted <=>
                 /\ allowed = "ALLOW"
                 /\ request.dest = Unresolved \/ <<request.host, request.dest>> \in bound
    BY <2>8, SameRules DEF Monitored!Permitted, Asked
  <2>9. ASSUME request.pc \in {"hook", "policy"}, UNCHANGED <<file, bound, learned>>,
               Asked' = [Asked EXCEPT !.stage = IF Monitored!Permitted THEN "forwarded"
                                                ELSE "refused"]
        PROVE  Monitored!Next
    <3>1. Asked.stage = "asked"
      BY <2>9 DEF Asked
    <3>2. Monitored!Answer
      BY <2>9, <3>1 DEF Monitored!Answer
    <3>3. QED
      BY <3>2 DEF Monitored!Next
  <2>10. CASE CheckBinding
    <3>1. /\ request.pc = "hook" /\ UNCHANGED <<file, bound, learned>>
          /\ request'.host = request.host /\ request'.path = request.path
          /\ request'.method = request.method /\ request'.dest = request.dest
      BY <2>0, <2>10 DEF CheckBinding, RequestType
    <3>2. CASE request.dest = Unresolved \/ <<request.host, request.dest>> \in bound
      <4>1. request'.pc = "policy"
        BY <2>0, <2>10, <3>2 DEF CheckBinding, RequestType
      <4>2. Asked' = Asked
        BY <3>1, <4>1 DEF Asked
      <4>3. QED
        BY <3>1, <4>2 DEF Monitored!vars
    <3>3. CASE ~ (request.dest = Unresolved \/ <<request.host, request.dest>> \in bound)
      <4>1. request'.pc = "unbound"
        BY <2>0, <2>10, <3>3 DEF CheckBinding, RequestType
      <4>2. ~ Monitored!Permitted
        BY <2>8, <3>3
      <4>3. Asked' = [Asked EXCEPT !.stage = "refused"]
        BY <3>1, <4>1 DEF Asked
      <4>4. QED
        BY <2>9, <3>1, <4>2, <4>3
    <3>4. QED
      BY <3>2, <3>3
  <2>11. CASE RefuseUnbound
    <3>1. /\ request.pc = "unbound" /\ UNCHANGED <<file, bound, learned>>
          /\ request'.pc = "done" /\ request'.outcome = "refused"
          /\ request'.host = request.host /\ request'.path = request.path
          /\ request'.method = request.method /\ request'.dest = request.dest
      BY <2>0, <2>11 DEF RefuseUnbound, RequestType
    <3>2. Asked' = Asked
      BY <3>1 DEF Asked
    <3>3. QED
      BY <3>1, <3>2 DEF Monitored!vars
  <2>12. CASE Decide
    <3> DEFINE decision == CheckPolicy(NetworkPolicies(file), request.host, request.path, request.method)
               documented == Documented(file, request.host, request.path, request.method)
    <3>1. decision = "ALLOW" <=> documented = "ALLOW"
      <4>1. file \in Seq(Entries)
        BY GateAssumption
      <4>2. Matching(file, request.host, request.path, request.method) = {} => documented = "DENY"
        BY Zenon DEF Documented
      <4>3. QED
        BY <4>1, <4>2, CheckPolicyIsDocumented
    <3>2. /\ request.pc = "policy" /\ UNCHANGED <<file, bound, learned>>
          /\ request' = [request EXCEPT !.pc = "done",
                            !.outcome = IF decision = "ALLOW" THEN "forwarded" ELSE "refused"]
      BY <2>12, Zenon DEF Decide
    <3>3. Monitored!Permitted <=> documented = "ALLOW"
      BY <2>8, <3>2 DEF Checked
    <3> HIDE DEF decision, documented
    <3>4. /\ request'.pc = "done"
          /\ request'.outcome = IF decision = "ALLOW" THEN "forwarded" ELSE "refused"
          /\ request'.host = request.host /\ request'.path = request.path
          /\ request'.method = request.method /\ request'.dest = request.dest
      BY <2>0, <3>2 DEF RequestType
    <3>5. Asked' = [Asked EXCEPT !.stage = IF decision = "ALLOW" THEN "forwarded" ELSE "refused"]
      BY <3>2, <3>4 DEF Asked
    <3>6. QED
      BY <2>9, <3>1, <3>2, <3>3, <3>5
  <2>13. QED
    BY GateStep, <2>2, <2>3, <2>4, <2>5, <2>6, <2>7, <2>10, <2>11, <2>12
<1>3. QED
  BY GateTypeCorrect, FileHolds, AheadHolds, CheckedHolds, <1>1, <1>2, PTL
  DEF Spec, ImplementsMonitor, Monitored!Spec
=============================================================================
