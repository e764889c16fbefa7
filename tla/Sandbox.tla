------------------------------ MODULE Sandbox -------------------------------
(***************************************************************************)
(* The extension (Session) together with the inside of the egress proxy    *)
(* container (Entrypoint), for one session with one proxy: the marker the  *)
(* extension polls is the one entrypoint.py writes, the certificate it     *)
(* reads is the one mitmdump generated, and the rules a tool call meets    *)
(* are those of the network namespace its container lives in.              *)
(***************************************************************************)
EXTENDS Session, Entrypoint

VARIABLE attached  \* the proxy's namespace is that of the running workload

sandboxVars == <<vars, evars, attached>>

STypeOK == TypeOK /\ ETypeOK /\ attached \in BOOLEAN

SInit == Init /\ EInit /\ attached = TRUE

ProxyUp == \E p \in Proxies : Running(p)

-----------------------------------------------------------------------------
(***************************************************************************)
(* How the two halves move together                                        *)
(***************************************************************************)
\* the workload stops: its namespace is gone for good, `docker start` makes a
\* new one and the proxy is not in it (egress.ts 113)
NamespaceFollows ==
  attached' = (attached /\ \A w \in Workloads : Running(w) => ctr'[w] = "running")

\* docker rm -f of the proxy, or its death, kills every process in it
ProcessesFollow ==
  IF \E p \in Proxies : Running(p) /\ ctr'[p] # "running"
    THEN Kill
    ELSE UNCHANGED evars

\* what `cat` finds in the proxy
CertFollows == start.pc = "cert" /\ start'.pc = "install" => cert

\* a step of the extension, of docker or of the host
ExtensionStep ==
  /\ Next
  /\ UNCHANGED marker
  /\ ProcessesFollow /\ CertFollows /\ NamespaceFollows

\* the marker appears
ReadyStep ==
  /\ WriteMarker
  /\ \E p \in Proxies : ProxyReady(p)
  /\ UNCHANGED attached

\* a step inside the proxy; when PID 1 ends the container stops
ProxyStep ==
  /\ ProxyUp
  /\ ENext
  /\ ready' = ready \/ pc' = "exited"
  /\ IF pc' = "exited"
       THEN \E p \in Proxies : ContainerStops(p)
       ELSE pc' # "killed" /\ UNCHANGED vars
  /\ UNCHANGED attached

SNext == ExtensionStep \/ ReadyStep \/ ProxyStep

SSpec == SInit /\ [][SNext]_sandboxVars

-----------------------------------------------------------------------------
(***************************************************************************)
(* Properties                                                              *)
(***************************************************************************)
\* the rules of the namespace the workload runs in
WorkloadRules == IF attached THEN fw ELSE NoRules

Routed(w) == \E c \in Calls : calls[c].route = w

\* "a mitmproxy sidecar container filters all outbound HTTP/HTTPS traffic from
\* the sandbox" (docs/egress-control.md 3): while a tool call that was routed to
\* the container of a session with a policy is running there, nothing leaves it
\* unfiltered (index.ts 178-215, 264-288; egress.ts 107-132; entrypoint.py).
Contained ==
  \A w \in Workloads :
    flags.policy /\ ~flags.noSandbox /\ Routed(w) /\ Running(w) => NoEscape(WorkloadRules)

\* A session with a policy becomes active only when all the rules are installed and
\* the certificate was generated.  The proxy may have been killed by then: nobody
\* looks at it after the certificate is read, but what its entrypoint installed
\* is still there (egress.ts 120-132 against entrypoint.py 82-105).
ActiveOnlyWhenSetUp ==
  [][session.kind # "active" /\ session'.kind = "active" /\ flags.policy
       => cert /\ MeansPolicy(fw)]_sandboxVars

\* "malformed files fail before containers start" (docs/egress-control.md 92): a
\* session whose proxy rejected its policy does not run tool calls.
RejectedPolicyFailsSession ==
  \A w \in Workloads :
    Routed(w) => ~(mitm = "gone" /\ resolver = "none" /\ pc \in {"teardown", "exited"})
=============================================================================
