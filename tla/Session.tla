------------------------------- MODULE Session -------------------------------
(***************************************************************************)
(* The pi extension (pi-extension/src/index.ts) with the container helpers *)
(* it awaits (docker.ts, egress.ts): the session state machine pending /   *)
(* disabled / active / failed, the session_start and session_shutdown      *)
(* handlers, and requireContainer, which decides for every tool call       *)
(* whether it runs in the container, runs on the host or is refused.       *)
(*                                                                         *)
(* The extension is single threaded: the code between two awaits is one    *)
(* action.  At an await the handler waits for a docker command, and other  *)
(* handlers run.  Where another handler can tell the difference, "the      *)
(* command takes effect" and "the handler resumes" are two actions.        *)
(***************************************************************************)
EXTENDS Docker

CONSTANTS
  Calls,   \* tool calls (and user_bash events) that may be in progress at once
  Host     \* the route of a call that runs on the host, outside any container

ASSUME SessionAssumption == Host \notin Names \cup {None}

VARIABLES
  flags,        \* command line: noSandbox, policy (an --egress-policy was given)
  host,         \* the pi session as the host sees it: "closed", "open", "dead"
  session,      \* SandboxState: kind, container, proxy
  auditTailer,  \* the proxy whose log tail the module variable can abort
  polling,      \* the proxies whose log tail has not been aborted
  marker,       \* the proxies that have written their proxy-ready marker
  trust,        \* the workloads in which the proxy's CA has been installed
  start,        \* session_start: where it waits, its containers
  stop,         \* session_shutdown: where it waits, the container it removes
  calls         \* requireContainer, per call: where it waits, name, the route

egressVars == <<auditTailer, polling, marker, trust>>
vars == <<ctr, flags, host, session, egressVars, start, stop, calls>>

-----------------------------------------------------------------------------
StartPc == {"idle", "probe", "build", "run", "wait", "image", "runProxy",
            "waitProxy", "cert", "install", "cleanup"}
StopPc == {"idle", "rmProxy", "rmProxyDone", "rmWorkload", "rmWorkloadDone"}
CallPc == {"idle", "inspect", "up", "down", "starting", "started", "dead", "done"}

\* the calls suspended inside requireContainer
CheckingPc == CallPc \ {"idle", "done"}

TypeOK ==
  /\ DockerTypeOK
  /\ flags \in [noSandbox : BOOLEAN, policy : BOOLEAN]
  /\ host \in {"closed", "open", "dead"}
  /\ session \in [kind : {"pending", "disabled", "active", "failed"},
                  container : Workloads \cup {None}, proxy : Proxies \cup {None}]
  /\ auditTailer \in Proxies \cup {None}
  /\ polling \subseteq Proxies
  /\ marker \subseteq Proxies
  /\ trust \subseteq Workloads
  /\ start \in [pc : StartPc, container : Workloads \cup {None}, proxy : Proxies \cup {None}]
  /\ start.pc \in StartPc \ {"idle", "probe", "build", "run"} => start.container \in Workloads
  /\ start.pc \in {"waitProxy", "cert", "install"} => start.proxy \in Proxies
  /\ stop \in [pc : StopPc, arg : Names \cup {None}]
  /\ calls \in [Calls -> [pc : CallPc, name : Workloads \cup {None},
                          route : Workloads \cup {None, Host}]]

\* a state that is not active has no container and no proxy field
State(kind) == [kind |-> kind, container |-> None, proxy |-> None]

Init ==
  /\ DockerInit
  /\ flags \in [noSandbox : BOOLEAN, policy : BOOLEAN]
  /\ host = "closed"
  /\ session = State("pending")
  /\ auditTailer = None
  /\ polling = {}
  /\ marker = {}
  /\ trust = {}
  /\ start = [pc |-> "idle", container |-> None, proxy |-> None]
  /\ stop = [pc |-> "idle", arg |-> None]
  /\ calls = [c \in Calls |-> [pc |-> "idle", name |-> None, route |-> None]]

-----------------------------------------------------------------------------
(***************************************************************************)
(* When the host delivers an event.  Without "parallel" a handler starts   *)
(* only when no other one is suspended.                                    *)
(***************************************************************************)
Quiet ==
  /\ start.pc = "idle"
  /\ stop.pc = "idle"
  /\ \A c \in Calls : calls[c].pc \notin CheckingPc

MayDeliver == "parallel" \in Adversity \/ Quiet

-----------------------------------------------------------------------------
(***************************************************************************)
(* session_start                                                           *)
(***************************************************************************)
\* up to the first await: --no-sandbox, then the policy file's existence
BeginStart ==
  /\ host = "closed"
  /\ start.pc = "idle" /\ stop.pc = "idle"
  /\ MayDeliver
  /\ host' = "open"
  /\ \/ /\ flags.noSandbox
        /\ session' = State("disabled")
        /\ UNCHANGED start
     \/ /\ ~flags.noSandbox /\ flags.policy    \* validatePolicy: no such file
        /\ session' = State("failed")
        /\ UNCHANGED start
     \/ /\ ~flags.noSandbox
        /\ start' = [pc |-> "probe", container |-> None, proxy |-> None]
        /\ UNCHANGED session
  /\ UNCHANGED <<ctr, flags, egressVars, stop, calls>>

\* the catch blocks around docker info and createSandboxContainer
GiveUpStart ==
  /\ session' = State("failed")
  /\ start' = [start EXCEPT !.pc = "idle"]

\* docker info, then docker build
ProbeOrBuildReturns ==
  /\ start.pc \in {"probe", "build"}
  /\ \/ /\ start' = [start EXCEPT !.pc = IF @ = "probe" THEN "build" ELSE "run"]
        /\ UNCHANGED session
     \/ GiveUpStart
  /\ UNCHANGED <<ctr, flags, host, egressVars, stop, calls>>

\* Mutant: the name of the new container is not kept.
RunReturnsForgetsName ==
  /\ start.pc = "run"
  /\ \E n \in Workloads : Runs(n)
  /\ start' = [start EXCEPT !.pc = "wait"]
  /\ UNCHANGED <<flags, host, session, egressVars, stop, calls>>

\* docker run of the workload
RunReturns ==
  /\ start.pc = "run"
  /\ \/ \E n \in Workloads :
          /\ Runs(n)
          /\ start' = [start EXCEPT !.pc = "wait", !.container = n]
          /\ UNCHANGED session
     \/ RunFails(Workloads) /\ GiveUpStart
  /\ UNCHANGED <<flags, host, egressVars, stop, calls>>

\* all containers up: the last statement of session_start that changes state
BecomeActive(proxy) ==
  /\ session' = [kind |-> "active", container |-> start.container, proxy |-> proxy]
  /\ start' = [start EXCEPT !.pc = "idle"]

\* waitForContainerRunning sees the workload up
WaitSucceeds ==
  /\ start.pc = "wait"
  /\ MayReportUp(start.container)
  /\ \/ flags.policy /\ start' = [start EXCEPT !.pc = "image"] /\ UNCHANGED session
     \/ ~flags.policy /\ BecomeActive(None)
  /\ UNCHANGED <<ctr, flags, host, egressVars, stop, calls>>

\* Mutant: the poll has no deadline.
WaitTimesOutNever == FALSE

\* its deadline passes; createSandboxContainer throws, the container stays
WaitTimesOut ==
  /\ start.pc = "wait"
  /\ MayReportDown(start.container)
  /\ GiveUpStart
  /\ UNCHANGED <<ctr, flags, host, egressVars, stop, calls>>

-----------------------------------------------------------------------------
(***************************************************************************)
(* session_start with an egress policy: startEgressProxy                   *)
(***************************************************************************)
\* any failure: the catch block removes the workload, and only the workload
ProxyFails == start' = [start EXCEPT !.pc = "cleanup"]

\* resolveProxyImage: the override, the local image, or a pull
ResolveImage ==
  /\ start.pc = "image"
  /\ start' = [start EXCEPT !.pc = "runProxy"] \/ ProxyFails
  /\ UNCHANGED <<ctr, flags, host, session, egressVars, stop, calls>>

\* docker run of the proxy in the network namespace of the workload
RunProxyReturns ==
  /\ start.pc = "runProxy"
  /\ \/ /\ Running(start.container)
        /\ \E p \in Proxies :
             /\ Runs(p)
             /\ start' = [start EXCEPT !.pc = "waitProxy", !.proxy = p]
     \/ RunFails(Proxies) /\ ProxyFails
  /\ UNCHANGED <<flags, host, session, egressVars, stop, calls>>

\* waitForProxyReady reads the marker in the running proxy
WaitProxySucceeds ==
  /\ start.pc = "waitProxy"
  /\ MayReportUp(start.proxy) /\ start.proxy \in marker
  /\ start' = [start EXCEPT !.pc = "cert"]
  /\ UNCHANGED <<ctr, flags, host, session, egressVars, stop, calls>>

\* "stopped unexpectedly", or not ready before the deadline
WaitProxyFails ==
  /\ start.pc = "waitProxy"
  /\ MayReportDown(start.proxy) \/ start.proxy \notin marker
  /\ ProxyFails
  /\ UNCHANGED <<ctr, flags, host, session, egressVars, stop, calls>>

\* installProxyCATrust, first command: cat the CA in the proxy (it may be missing)
ReadCert ==
  /\ start.pc = "cert"
  /\ \/ Running(start.proxy) /\ start' = [start EXCEPT !.pc = "install"]
     \/ ProxyFails
  /\ UNCHANGED <<ctr, flags, host, session, egressVars, stop, calls>>

\* Mutant: the handle of the tail is not stored.
StartTailDropsHandle ==
  /\ polling' = polling \cup {start.proxy}
  /\ UNCHANGED auditTailer

\* startEgressProxy's result: the log is polled, the handle kept for the shutdown
StartTail ==
  /\ polling' = polling \cup {start.proxy}
  /\ auditTailer' = start.proxy

\* second command: install it in the workload; then the tail starts and the
\* session is active with no await in between
InstallCert ==
  /\ start.pc = "install"
  /\ Running(start.container)
  /\ trust' = trust \cup {start.container}
  /\ StartTail
  /\ BecomeActive(start.proxy)
  /\ UNCHANGED <<ctr, flags, host, marker, stop, calls>>

InstallCertFails ==
  /\ start.pc = "install"
  /\ Flaky \/ ~Running(start.container)
  /\ ProxyFails
  /\ UNCHANGED <<ctr, flags, host, session, egressVars, stop, calls>>

\* Mutant: after a proxy failure the session goes on without the proxy.
CleanupDegrades ==
  /\ start.pc = "cleanup"
  /\ BecomeActive(None)
  /\ UNCHANGED <<ctr, flags, host, egressVars, stop, calls>>

\* destroySandboxContainer in the catch block, then the failed state
CleanupReturns ==
  /\ start.pc = "cleanup"
  /\ Removes(start.container)
  /\ GiveUpStart
  /\ UNCHANGED <<flags, host, egressVars, stop, calls>>

-----------------------------------------------------------------------------
(***************************************************************************)
(* session_shutdown.  A removal takes effect in the daemon (rmProxy,       *)
(* rmWorkload) before the handler resumes (rmProxyDone, rmWorkloadDone).   *)
(***************************************************************************)
\* the handler is over: the host may open the next session
Closed == host' = "closed" /\ stop' = [pc |-> "idle", arg |-> None]

\* Mutant: the workload is removed and the proxy is left to itself.
BeginStopSkipsProxy ==
  /\ host = "open"
  /\ stop.pc = "idle" /\ start.pc = "idle"
  /\ MayDeliver
  /\ IF session.kind = "active"
       THEN stop' = [pc |-> "rmWorkload", arg |-> session.container] /\ UNCHANGED host
       ELSE Closed
  /\ UNCHANGED <<ctr, flags, session, egressVars, start, calls>>

\* up to the first await; the tail is aborted before the proxy is removed
BeginStop ==
  /\ host = "open"
  /\ stop.pc = "idle"
  /\ IF start.pc = "idle" THEN MayDeliver ELSE "earlyShutdown" \in Adversity
  /\ \/ /\ session.kind # "active"
        /\ Closed
        /\ UNCHANGED polling
     \/ /\ session.kind = "active"
        /\ session.proxy # None /\ auditTailer # None
        /\ polling' = polling \ {auditTailer}
        /\ stop' = [pc |-> "rmProxy", arg |-> session.proxy]
        /\ UNCHANGED host
     \/ /\ session.kind = "active"
        /\ session.proxy = None \/ auditTailer = None
        /\ stop' = [pc |-> "rmWorkload", arg |-> session.container]
        /\ UNCHANGED <<host, polling>>
  /\ UNCHANGED <<ctr, flags, session, auditTailer, marker, trust, start, calls>>

\* docker rm -f, in the daemon
RemoveReturns ==
  /\ stop.pc \in {"rmProxy", "rmWorkload"}
  /\ IF stop.arg = None THEN UNCHANGED ctr ELSE Removes(stop.arg)
  /\ stop' = [stop EXCEPT !.pc = IF @ = "rmProxy" THEN "rmProxyDone" ELSE "rmWorkloadDone"]
  /\ UNCHANGED <<flags, host, session, egressVars, start, calls>>

\* Mutant: the handler returns after the proxy, leaving the workload.
ResumeAfterProxyStops ==
  /\ stop.pc = "rmProxyDone"
  /\ auditTailer' = None
  /\ session' = State("pending")
  /\ Closed
  /\ UNCHANGED <<ctr, flags, polling, marker, trust, start, calls>>

\* state.container is read again: a call may have replaced the state meanwhile,
\* and then the command removes "undefined", whose failure the helper swallows
ResumeAfterProxy ==
  /\ stop.pc = "rmProxyDone"
  /\ auditTailer' = None
  /\ stop' = [pc |-> "rmWorkload", arg |-> session.container]
  /\ UNCHANGED <<ctr, flags, host, session, polling, marker, trust, start, calls>>

ResumeAfterWorkload ==
  /\ stop.pc = "rmWorkloadDone"
  /\ session' = State("pending")
  /\ Closed
  /\ UNCHANGED <<ctr, flags, egressVars, start, calls>>

-----------------------------------------------------------------------------
(***************************************************************************)
(* requireContainer, at the head of every tool override and of user_bash   *)
(***************************************************************************)
Goto(c, pc) == calls' = [calls EXCEPT ![c].pc = pc]

\* null or undefined is falsy: the override falls back to the local tool
Fallback(container) == IF container = None THEN Host ELSE container

\* the call is routed: a container, Host, or None when requireContainer throws
Finish(c, route) == calls' = [calls EXCEPT ![c].pc = "done", ![c].route = route]

\* Mutant: a failed sandbox degrades to local execution.
BeginCallDegrades(c) ==
  /\ host = "open"
  /\ calls[c].pc = "idle"
  /\ MayDeliver
  /\ \/ session.kind # "active" /\ Finish(c, Fallback(None))
     \/ /\ session.kind = "active"
        /\ calls' = [calls EXCEPT ![c].pc = "inspect", ![c].name = session.container]
  /\ UNCHANGED <<ctr, flags, host, session, egressVars, start, stop>>

BeginCall(c) ==
  /\ host = "open"
  /\ calls[c].pc = "idle"
  /\ MayDeliver
  /\ \/ session.kind = "disabled" /\ Finish(c, Fallback(None))
     \/ session.kind \in {"pending", "failed"} /\ Finish(c, None)
     \/ /\ session.kind = "active"
        /\ calls' = [calls EXCEPT ![c].pc = "inspect", ![c].name = session.container]
  /\ UNCHANGED <<ctr, flags, host, session, egressVars, start, stop>>

\* docker inspect, in the daemon
InspectReturns(c) ==
  /\ calls[c].pc = "inspect"
  /\ \/ MayReportUp(calls[c].name) /\ Goto(c, "up")
     \/ MayReportDown(calls[c].name) /\ Goto(c, "down")
  /\ UNCHANGED <<ctr, flags, host, session, egressVars, start, stop>>

\* not running: the handler issues docker start
TryRestart(c) ==
  /\ calls[c].pc = "down"
  /\ Goto(c, "starting")
  /\ UNCHANGED <<ctr, flags, host, session, egressVars, start, stop>>

\* docker start, in the daemon; that pi.exec did not throw counts as success
RestartReturns(c) ==
  /\ calls[c].pc = "starting"
  /\ \/ StartSucceeds(calls[c].name) /\ Goto(c, "started")
     \/ StartFails(calls[c].name) /\ Goto(c, "dead")
     \/ "execResolves" \in Adversity /\ StartFails(calls[c].name) /\ Goto(c, "started")
  /\ UNCHANGED <<flags, host, session, egressVars, start, stop>>

\* ensureContainerRunning was true: state.container is read again
Return(c) ==
  /\ calls[c].pc \in {"up", "started"}
  /\ Finish(c, Fallback(session.container))
  /\ UNCHANGED <<ctr, flags, host, session, egressVars, start, stop>>

\* it was false: whatever the state has become, it is now failed
Refuse(c) ==
  /\ calls[c].pc = "dead"
  /\ session' = State("failed")
  /\ Finish(c, None)
  /\ UNCHANGED <<ctr, flags, host, egressVars, start, stop>>

\* the tool has run and the host makes its next call
Collect(c) ==
  /\ calls[c].pc = "done"
  /\ calls' = [calls EXCEPT ![c] = [pc |-> "idle", name |-> None, route |-> None]]
  /\ UNCHANGED <<ctr, flags, host, session, egressVars, start, stop>>

-----------------------------------------------------------------------------
(***************************************************************************)
(* What happens around the extension                                       *)
(***************************************************************************)
\* the entrypoint of a running proxy has finished its setup
ProxyReady(p) ==
  /\ Running(p)
  /\ p \notin marker
  /\ marker' = marker \cup {p}
  /\ UNCHANGED <<ctr, flags, host, session, auditTailer, polling, trust, start, stop, calls>>

ContainerStops(n) ==
  /\ Crash(n)
  /\ UNCHANGED <<flags, host, session, egressVars, start, stop, calls>>

ContainerReaped(n) ==
  /\ Reap(n)
  /\ UNCHANGED <<flags, host, session, egressVars, start, stop, calls>>

\* killed, or crashed: no handler runs, and the polls die with the process
HostDies ==
  /\ "hostCrash" \in Adversity
  /\ host # "dead"
  /\ host' = "dead"
  /\ polling' = {}
  /\ UNCHANGED <<ctr, flags, session, auditTailer, marker, trust, start, stop, calls>>

-----------------------------------------------------------------------------
StartStep ==
  \/ ProbeOrBuildReturns \/ RunReturns \/ WaitSucceeds \/ WaitTimesOut
  \/ ResolveImage \/ RunProxyReturns \/ WaitProxySucceeds \/ WaitProxyFails
  \/ ReadCert \/ InstallCert \/ InstallCertFails \/ CleanupReturns

StopStep == RemoveReturns \/ ResumeAfterProxy \/ ResumeAfterWorkload

CallStep(c) ==
  InspectReturns(c) \/ TryRestart(c) \/ RestartReturns(c) \/ Return(c) \/ Refuse(c)

\* the handlers of the extension, while its process lives
Handlers ==
  /\ host # "dead"
  /\ \/ BeginStart \/ StartStep \/ BeginStop \/ StopStep
     \/ \E c \in Calls : BeginCall(c) \/ CallStep(c) \/ Collect(c)

Environment ==
  \/ \E p \in Proxies : ProxyReady(p)
  \/ \E n \in Names : ContainerStops(n) \/ ContainerReaped(n)
  \/ HostDies

Next == Handlers \/ Environment

Spec == Init /\ [][Next]_vars

\* docker commands return and the event loop runs what they resume; the daemon
\* completes --rm.  Nothing else must happen: no event, no readiness, no crash.
FairSpec ==
  /\ Spec
  /\ WF_vars(host # "dead" /\ StartStep)
  /\ WF_vars(host # "dead" /\ StopStep)
  /\ \A c \in Calls : WF_vars(host # "dead" /\ CallStep(c))
  /\ \A n \in Names : WF_vars(ContainerReaped(n))
-----------------------------------------------------------------------------
(***************************************************************************)
(* Properties                                                              *)
(***************************************************************************)
\* A call runs on the host only if the user passed --no-sandbox: whatever the
\* shutdown, a crash or another call did to the state while it was checking
\* its container (index.ts 264-288 and the `if (!cn)` of every override).
FailClosed ==
  \A c \in Calls : calls[c].route = Host => flags.noSandbox

\* What makes FailClosed inductive while handlers do not overlap: at most one
\* call is checking, no other handler is suspended, and the state it will read
\* again when docker answers is the one it started from.
SerialInv ==
  /\ session.kind = "disabled" => flags.noSandbox
  /\ session.kind = "active" => session.container \in Workloads
  /\ \A c \in Calls : calls[c].pc \in CheckingPc =>
       /\ session.kind = "active" /\ calls[c].name = session.container
       /\ start.pc = "idle" /\ stop.pc = "idle"
       /\ \A d \in Calls : calls[d].pc \in CheckingPc => d = c
  /\ FailClosed

\* With a policy, no call reaches a container in which the proxy's set-up was
\* not completed to its last step, however session_start was interrupted,
\* failed half-way or was followed by another session (index.ts 178-215).
EgressBeforeUse ==
  \A c \in Calls : flags.policy /\ calls[c].route \in Workloads => calls[c].route \in trust

\* What makes EgressBeforeUse inductive: an active session under a policy has
\* its CA in the workload, and only an active session names a container.
EgressInv ==
  /\ session.kind # "active" => session.container = None
  /\ flags.policy /\ session.kind = "active" => session.container \in trust
  /\ EgressBeforeUse

\* While a session with a proxy is active its audit log is tailed, and the
\* handle the shutdown needs is the handle of that proxy's tail, not one a
\* previous session left in the module variable (index.ts 86, 185, 233-235).
AuditTailed ==
  (session.kind = "active" /\ session.proxy # None /\ stop.pc = "idle")
     => auditTailer = session.proxy /\ (host # "dead" => session.proxy \in polling)

\* there was no such container, or it has been removed
Over(n) == n # None => ctr[n] = "gone"

\* The shutdown removes the workload only after the proxy that lives in its
\* network namespace (index.ts 232-237).
ProxyGoneFirst ==
  stop.pc \in {"rmWorkload", "rmWorkloadDone"} /\ start.proxy # None
     => ~Running(start.proxy)

\* When a shutdown has returned to "pending", nothing of the session it ended
\* is left: no container runs and nobody polls its log (index.ts 230-240).
NothingLeftBehind ==
  (host = "closed" /\ start.pc = "idle" /\ session.kind = "pending")
     => /\ ~Running(start.container) /\ ~Running(start.proxy)
        /\ start.proxy \notin polling

\* What makes the last two inductive while handlers do not overlap: the active
\* session's containers are those of the last session_start, the shutdown works
\* on them one after the other, and a container it has removed stays removed.
ShutdownInv ==
  /\ start.pc \in {"probe", "build", "run", "wait", "image", "runProxy"} => start.proxy = None
  /\ \A n \in {start.container, start.proxy} \ {None} : ctr[n] # "unused"
  /\ session.kind = "active" =>
       session.container = start.container /\ session.proxy = start.proxy
  /\ stop.pc # "idle" => session.kind = "active" /\ start.proxy \notin polling
  /\ stop.pc = "rmProxy" => stop.arg = start.proxy
  /\ stop.pc = "rmWorkload" => stop.arg = start.container
  /\ stop.pc \in {"rmProxyDone", "rmWorkload", "rmWorkloadDone"} => Over(start.proxy)
  /\ stop.pc = "rmWorkloadDone" => Over(start.container)
  /\ host = "open" /\ start.pc = "idle" => session.kind # "pending"
  /\ host = "closed" /\ start.pc = "idle" /\ session.kind = "pending" =>
       Over(start.container) /\ Over(start.proxy) /\ start.proxy \notin polling

\* "Ephemeral lifecycle - created on session_start, destroyed on
\* session_shutdown" (README.md 18): between sessions no container runs.
EphemeralContainers ==
  (host = "closed" /\ start.pc = "idle") => \A n \in Names : ~Running(n)

\* A handler never waits for ever: session_start ends active, failed or
\* disabled, session_shutdown ends, and a call is routed or refused, if docker
\* commands return (index.ts 117-288).
HandlersReturn ==
  /\ start.pc # "idle" ~> (start.pc = "idle" \/ host = "dead")
  /\ stop.pc # "idle" ~> (stop.pc = "idle" \/ host = "dead")
  /\ \A c \in Calls :
       calls[c].pc \in CheckingPc ~> (calls[c].pc \notin CheckingPc \/ host = "dead")

\* The session as a box that is opened, used and closed (module Containment).
Routing ==
  INSTANCE Containment WITH
    Boxes <- Workloads, optOut <- flags.noSandbox, policy <- flags.policy,
    box <- session.container, prepared <- trust,
    route <- [c \in Calls |-> calls[c].route]

\* While the host runs one handler at a time, every step of the extension is a
\* step of Containment or none: a call goes to the container that is the
\* session's at that moment, sessions do not run into each other, and with a
\* policy a container opens only after its egress set-up (index.ts 117-288).
ImplementsContainment == Routing!Spec

\* What the refinement needs besides SerialInv and EgressInv: a session starts
\* with no other one active, and a call has no route before it is let through.
OneAtATime ==
  /\ start.pc # "idle" => host # "closed" /\ session.kind # "active" /\ stop.pc = "idle"
  /\ host = "closed" => session.kind # "active"
  /\ \A c \in Calls : calls[c].pc # "done" => calls[c].route = None
=============================================================================
