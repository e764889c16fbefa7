---------------------------- MODULE SessionProofs ----------------------------
(***************************************************************************)
(* Proofs about Session, for every set of containers and of calls.         *)
(***************************************************************************)
EXTENDS Session, TLAPS

-----------------------------------------------------------------------------
(***************************************************************************)
(* Type correctness                                                        *)
(***************************************************************************)
\* Every state of the extension and of the docker engine has its declared shape
\* (the SandboxState union of index.ts 79-83 and the suspended handlers).
THEOREM TypeCorrect == Spec => []TypeOK
<1>1. Init => TypeOK
  BY DockerAssumption, SessionAssumption
  DEF Init, TypeOK, DockerInit, DockerTypeOK, Status, State, StartPc, StopPc, CallPc
<1>2. TypeOK /\ [Next]_vars => TypeOK'
  <2> SUFFICES ASSUME TypeOK, [Next]_vars PROVE TypeOK'
    OBVIOUS
  <2> USE DockerAssumption, SessionAssumption
      DEF TypeOK, DockerTypeOK, Names, Status, State, StartPc, StopPc, CallPc
  <2>1. CASE BeginStart
    BY <2>1 DEF BeginStart, egressVars
  <2>2. CASE ProbeOrBuildReturns
    BY <2>2 DEF ProbeOrBuildReturns, GiveUpStart, egressVars
  <2>3. CASE RunReturns
    <3>0. start.pc = "run" /\ UNCHANGED <<flags, host, egressVars, stop, calls>>
      BY <2>3 DEF RunReturns
    <3>1. ASSUME NEW n \in Workloads, Runs(n),
                 start' = [start EXCEPT !.pc = "wait", !.container = n], UNCHANGED session
          PROVE  TypeOK'
      <4>1. ctr' \in [Names -> Status]
        BY <3>1 DEF Runs
      <4>2. UNCHANGED <<flags, host, auditTailer, polling, marker, trust, stop, calls>>
        BY <3>0 DEF egressVars
      <4>3. start'.pc = "wait" /\ start'.container = n /\ start'.proxy = start.proxy
        BY <3>1
      <4>4. start' \in [pc : StartPc, container : Workloads \cup {None}, proxy : Proxies \cup {None}]
        BY <3>1
      <4>5. QED
        BY <3>1, <4>1, <4>2, <4>3, <4>4
    <3>2. CASE RunFails(Workloads) /\ GiveUpStart
      <4>1. DockerTypeOK'
        BY <3>2 DEF RunFails, Runs
      <4>2. QED
        BY <2>3, <3>2, <4>1 DEF RunReturns, GiveUpStart, egressVars
    <3>3. QED
      BY <2>3, <3>1, <3>2 DEF RunReturns
  <2>4. CASE WaitSucceeds
    BY <2>4 DEF WaitSucceeds, BecomeActive, egressVars
  <2>5. CASE WaitTimesOut
    BY <2>5 DEF WaitTimesOut, GiveUpStart, egressVars
  <2>6. CASE ResolveImage
    BY <2>6 DEF ResolveImage, ProxyFails, egressVars
  <2>7. CASE RunProxyReturns
    <3>0. start.pc = "runProxy" /\ UNCHANGED <<flags, host, session, egressVars, stop, calls>>
      BY <2>7 DEF RunProxyReturns
    <3>1. ASSUME NEW p \in Proxies, Runs(p),
                 start' = [start EXCEPT !.pc = "waitProxy", !.proxy = p]
          PROVE  TypeOK'
      <4>1. ctr' \in [Names -> Status]
        BY <3>1 DEF Runs
      <4>2. UNCHANGED <<flags, host, session, auditTailer, polling, marker, trust, stop, calls>>
        BY <3>0 DEF egressVars
      <4>3. start'.pc = "waitProxy" /\ start'.container = start.container /\ start'.proxy = p
        BY <3>1
      <4>4. start' \in [pc : StartPc, container : Workloads \cup {None}, proxy : Proxies \cup {None}]
        BY <3>1
      <4>5. QED
        BY <3>0, <4>1, <4>2, <4>3, <4>4
    <3>2. CASE RunFails(Proxies) /\ ProxyFails
      <4>1. DockerTypeOK'
        BY <3>2 DEF RunFails, Runs
      <4>2. QED
        BY <2>7, <3>2, <4>1 DEF RunProxyReturns, ProxyFails, egressVars
    <3>3. QED
      BY <2>7, <3>1, <3>2 DEF RunProxyReturns
  <2>8. CASE WaitProxySucceeds
    BY <2>8 DEF WaitProxySucceeds, egressVars
  <2>9. CASE WaitProxyFails
    BY <2>9 DEF WaitProxyFails, ProxyFails, egressVars
  <2>10. CASE ReadCert
    BY <2>10 DEF ReadCert, ProxyFails, egressVars
  <2>11. CASE InstallCert
    BY <2>11 DEF InstallCert, StartTail, BecomeActive, Running
  <2>12. CASE InstallCertFails
    BY <2>12 DEF InstallCertFails, ProxyFails, egressVars
  <2>13. CASE CleanupReturns
    BY <2>13 DEF CleanupReturns, Removes, GiveUpStart, egressVars
  <2>14. CASE BeginStop
    BY <2>14 DEF BeginStop, Closed
  <2>15. CASE RemoveReturns
    BY <2>15 DEF RemoveReturns, Removes, egressVars
  <2>16. CASE ResumeAfterProxy
    BY <2>16 DEF ResumeAfterProxy, Closed
  <2>17. CASE ResumeAfterWorkload
    BY <2>17 DEF ResumeAfterWorkload, Closed, egressVars
  <2>18. ASSUME NEW c \in Calls, BeginCall(c) PROVE TypeOK'
    BY <2>18 DEF BeginCall, Finish, Fallback, egressVars
  <2>19. ASSUME NEW c \in Calls, CallStep(c) PROVE TypeOK'
    BY <2>19 DEF CallStep, InspectReturns, TryRestart, RestartReturns, Return, Refuse,
                 Goto, Finish, Fallback, StartSucceeds, StartFails, egressVars
  <2>20. ASSUME NEW c \in Calls, Collect(c) PROVE TypeOK'
    BY <2>20 DEF Collect, egressVars
  <2>21. CASE Environment
    BY <2>21 DEF Environment, ProxyReady, ContainerStops, ContainerReaped, HostDies,
                 Crash, Reap, Running, egressVars
  <2>22. CASE UNCHANGED vars
    BY <2>22 DEF vars, egressVars
  <2>23. QED
    BY <2>1, <2>2, <2>3, <2>4, <2>5, <2>6, <2>7, <2>8, <2>9, <2>10, <2>11, <2>12, <2>13,
       <2>14, <2>15, <2>16, <2>17, <2>18, <2>19, <2>20, <2>21, <2>22
    DEF Next, Handlers, StartStep, StopStep
<1>3. QED
  BY <1>1, <1>2, PTL DEF Spec

-----------------------------------------------------------------------------
(***************************************************************************)
(* What a step can do to the session and to the routes                     *)
(***************************************************************************)
\* The state is replaced by one without a container, or, at the last statement
\* of session_start, by an active one; under a policy its CA is installed.
LEMMA SessionStep ==
  ASSUME TypeOK, [Next]_vars
  PROVE  /\ UNCHANGED flags /\ trust \subseteq trust'
         /\ \/ UNCHANGED session
            \/ session' \in {State("failed"), State("pending")}
            \/ session' = State("disabled") /\ flags.noSandbox
            \/ /\ session'.kind = "active" /\ start.container \in Workloads
               /\ session'.container = start.container
               /\ flags.policy => start.container \in trust'
<1> DEFINE Goal ==
      /\ UNCHANGED flags /\ trust \subseteq trust'
      /\ \/ UNCHANGED session
         \/ session' \in {State("failed"), State("pending")}
         \/ session' = State("disabled") /\ flags.noSandbox
         \/ /\ session'.kind = "active" /\ start.container \in Workloads
            /\ session'.container = start.container
            /\ flags.policy => start.container \in trust'
<1>1. CASE BeginStart
  BY <1>1 DEF BeginStart, egressVars
<1>2. CASE StartStep
  <2>1. CASE ProbeOrBuildReturns \/ RunReturns \/ WaitTimesOut \/ CleanupReturns
    BY <2>1 DEF ProbeOrBuildReturns, RunReturns, WaitTimesOut, CleanupReturns, GiveUpStart,
                egressVars
  <2>2. CASE ResolveImage \/ RunProxyReturns \/ WaitProxySucceeds \/ WaitProxyFails
             \/ ReadCert \/ InstallCertFails
    BY <2>2 DEF ResolveImage, RunProxyReturns, WaitProxySucceeds, WaitProxyFails, ReadCert,
                InstallCertFails, egressVars
  <2>3. CASE WaitSucceeds
    BY <2>3 DEF WaitSucceeds, BecomeActive, egressVars, TypeOK, StartPc
  <2>4. CASE InstallCert
    BY <2>4 DEF InstallCert, BecomeActive, TypeOK, StartPc
  <2>5. QED
    BY <1>2, <2>1, <2>2, <2>3, <2>4 DEF StartStep
<1>3. CASE BeginStop
  BY <1>3 DEF BeginStop
<1>4. CASE StopStep
  BY <1>4 DEF StopStep, RemoveReturns, ResumeAfterProxy, ResumeAfterWorkload, egressVars
<1>5. ASSUME NEW c \in Calls, BeginCall(c) \/ CallStep(c) \/ Collect(c) PROVE Goal
  BY <1>5 DEF BeginCall, CallStep, InspectReturns, TryRestart, RestartReturns, Return, Refuse,
              Collect, egressVars
<1>6. CASE Environment
  BY <1>6 DEF Environment, ProxyReady, ContainerStops, ContainerReaped, HostDies, egressVars
<1>7. CASE UNCHANGED vars
  BY <1>7 DEF vars, egressVars
<1>8. QED
  BY <1>1, <1>2, <1>3, <1>4, <1>5, <1>6, <1>7 DEF Next, Handlers

\* A call is routed to nothing, to the host, or to what the session names then.
LEMMA RouteStep ==
  ASSUME TypeOK, [Next]_vars, NEW c \in Calls
  PROVE  calls'[c].route \in {calls[c].route, None, Host, session.container}
<1> DEFINE Goal == calls'[c].route \in {calls[c].route, None, Host, session.container}
<1>1. CASE UNCHANGED calls
  BY <1>1
<1>2. ASSUME NEW d \in Calls, BeginCall(d) \/ CallStep(d) \/ Collect(d) PROVE Goal
  BY <1>2 DEF BeginCall, CallStep, InspectReturns, TryRestart, RestartReturns, Return, Refuse,
              Collect, Goto, Finish, Fallback, TypeOK
<1>3. CASE BeginStart \/ StartStep
  <2>1. UNCHANGED calls
    BY <1>3 DEF BeginStart, StartStep, ProbeOrBuildReturns, RunReturns, WaitSucceeds,
       WaitTimesOut, ResolveImage, RunProxyReturns, WaitProxySucceeds, WaitProxyFails, ReadCert,
       InstallCert, InstallCertFails, CleanupReturns
  <2>2. QED
    BY <1>1, <2>1
<1>4. CASE BeginStop \/ StopStep \/ Environment \/ UNCHANGED vars
  <2>1. UNCHANGED calls
    BY <1>4 DEF BeginStop, StopStep, RemoveReturns, ResumeAfterProxy, ResumeAfterWorkload,
       Environment, ProxyReady, ContainerStops, ContainerReaped, HostDies, vars
  <2>2. QED
    BY <1>1, <2>1
<1>5. QED
  BY <1>2, <1>3, <1>4 DEF Next, Handlers

-----------------------------------------------------------------------------
(***************************************************************************)
(* No container is used before its egress set-up is complete               *)
(***************************************************************************)
\* An active session under a policy names a prepared workload, and no other
\* session names one, whatever overlaps, fails or dies (index.ts 178-215).
THEOREM EgressInvHolds == Spec => []EgressInv
<1>1. Init => EgressInv
  BY DockerAssumption DEF Init, EgressInv, EgressBeforeUse, State, Names
<1>2. TypeOK /\ EgressInv /\ [Next]_vars => EgressInv'
  <2> SUFFICES ASSUME TypeOK, EgressInv, [Next]_vars PROVE EgressInv'
    OBVIOUS
  <2>1. UNCHANGED flags /\ trust \subseteq trust'
    BY SessionStep
  <2>2. session'.kind # "active" => session'.container = None
    BY SessionStep DEF EgressInv, State
  <2>3. flags'.policy /\ session'.kind = "active" => session'.container \in trust'
    BY SessionStep DEF EgressInv, State
  <2>4. ASSUME NEW c \in Calls, flags'.policy, calls'[c].route \in Workloads
        PROVE  calls'[c].route \in trust'
    <3>1. calls'[c].route \in {calls[c].route, session.container}
      BY <2>4, RouteStep, DockerAssumption, SessionAssumption DEF Names
    <3>2. CASE calls'[c].route = calls[c].route
      BY <2>1, <2>4, <3>2 DEF EgressInv, EgressBeforeUse
    <3>3. CASE calls'[c].route = session.container
      BY <2>1, <2>4, <3>3, DockerAssumption DEF EgressInv, Names
    <3>4. QED
      BY <3>1, <3>2, <3>3
  <2>5. QED
    BY <2>2, <2>3, <2>4 DEF EgressInv, EgressBeforeUse
<1>3. QED
  BY <1>1, <1>2, TypeCorrect, PTL DEF Spec

\* With a policy a call only reaches a workload in which the last step of the
\* set-up succeeded (index.ts 178-215).
THEOREM EgressBeforeUseHolds == Spec => []EgressBeforeUse
<1>1. EgressInv => EgressBeforeUse
  BY DEF EgressInv
<1>2. QED
  BY <1>1, EgressInvHolds, PTL

-----------------------------------------------------------------------------
(***************************************************************************)
(* Fail-closed routing, when the host runs one handler at a time           *)
(***************************************************************************)
Serial == "parallel" \notin Adversity

NoneChecking == \A c \in Calls : calls[c].pc \notin CheckingPc

\* When handlers do not overlap, only the steps of a call itself and the
\* environment find a call suspended.
LEMMA OthersFindNoneChecking ==
  ASSUME Serial, TypeOK, SerialInv, BeginStart \/ StartStep \/ BeginStop \/ StopStep
  PROVE  NoneChecking /\ UNCHANGED calls
<1>1. CASE BeginStart
  BY <1>1 DEF Serial, BeginStart, MayDeliver, Quiet, NoneChecking
<1>2. CASE StartStep
  <2>1. start.pc # "idle" /\ UNCHANGED calls
    BY <1>2 DEF StartStep, ProbeOrBuildReturns, RunReturns, WaitSucceeds,
       WaitTimesOut, ResolveImage, RunProxyReturns, WaitProxySucceeds, WaitProxyFails, ReadCert,
       InstallCert, InstallCertFails, CleanupReturns
  <2>2. QED
    BY <2>1 DEF SerialInv, NoneChecking
<1>3. CASE BeginStop
  BY <1>3 DEF Serial, BeginStop, MayDeliver, Quiet, NoneChecking, SerialInv
<1>4. CASE StopStep
  BY <1>4 DEF StopStep, RemoveReturns, ResumeAfterProxy, ResumeAfterWorkload, SerialInv,
              NoneChecking
<1>5. QED
  BY <1>1, <1>2, <1>3, <1>4

\* A call finds, when docker has answered, the session it began with, as long
\* as the host delivers no event while a handler is suspended (index.ts 264-288).
THEOREM SerialInvHolds == Serial => (Spec => []SerialInv)
<1> SUFFICES ASSUME Serial PROVE Spec => []SerialInv
  OBVIOUS
<1>1. Init => SerialInv
  BY DockerAssumption, SessionAssumption
  DEF Init, SerialInv, FailClosed, State, CheckingPc, CallPc
<1>2. TypeOK /\ SerialInv /\ [Next]_vars => SerialInv'
  <2> SUFFICES ASSUME TypeOK, SerialInv, [Next]_vars PROVE SerialInv'
    OBVIOUS
  <2>1. session'.kind = "disabled" => flags'.noSandbox
    BY SessionStep DEF SerialInv, State
  <2>2. session'.kind = "active" => session'.container \in Workloads
    BY SessionStep DEF SerialInv, State
  <2> DEFINE Single ==
        \A c \in Calls : calls[c].pc \in CheckingPc =>
          /\ session.kind = "active" /\ calls[c].name = session.container
          /\ start.pc = "idle" /\ stop.pc = "idle"
          /\ \A d \in Calls : calls[d].pc \in CheckingPc => d = c
  <2>3. CASE BeginStart \/ StartStep \/ BeginStop \/ StopStep
    <3>1. NoneChecking /\ UNCHANGED calls
      BY <2>3, OthersFindNoneChecking
    <3>2. UNCHANGED flags
      BY SessionStep
    <3>3. QED
      BY <2>1, <2>2, <3>1, <3>2 DEF SerialInv, NoneChecking, FailClosed
  <2>4. ASSUME NEW c \in Calls, BeginCall(c) PROVE SerialInv'
    <3>1. NoneChecking /\ start.pc = "idle" /\ stop.pc = "idle"
      BY <2>4 DEF Serial, BeginCall, MayDeliver, Quiet, NoneChecking
    <3>2. UNCHANGED <<flags, session, start, stop>>
      BY <2>4 DEF BeginCall
    <3>3. Single'
      BY <2>4, <3>1, <3>2 DEF BeginCall, Finish, NoneChecking, CheckingPc, TypeOK
    <3>4. FailClosed'
      <4>1. CASE session.kind = "disabled"
        BY <2>1, <3>2, <4>1 DEF FailClosed
      <4>2. CASE session.kind # "disabled"
        <5>1. \A d \in Calls : calls'[d].route \in {calls[d].route, None}
          BY <2>4, <4>2 DEF BeginCall, Finish, TypeOK
        <5>2. QED
          BY <3>2, <5>1, SessionAssumption DEF FailClosed, SerialInv
      <4>3. QED
        BY <4>1, <4>2
    <3>5. QED
      BY <2>1, <2>2, <3>3, <3>4 DEF SerialInv
  <2>5. ASSUME NEW c \in Calls, CallStep(c) PROVE SerialInv'
    <3>1. /\ calls[c].pc \in CheckingPc
          /\ \A d \in Calls \ {c} : calls[d].pc \notin CheckingPc /\ calls'[d] = calls[d]
          /\ UNCHANGED <<flags, start, stop>>
      BY <2>5 DEF CallStep, InspectReturns, TryRestart, RestartReturns, Return, Refuse,
                  Goto, Finish, CheckingPc, CallPc, SerialInv, TypeOK
    <3>2. CASE InspectReturns(c) \/ TryRestart(c) \/ RestartReturns(c)
      <4>1. UNCHANGED session /\ calls'[c].name = calls[c].name
                              /\ calls'[c].route = calls[c].route
        BY <3>2 DEF InspectReturns, TryRestart, RestartReturns, Goto, TypeOK
      <4>2. QED
        BY <2>1, <2>2, <3>1, <4>1 DEF SerialInv, FailClosed
    <3>3. CASE Return(c)
      <4>1. session.container \in Workloads
        BY <3>1 DEF SerialInv
      <4>2. calls'[c].pc = "done" /\ calls'[c].route = session.container
        BY <3>3, <4>1, DockerAssumption DEF Return, Finish, Fallback, TypeOK, Names
      <4>3. QED
        BY <2>1, <2>2, <3>1, <4>1, <4>2, SessionAssumption
        DEF SerialInv, FailClosed, CheckingPc, Names
    <3>4. CASE Refuse(c)
      <4>1. calls'[c].pc = "done" /\ calls'[c].route = None
        BY <3>4 DEF Refuse, Finish, TypeOK
      <4>2. QED
        BY <2>1, <2>2, <3>1, <4>1, SessionAssumption DEF SerialInv, FailClosed, CheckingPc
    <3>5. QED
      BY <2>5, <3>2, <3>3, <3>4 DEF CallStep
  <2>6. ASSUME NEW c \in Calls, Collect(c) PROVE SerialInv'
    <3>1. UNCHANGED <<flags, session, start, stop>>
      BY <2>6 DEF Collect
    <3>2. ASSUME NEW d \in Calls
          PROVE  \/ calls'[d] = calls[d]
                 \/ calls'[d].pc = "idle" /\ calls'[d].route = None
      <4>1. CASE d = c
        BY <2>6, <4>1 DEF Collect, TypeOK
      <4>2. CASE d # c
        BY <2>6, <4>2 DEF Collect, TypeOK
      <4>3. QED
        BY <4>1, <4>2
    <3>3. QED
      BY <2>1, <2>2, <3>1, <3>2, SessionAssumption DEF SerialInv, FailClosed, CheckingPc
  <2>7. CASE Environment \/ UNCHANGED vars
    <3>1. UNCHANGED <<flags, session, start, stop, calls>>
      BY <2>7 DEF Environment, ProxyReady, ContainerStops, ContainerReaped, HostDies, vars
    <3>2. QED
      BY <3>1 DEF SerialInv, FailClosed
  <2>8. QED
    BY <2>3, <2>4, <2>5, <2>6, <2>7 DEF Next, Handlers
<1>3. QED
  BY <1>1, <1>2, TypeCorrect, PTL DEF Spec

\* A tool call runs on the host only under --no-sandbox, under the same
\* assumption (index.ts 264-288).
THEOREM FailClosedWhenSerial == Serial => (Spec => []FailClosed)
<1>1. SerialInv => FailClosed
  BY DEF SerialInv
<1>2. QED
  BY <1>1, SerialInvHolds, PTL

-----------------------------------------------------------------------------
(***************************************************************************)
(* The audit log of an active session is tailed                            *)
(***************************************************************************)
\* The tail and its handle belong to the active session's proxy, whichever
\* handlers overlap and whatever earlier sessions left (index.ts 86, 184-185, 233).
THEOREM AuditTailedHolds == Spec => []AuditTailed
<1>1. Init => AuditTailed
  BY DEF Init, AuditTailed, State
<1>2. TypeOK /\ AuditTailed /\ [Next]_vars => AuditTailed'
  <2> SUFFICES ASSUME TypeOK, AuditTailed, [Next]_vars PROVE AuditTailed'
    OBVIOUS
  <2>1. CASE BeginStart
    BY <2>1 DEF BeginStart, AuditTailed, State, egressVars
  <2>2. CASE ProbeOrBuildReturns \/ RunReturns \/ WaitTimesOut \/ CleanupReturns
    <3>1. UNCHANGED <<auditTailer, polling, host, stop>>
          /\ (UNCHANGED session \/ session' = State("failed"))
      BY <2>2 DEF ProbeOrBuildReturns, RunReturns, WaitTimesOut, CleanupReturns, GiveUpStart,
                  egressVars
    <3>2. QED
      BY <3>1 DEF State, AuditTailed
  <2>3. CASE ResolveImage \/ RunProxyReturns \/ WaitProxySucceeds \/ WaitProxyFails
             \/ ReadCert \/ InstallCertFails
    <3>1. UNCHANGED <<auditTailer, polling, host, stop, session>>
      BY <2>3 DEF ResolveImage, RunProxyReturns, WaitProxySucceeds, WaitProxyFails, ReadCert,
                  InstallCertFails, egressVars
    <3>2. QED
      BY <3>1 DEF AuditTailed
  <2>4. CASE WaitSucceeds
    BY <2>4 DEF WaitSucceeds, BecomeActive, AuditTailed, egressVars
  <2>5. CASE InstallCert
    BY <2>5 DEF InstallCert, StartTail, BecomeActive, AuditTailed
  <2>6. CASE BeginStop
    BY <2>6 DEF BeginStop, Closed, AuditTailed
  <2>7. CASE StopStep
    <3>1. session'.kind = "pending" \/ stop'.pc # "idle"
      BY <2>7 DEF StopStep, RemoveReturns, ResumeAfterProxy, ResumeAfterWorkload, State, TypeOK
    <3>2. QED
      BY <3>1 DEF AuditTailed
  <2>8. ASSUME NEW c \in Calls, BeginCall(c) \/ CallStep(c) \/ Collect(c) PROVE AuditTailed'
    BY <2>8 DEF BeginCall, CallStep, InspectReturns, TryRestart, RestartReturns, Return, Refuse,
                Collect, State, AuditTailed, egressVars
  <2>9. CASE Environment \/ UNCHANGED vars
    BY <2>9 DEF Environment, ProxyReady, ContainerStops, ContainerReaped, HostDies, AuditTailed,
                egressVars, vars
  <2>10. QED
    BY <2>1, <2>2, <2>3, <2>4, <2>5, <2>6, <2>7, <2>8, <2>9 DEF Next, Handlers, StartStep
<1>3. QED
  BY <1>1, <1>2, TypeCorrect, PTL DEF Spec
=============================================================================
