-------------------------- MODULE SequentialProofs --------------------------
(***************************************************************************)
(* What Session does while the host delivers no event to a handler that is *)
(* suspended, for every set of containers and calls: it implements         *)
(* Containment, and a shutdown leaves nothing of its session behind.       *)
(***************************************************************************)
EXTENDS SessionProofs

Sequential == Serial /\ "earlyShutdown" \notin Adversity

\* the steps after which a session is active
Opens == WaitSucceeds \/ InstallCert

\* the other steps of session_start and session_shutdown, and the environment
Manages ==
  \/ BeginStart \/ (StartStep /\ ~Opens) \/ BeginStop \/ StopStep
  \/ Environment \/ UNCHANGED vars

\* They leave the calls alone and keep the session or replace it by an inactive one.
LEMMA ManagesStep ==
  ASSUME TypeOK, Manages
  PROVE  /\ UNCHANGED <<flags, calls, trust>>
         /\ session' = session \/ session' \in {State("failed"), State("pending"), State("disabled")}
<1>1. CASE BeginStart
  BY <1>1 DEF BeginStart, egressVars
<1>2. CASE StartStep /\ ~Opens
  BY <1>2 DEF Opens, StartStep, ProbeOrBuildReturns, RunReturns, WaitTimesOut, CleanupReturns,
       GiveUpStart, ResolveImage, RunProxyReturns, WaitProxySucceeds, WaitProxyFails, ReadCert,
       InstallCertFails, egressVars
<1>3. CASE BeginStop
  BY <1>3 DEF BeginStop
<1>4. CASE StopStep
  BY <1>4 DEF StopStep, RemoveReturns, ResumeAfterProxy, ResumeAfterWorkload, egressVars
<1>5. CASE Environment
  BY <1>5 DEF Environment, ProxyReady, ContainerStops, ContainerReaped, HostDies, egressVars
<1>6. CASE UNCHANGED vars
  BY <1>6 DEF vars, egressVars
<1> QED
  BY <1>1, <1>2, <1>3, <1>4, <1>5, <1>6 DEF Manages

\* A session becomes active with the workload its start created.
LEMMA OpensStep ==
  ASSUME TypeOK, Opens
  PROVE  /\ UNCHANGED <<flags, calls, host, stop>>
         /\ trust' = trust \/ trust' = trust \cup {start.container}
         /\ \/ UNCHANGED <<session, trust>> /\ start.pc = "wait" /\ start'.pc = "image"
            \/ /\ start.pc \in {"wait", "install"} /\ start'.pc = "idle"
               /\ session'.kind = "active"
               /\ session'.container = start.container
               /\ flags.policy => start.container \in trust'
<1>1. CASE WaitSucceeds
  BY <1>1 DEF WaitSucceeds, BecomeActive, egressVars, TypeOK
<1>2. CASE InstallCert
  BY <1>2 DEF InstallCert, BecomeActive, TypeOK
<1> QED
  BY <1>1, <1>2 DEF Opens

\* A call takes a route at most once, when it is let through.
LEMMA CallsStep ==
  ASSUME TypeOK, OneAtATime, SerialInv, NEW c \in Calls,
         BeginCall(c) \/ CallStep(c) \/ Collect(c)
  PROVE  /\ UNCHANGED <<flags, host, start, stop, trust>>
         /\ calls' = [calls EXCEPT ![c] = calls'[c]]
         /\ calls'[c].pc # "done" => calls'[c].route = None
         /\ \/ session' = session
            \/ session' = State("failed") /\ calls'[c].route = calls[c].route
         /\ \/ calls'[c].route = calls[c].route
            \/ calls'[c].route = None
            \/ /\ calls[c].route = None
               /\ \/ calls'[c].route = session.container
                  \/ calls'[c].route = Host /\ flags.noSandbox
<1>0. calls[c].pc # "done" => calls[c].route = None
  BY DEF OneAtATime
<1>1. CASE BeginCall(c)
  BY <1>0, <1>1 DEF BeginCall, Finish, Fallback, TypeOK, egressVars, SerialInv
<1>2. CASE InspectReturns(c) \/ TryRestart(c) \/ RestartReturns(c)
  BY <1>0, <1>2 DEF InspectReturns, TryRestart, RestartReturns, Goto, TypeOK, egressVars
<1>3. CASE Return(c)
  <2>1. session.container \in Workloads /\ calls[c].route = None
    BY <1>0, <1>3 DEF Return, SerialInv, CheckingPc, CallPc
  <2>2. Fallback(session.container) = session.container
    BY <2>1, DockerAssumption DEF Fallback, Names
  <2> QED
    BY <1>3, <2>1, <2>2 DEF Return, Finish, TypeOK, egressVars
<1>4. CASE Refuse(c)
  BY <1>0, <1>4 DEF Refuse, Finish, TypeOK, egressVars
<1>5. CASE Collect(c)
  BY <1>5 DEF Collect, TypeOK, egressVars
<1> QED
  BY <1>1, <1>2, <1>3, <1>4, <1>5 DEF CallStep

\* Every step is one of the three sorts.
LEMMA StepSorts ==
  [Next]_vars => \/ Manages \/ Opens
                 \/ \E c \in Calls : BeginCall(c) \/ CallStep(c) \/ Collect(c)
BY DEF Next, Handlers, Manages

-----------------------------------------------------------------------------
\* Sessions do not run into each other, and a call that is not done has no
\* route, when handlers do not overlap (index.ts 117-240).
THEOREM OneAtATimeHolds == Sequential => (Spec => []OneAtATime)
<1> SUFFICES ASSUME Sequential PROVE Spec => []OneAtATime
  OBVIOUS
<1>1. Init => OneAtATime
  BY DEF Init, OneAtATime, State
<1>2. TypeOK /\ SerialInv /\ OneAtATime /\ [Next]_vars => OneAtATime'
  <2> SUFFICES ASSUME TypeOK, SerialInv, OneAtATime, [Next]_vars
               PROVE  OneAtATime'
    OBVIOUS
  <2>1. CASE Manages
    <3>1. UNCHANGED calls /\ (session'.kind = "active" => session' = session)
      BY <2>1, ManagesStep DEF State
    <3>2. start'.pc # "idle"
            => host' # "closed" /\ session'.kind # "active" /\ stop'.pc = "idle"
      <4>1. CASE BeginStart
        BY <4>1 DEF BeginStart, OneAtATime
      <4>2. CASE StartStep
        <5>1. start.pc # "idle" /\ UNCHANGED <<host, stop>>
          BY <4>2 DEF StartStep, ProbeOrBuildReturns, RunReturns, WaitSucceeds, WaitTimesOut,
             ResolveImage, RunProxyReturns, WaitProxySucceeds, WaitProxyFails, ReadCert,
             InstallCert, InstallCertFails, CleanupReturns
        <5> QED
          BY <3>1, <5>1 DEF OneAtATime
      <4>3. CASE BeginStop
        BY <4>3 DEF Sequential, BeginStop, OneAtATime
      <4>4. CASE StopStep
        <5>1. stop.pc # "idle" /\ UNCHANGED start
          BY <4>4 DEF StopStep, RemoveReturns, ResumeAfterProxy, ResumeAfterWorkload
        <5> QED
          BY <5>1 DEF OneAtATime
      <4>5. CASE Environment \/ UNCHANGED vars
        BY <4>5 DEF Environment, ProxyReady, ContainerStops, ContainerReaped, HostDies, vars,
                    OneAtATime
      <4> QED
        BY <2>1, <4>1, <4>2, <4>3, <4>4, <4>5 DEF Manages
    <3>3. host' = "closed" => session'.kind # "active"
      <4>1. CASE StopStep
        BY <4>1 DEF StopStep, RemoveReturns, ResumeAfterProxy, ResumeAfterWorkload, State,
                    OneAtATime
      <4>2. CASE BeginStop
        BY <4>2 DEF BeginStop, OneAtATime
      <4>3. CASE ~StopStep /\ ~BeginStop
        <5>1. host' = "closed" => host = "closed"
          BY <2>1, <4>3 DEF Manages, BeginStart, StartStep, ProbeOrBuildReturns, RunReturns,
             WaitSucceeds, WaitTimesOut, ResolveImage, RunProxyReturns, WaitProxySucceeds,
             WaitProxyFails, ReadCert, InstallCert, InstallCertFails, CleanupReturns,
             Environment, ProxyReady, ContainerStops, ContainerReaped, HostDies, vars
        <5> QED
          BY <3>1, <5>1 DEF OneAtATime
      <4> QED
        BY <4>1, <4>2, <4>3
    <3> QED
      BY <3>1, <3>2, <3>3 DEF OneAtATime
  <2>2. CASE Opens
    BY <2>2, OpensStep DEF OneAtATime
  <2>3. ASSUME NEW c \in Calls, BeginCall(c) \/ CallStep(c) \/ Collect(c)
        PROVE  OneAtATime'
    <3>1. /\ UNCHANGED <<host, start, stop>>
          /\ \A d \in Calls : calls'[d].pc # "done" => calls'[d].route = None
      BY <2>3, CallsStep DEF OneAtATime, TypeOK
    <3>2. session'.kind = "active" => session.kind = "active"
      BY <2>3, CallsStep DEF State
    <3> QED
      BY <3>1, <3>2 DEF OneAtATime
  <2> QED
    BY <2>1, <2>2, <2>3, StepSorts
<1> QED
  BY <1>1, <1>2, TypeCorrect, SerialInvHolds, PTL DEF Spec, Sequential

-----------------------------------------------------------------------------
\* One step of Session is one step of Containment, or none.
LEMMA ContainmentStep ==
  ASSUME TypeOK, SerialInv, EgressInv, OneAtATime, [Next]_vars
  PROVE  [Routing!Next]_(Routing!vars)
<1> USE DEF Routing!vars
<1>1. CASE Manages
  <2>1. UNCHANGED <<flags, calls, trust>>
        /\ (session' = session \/ session'.container = None)
    BY <1>1, ManagesStep DEF State
  <2>2. CASE session'.container = session.container
    BY <2>1, <2>2
  <2>3. CASE session'.container # session.container
    <3>1. Routing!Close
      BY <2>1, <2>3 DEF Routing!Close
    <3> QED
      BY <3>1 DEF Routing!Next
  <2> QED
    BY <2>2, <2>3
<1>2. CASE Opens
  <2>1. UNCHANGED <<flags, calls>>
    BY <1>2, OpensStep
  <2>2. CASE UNCHANGED <<session, trust>>
    BY <2>1, <2>2
  <2>3. CASE ~UNCHANGED <<session, trust>>
    <3>1. /\ start.pc \in {"wait", "install"}
          /\ session'.container = start.container
          /\ trust' \in {trust, trust \cup {start.container}}
          /\ flags.policy => start.container \in trust'
      BY <1>2, <2>3, OpensStep
    <3>2. session.container = None /\ start.container \in Workloads
      BY <3>1 DEF OneAtATime, EgressInv, TypeOK, StartPc
    <3>3. Routing!Open(start.container)
      BY <2>1, <3>1, <3>2 DEF Routing!Open
    <3> QED
      BY <3>2, <3>3 DEF Routing!Next
  <2> QED
    BY <2>2, <2>3
<1>3. ASSUME NEW c \in Calls, BeginCall(c) \/ CallStep(c) \/ Collect(c)
      PROVE  [Routing!Next]_(Routing!vars)
  <2> DEFINE route == [d \in Calls |-> calls[d].route]
  <2>1. /\ UNCHANGED <<flags, trust>>
        /\ route' = [route EXCEPT ![c] = calls'[c].route]
    <3>1. UNCHANGED <<flags, trust>> /\ calls' = [calls EXCEPT ![c] = calls'[c]]
      BY <1>3, CallsStep
    <3>2. \A d \in Calls : d # c => calls'[d] = calls[d]
      BY <3>1 DEF TypeOK
    <3> QED
      BY <3>1, <3>2
  <2>2. CASE calls'[c].route = calls[c].route
    <3>1. route' = route
      BY <2>1, <2>2
    <3>2. CASE session' = session
      BY <2>1, <3>1, <3>2
    <3>3. CASE session'.container = None /\ session.container # None
      BY <2>1, <3>1, <3>3 DEF Routing!Close, Routing!Next
    <3>4. CASE session'.container = None /\ session.container = None
      BY <2>1, <3>1, <3>4
    <3> QED
      BY <1>3, <3>2, <3>3, <3>4, CallsStep DEF State
  <2>3. CASE calls'[c].route # calls[c].route
    <3>1. session' = session
      BY <1>3, <2>3, CallsStep
    <3>2. CASE calls'[c].route = None
      <4>1. Routing!Return(c)
        BY <2>1, <2>3, <3>1, <3>2 DEF Routing!Return
      <4> QED
        BY <4>1 DEF Routing!Next
    <3>3. CASE calls'[c].route # None
      <4>1. /\ calls[c].route = None
            /\ \/ calls'[c].route = session.container
               \/ calls'[c].route = Host /\ flags.noSandbox
        BY <1>3, <2>3, <3>3, CallsStep
      <4>2. Routing!LetThrough(c)
        BY <2>1, <3>1, <3>3, <4>1 DEF Routing!LetThrough
      <4> QED
        BY <4>2 DEF Routing!Next
    <3> QED
      BY <3>2, <3>3
  <2> QED
    BY <2>2, <2>3
<1> QED
  BY <1>1, <1>2, <1>3, StepSorts

\* When handlers do not overlap, the extension with its failing docker commands,
\* dying containers and half-way sessions implements Containment (index.ts 117-288).
THEOREM SessionImplementsContainment == Sequential => (Spec => ImplementsContainment)
<1> SUFFICES ASSUME Sequential PROVE Spec => ImplementsContainment
  OBVIOUS
<1>1. Init => Routing!Init
  BY DEF Init, Routing!Init, State
<1>2. TypeOK /\ SerialInv /\ EgressInv /\ OneAtATime /\ [Next]_vars
        => [Routing!Next]_(Routing!vars)
  BY ContainmentStep
<1> QED
  BY <1>1, <1>2, TypeCorrect, SerialInvHolds, EgressInvHolds, OneAtATimeHolds, PTL
  DEF Spec, Sequential, ImplementsContainment, Routing!Spec

-----------------------------------------------------------------------------
(***************************************************************************)
(* session_shutdown, as long as `docker rm -f` does what it reports        *)
(***************************************************************************)
Reliable == Sequential /\ "rmFails" \notin Adversity

\* A removed container stays removed, and a used name is never fresh again.
LEMMA GoneForGood ==
  ASSUME TypeOK, [Next]_vars, NEW n \in Names
  PROVE  /\ ctr[n] = "gone" => ctr'[n] = "gone"
         /\ ctr[n] # "unused" => ctr'[n] # "unused"
<1> DEFINE Goal == /\ ctr[n] = "gone" => ctr'[n] = "gone"
                   /\ ctr[n] # "unused" => ctr'[n] # "unused"
<1>1. ctr \in [Names -> Status]
  BY DEF TypeOK, DockerTypeOK
<1>2. ASSUME UNCHANGED ctr PROVE Goal
  BY <1>2
<1>3. ASSUME NEW m, Runs(m) PROVE Goal
  BY <1>1, <1>3 DEF Runs
<1>4. ASSUME NEW m, Removes(m) PROVE Goal
  BY <1>1, <1>4 DEF Removes
<1>5. ASSUME NEW m, StartSucceeds(m) PROVE Goal
  BY <1>1, <1>5 DEF StartSucceeds, Running
<1>6. ASSUME NEW m, Crash(m) \/ Reap(m) PROVE Goal
  BY <1>1, <1>6 DEF Crash, Reap
<1>7. CASE StartStep
  <2>1. CASE RunReturns
    BY <1>2, <1>3, <2>1 DEF RunReturns, RunFails
  <2>2. CASE RunProxyReturns
    BY <1>2, <1>3, <2>2 DEF RunProxyReturns, RunFails
  <2>3. CASE CleanupReturns
    BY <1>4, <2>3 DEF CleanupReturns
  <2>4. CASE ProbeOrBuildReturns \/ WaitSucceeds \/ WaitTimesOut \/ ResolveImage
             \/ WaitProxySucceeds \/ WaitProxyFails \/ ReadCert \/ InstallCert \/ InstallCertFails
    BY <1>2, <2>4 DEF ProbeOrBuildReturns, WaitSucceeds, WaitTimesOut, ResolveImage,
       WaitProxySucceeds, WaitProxyFails, ReadCert, InstallCert, InstallCertFails
  <2>5. QED
    BY <1>7, <2>1, <2>2, <2>3, <2>4 DEF StartStep
<1>8. CASE BeginStart \/ BeginStop \/ StopStep
  BY <1>2, <1>4, <1>8 DEF BeginStart, BeginStop, StopStep, RemoveReturns, ResumeAfterProxy,
                          ResumeAfterWorkload
<1>9. ASSUME NEW c \in Calls, BeginCall(c) \/ CallStep(c) \/ Collect(c) PROVE Goal
  BY <1>2, <1>5, <1>9 DEF BeginCall, CallStep, InspectReturns, TryRestart, RestartReturns,
                          StartFails, Return, Refuse, Collect
<1>10. CASE Environment \/ UNCHANGED vars
  BY <1>2, <1>6, <1>10 DEF Environment, ProxyReady, ContainerStops, ContainerReaped, HostDies, vars
<1>11. QED
  BY <1>7, <1>8, <1>9, <1>10 DEF Next, Handlers

\* A step that leaves session_start and session_shutdown where they are, and the
\* session or makes it failed while no shutdown runs.
LEMMA Elsewhere ==
  ASSUME TypeOK, ShutdownInv, [Next]_vars, UNCHANGED <<start, stop>>,
         host' = host \/ host' = "dead", polling' \subseteq polling,
         UNCHANGED session \/ (session' = State("failed") /\ stop.pc = "idle")
  PROVE  ShutdownInv'
<1>1. start.container \in Names \cup {None} /\ start.proxy \in Names \cup {None}
  BY DEF TypeOK, Names
<1>2. ASSUME NEW n \in Names \cup {None}, Over(n) PROVE Over(n)'
  BY <1>2, GoneForGood DEF Over
<1>3. ASSUME NEW n \in {start.container, start.proxy} \ {None} PROVE ctr'[n] # "unused"
  BY <1>1, GoneForGood DEF ShutdownInv
<1>4. (Over(start.container) => Over(start.container)') /\ (Over(start.proxy) => Over(start.proxy)')
  BY <1>1, GoneForGood DEF Over
<1>5. QED
  BY <1>3, <1>4 DEF ShutdownInv, State

\* The shutdown works on the containers of the session it ends, one after the
\* other, and what it has removed stays removed (index.ts 178-215, 225-243).
THEOREM ShutdownInvHolds == Reliable => (Spec => []ShutdownInv)
<1> SUFFICES ASSUME Reliable PROVE Spec => []ShutdownInv
  OBVIOUS
<1>1. Init => ShutdownInv
  BY DockerAssumption DEF Init, ShutdownInv, Over, State
<1>2. TypeOK /\ SerialInv /\ OneAtATime /\ AuditTailed /\ ShutdownInv /\ [Next]_vars
        => ShutdownInv'
  <2> SUFFICES ASSUME TypeOK, SerialInv, OneAtATime, AuditTailed, ShutdownInv, [Next]_vars
               PROVE  ShutdownInv'
    OBVIOUS
  <2>0. None \notin polling /\ None \notin Proxies /\ None \notin Workloads
    BY DockerAssumption DEF TypeOK, Names
  <2>1. CASE BeginStart
    <3>1. session.kind # "active" /\ stop.pc = "idle"
      BY <2>1 DEF BeginStart, OneAtATime
    <3>2. QED
      BY <2>0, <2>1, <3>1 DEF BeginStart, ShutdownInv, State, Over, egressVars
  <2>2. CASE StartStep
    <3>1. /\ stop.pc = "idle" /\ host # "closed" /\ start.pc # "idle"
          /\ session.kind # "active" /\ UNCHANGED <<stop, host>>
      BY <2>2 DEF OneAtATime, StartStep, ProbeOrBuildReturns, RunReturns, WaitSucceeds,
         WaitTimesOut, ResolveImage, RunProxyReturns, WaitProxySucceeds, WaitProxyFails,
         ReadCert, InstallCert, InstallCertFails, CleanupReturns
    <3>2. start \in [pc : StartPc, container : Workloads \cup {None}, proxy : Proxies \cup {None}]
      BY DEF TypeOK
    <3>3. ASSUME NEW n \in {start.container, start.proxy} \ {None} PROVE ctr'[n] # "unused"
      BY <3>2, <3>3, GoneForGood DEF ShutdownInv, Names
    <3> DEFINE EarlyPc == {"probe", "build", "run", "wait", "image", "runProxy"}
               Early == start'.pc \in EarlyPc => start'.proxy = None
               Used == \A n \in {start'.container, start'.proxy} \ {None} : ctr'[n] # "unused"
               Same == session'.kind = "active" =>
                         session'.container = start'.container /\ session'.proxy = start'.proxy
               Settled == start'.pc = "idle" => session'.kind # "pending"
    <3>4. CASE ProbeOrBuildReturns \/ ResolveImage \/ WaitProxySucceeds \/ WaitProxyFails
               \/ ReadCert \/ InstallCertFails \/ CleanupReturns \/ WaitTimesOut
      <4>1. /\ start'.container = start.container /\ start'.proxy = start.proxy
            /\ start'.pc \in EarlyPc => start.pc \in EarlyPc
        BY <2>2, <3>2, <3>4 DEF ProbeOrBuildReturns, ResolveImage, WaitProxySucceeds, WaitProxyFails,
           ReadCert, InstallCertFails, CleanupReturns, WaitTimesOut, ProxyFails, GiveUpStart
      <4>2. session' = State("failed") \/ (UNCHANGED session /\ start'.pc # "idle")
        BY <3>2, <3>4 DEF ProbeOrBuildReturns, ResolveImage, WaitProxySucceeds, WaitProxyFails,
           ReadCert, InstallCertFails, CleanupReturns, WaitTimesOut, ProxyFails, GiveUpStart
      <4>3. Early /\ Used
        BY <3>3, <4>1 DEF ShutdownInv
      <4>4. Same /\ Settled
        BY <3>1, <4>2 DEF State
      <4>5. QED
        BY <3>1, <4>3, <4>4 DEF ShutdownInv
    <3>5. CASE RunReturns
      <4>1. start.proxy = None
        BY <3>5 DEF RunReturns, ShutdownInv
      <4>2. CASE \E n \in Workloads : /\ Runs(n) /\ UNCHANGED session
                                     /\ start' = [start EXCEPT !.pc = "wait", !.container = n]
        <5>1. PICK n \in Workloads : /\ Runs(n) /\ UNCHANGED session
                                      /\ start' = [start EXCEPT !.pc = "wait", !.container = n]
          BY <4>2
        <5>2. ctr'[n] = "running"
          BY <5>1 DEF Runs, TypeOK, DockerTypeOK, Names
        <5>3. start'.pc = "wait" /\ start'.container = n /\ start'.proxy = None
          BY <3>2, <4>1, <5>1
        <5>4. QED
          BY <3>1, <5>1, <5>2, <5>3 DEF ShutdownInv
      <4>3. CASE GiveUpStart
        <5>1. /\ start'.pc = "idle" /\ start'.container = start.container
              /\ start'.proxy = start.proxy /\ session'.kind = "failed"
          BY <3>2, <4>3 DEF GiveUpStart, State
        <5>2. QED
          BY <3>1, <3>3, <5>1 DEF ShutdownInv
      <4>4. QED
        BY <3>5, <4>2, <4>3 DEF RunReturns
    <3>6. CASE RunProxyReturns
      <4>1. CASE \E p \in Proxies : /\ Runs(p)
                                    /\ start' = [start EXCEPT !.pc = "waitProxy", !.proxy = p]
        <5>1. PICK p \in Proxies : /\ Runs(p)
                                    /\ start' = [start EXCEPT !.pc = "waitProxy", !.proxy = p]
          BY <4>1
        <5>2. ctr'[p] = "running"
          BY <5>1 DEF Runs, TypeOK, DockerTypeOK, Names
        <5>3. /\ start'.pc = "waitProxy" /\ start'.container = start.container
              /\ start'.proxy = p
          BY <3>2, <5>1
        <5>4. QED
          BY <3>1, <3>3, <3>6, <5>2, <5>3 DEF RunProxyReturns, ShutdownInv
      <4>2. CASE ProxyFails
        <5>1. /\ start'.pc = "cleanup" /\ start'.container = start.container
              /\ start'.proxy = start.proxy
          BY <3>2, <4>2 DEF ProxyFails
        <5>2. QED
          BY <3>1, <3>3, <3>6, <5>1 DEF RunProxyReturns, ShutdownInv
      <4>3. QED
        BY <3>6, <4>1, <4>2 DEF RunProxyReturns
    <3>7. CASE WaitSucceeds
      <4>1. start.proxy = None
        BY <3>7 DEF WaitSucceeds, ShutdownInv
      <4>2. /\ start'.pc \in {"image", "idle"} /\ start'.container = start.container
            /\ start'.proxy = start.proxy
        BY <3>2, <3>7 DEF WaitSucceeds, BecomeActive
      <4>3. \/ UNCHANGED session /\ start'.pc = "image"
            \/ session' = [kind |-> "active", container |-> start.container, proxy |-> None]
        BY <3>2, <3>7 DEF WaitSucceeds, BecomeActive
      <4>4. QED
        BY <3>1, <3>3, <4>1, <4>2, <4>3 DEF ShutdownInv
    <3>8. CASE InstallCert
      <4>1. /\ start'.pc = "idle" /\ start'.container = start.container
            /\ start'.proxy = start.proxy
        BY <3>2, <3>8 DEF InstallCert, BecomeActive
      <4>2. session' = [kind |-> "active", container |-> start.container, proxy |-> start.proxy]
        BY <3>8 DEF InstallCert, BecomeActive
      <4>3. QED
        BY <3>1, <3>3, <4>1, <4>2 DEF ShutdownInv
    <3>9. QED
      BY <2>2, <3>4, <3>5, <3>6, <3>7, <3>8 DEF StartStep
  <2>3. CASE BeginStop
    <3>1. /\ start.pc = "idle" /\ host = "open" /\ stop.pc = "idle"
          /\ UNCHANGED <<ctr, session, start>> /\ session.kind # "pending"
      BY <2>3 DEF BeginStop, Reliable, Sequential, ShutdownInv
    <3>2. CASE session.kind # "active"
      BY <2>3, <3>1, <3>2 DEF BeginStop, Closed, ShutdownInv, Over
    <3>3. CASE session.kind = "active"
      <4>1. /\ session.container = start.container /\ session.proxy = start.proxy
            /\ start.proxy # None => auditTailer = start.proxy
        BY <3>1, <3>3 DEF ShutdownInv, AuditTailed
      <4>2. CASE start.proxy # None
        <5>1. auditTailer # None
          BY <4>1, <4>2
        <5>2. /\ stop' = [pc |-> "rmProxy", arg |-> start.proxy]
              /\ polling' = polling \ {start.proxy} /\ UNCHANGED host
          BY <2>3, <3>3, <4>1, <4>2, <5>1 DEF BeginStop
        <5>3. QED
          BY <3>1, <3>3, <5>2 DEF ShutdownInv, Over
      <4>3. CASE start.proxy = None
        <5>1. /\ stop' = [pc |-> "rmWorkload", arg |-> start.container]
              /\ polling' = polling /\ UNCHANGED host
          BY <2>3, <3>3, <4>1, <4>3 DEF BeginStop
        <5>2. QED
          BY <2>0, <3>1, <3>3, <4>3, <5>1 DEF ShutdownInv, Over
      <4>4. QED
        BY <4>2, <4>3
    <3>4. QED
      BY <3>2, <3>3
  <2>4. CASE RemoveReturns
    <3>1. /\ UNCHANGED <<host, session, start, polling>>
          /\ ctr \in [Names -> Status]
          /\ start.container \in Names \cup {None} /\ start.proxy \in Names \cup {None}
      BY <2>4 DEF RemoveReturns, egressVars, TypeOK, DockerTypeOK, Names
    <3>2. \A n \in Names :
            ctr'[n] = IF n = stop.arg /\ ctr[n] # "unused" THEN "gone" ELSE ctr[n]
      BY <2>4, <3>1, DockerAssumption DEF RemoveReturns, Removes, Reliable
    <3>3. \A n \in {start.container, start.proxy} \ {None} : ctr'[n] # "unused"
      BY <3>1, <3>2 DEF ShutdownInv
    <3>4. CASE stop.pc = "rmProxy"
      <4>1. stop.arg = start.proxy /\ stop' = [stop EXCEPT !.pc = "rmProxyDone"]
        BY <2>4, <3>4 DEF RemoveReturns, ShutdownInv
      <4>2. Over(start.proxy)'
        BY <3>1, <3>2, <4>1 DEF Over, ShutdownInv
      <4>3. stop'.pc = "rmProxyDone"
        BY <4>1 DEF TypeOK
      <4>4. QED
        BY <3>1, <3>3, <3>4, <4>2, <4>3 DEF ShutdownInv
    <3>5. CASE stop.pc = "rmWorkload"
      <4>1. stop.arg = start.container /\ stop' = [stop EXCEPT !.pc = "rmWorkloadDone"]
        BY <2>4, <3>5 DEF RemoveReturns, ShutdownInv
      <4>2. Over(start.container)'
        BY <3>1, <3>2, <4>1 DEF Over, ShutdownInv
      <4>3. Over(start.proxy)'
        BY <3>1, <3>2, <3>5 DEF Over, ShutdownInv
      <4>4. stop'.pc = "rmWorkloadDone"
        BY <4>1 DEF TypeOK
      <4>5. QED
        BY <3>1, <3>3, <3>5, <4>2, <4>3, <4>4 DEF ShutdownInv
    <3>6. QED
      BY <2>4, <3>4, <3>5 DEF RemoveReturns
  <2>5. CASE ResumeAfterProxy
    <3>1. session.container = start.container /\ stop.pc = "rmProxyDone"
      BY <2>5 DEF ResumeAfterProxy, ShutdownInv
    <3>2. /\ stop' = [pc |-> "rmWorkload", arg |-> start.container]
          /\ UNCHANGED <<host, session, ctr, start, polling>>
      BY <2>5, <3>1 DEF ResumeAfterProxy
    <3>3. QED
      BY <3>1, <3>2 DEF ShutdownInv, Over
  <2>6. CASE ResumeAfterWorkload
    BY <2>6 DEF ResumeAfterWorkload, Closed, ShutdownInv, Over, State, egressVars
  <2>7. ASSUME NEW c \in Calls, BeginCall(c) \/ CallStep(c) \/ Collect(c) PROVE ShutdownInv'
    <3>1. /\ UNCHANGED <<host, start, stop, polling>>
          /\ UNCHANGED session \/ (session' = State("failed") /\ calls[c].pc = "dead")
      BY <2>7 DEF BeginCall, CallStep, InspectReturns, TryRestart, RestartReturns, Return, Refuse,
                  Collect, egressVars
    <3>2. calls[c].pc = "dead" => stop.pc = "idle"
      BY DEF SerialInv, CheckingPc, CallPc
    <3>3. QED
      BY <3>1, <3>2, Elsewhere
  <2>8. CASE Environment \/ UNCHANGED vars
    <3>1. /\ UNCHANGED <<start, stop, session>> /\ polling' \subseteq polling
          /\ host' = host \/ host' = "dead"
      BY <2>8 DEF Environment, ProxyReady, ContainerStops, ContainerReaped, HostDies, vars,
                  egressVars
    <3>2. QED
      BY <3>1, Elsewhere
  <2>9. QED
    BY <2>1, <2>2, <2>3, <2>4, <2>5, <2>6, <2>7, <2>8 DEF Next, Handlers, StopStep
<1>3. QED
  BY <1>1, <1>2, TypeCorrect, SerialInvHolds, OneAtATimeHolds, AuditTailedHolds, PTL
  DEF Spec, Reliable, Sequential

\* The proxy is gone before the removal of the workload it shares a namespace
\* with begins (index.ts 232-237).
THEOREM ProxyGoneFirstHolds == Reliable => (Spec => []ProxyGoneFirst)
<1>1. TypeOK /\ ShutdownInv => ProxyGoneFirst
  BY DEF ShutdownInv, Over, ProxyGoneFirst, Running
<1>2. QED
  BY <1>1, TypeCorrect, ShutdownInvHolds, PTL

\* A shutdown that has returned to "pending" leaves no container of its session
\* running and no poll of its log, in whatever order containers crashed and
\* whichever session it was (index.ts 230-240).
THEOREM NothingLeftBehindHolds == Reliable => (Spec => []NothingLeftBehind)
<1>1. ShutdownInv => NothingLeftBehind
  BY DockerAssumption DEF ShutdownInv, Over, NothingLeftBehind, Running
<1>2. QED
  BY <1>1, ShutdownInvHolds, PTL
=============================================================================
