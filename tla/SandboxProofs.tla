---------------------------- MODULE SandboxProofs ----------------------------
(***************************************************************************)
(* The composition implements each of its halves, so what is proved of a   *)
(* half holds of the whole.                                                *)
(***************************************************************************)
EXTENDS Sandbox, SequentialProofs, EntrypointProofs

\* Every step of the composition is a step of the extension and docker, or one
\* they do not see: the entrypoint's own steps leave index.ts's state alone.
THEOREM SandboxImplementsSession == SSpec => Spec
<1>1. SInit => Init
  BY DEF SInit
<1>2. [SNext]_sandboxVars => [Next]_vars
  <2> SUFFICES ASSUME [SNext]_sandboxVars PROVE [Next]_vars
    OBVIOUS
  <2>1. CASE ExtensionStep
    BY <2>1 DEF ExtensionStep
  <2>2. CASE ReadyStep
    BY <2>2 DEF ReadyStep, Next, Environment
  <2>3. CASE ProxyStep
    BY <2>3 DEF ProxyStep, Next, Environment, Names
  <2>4. CASE UNCHANGED sandboxVars
    BY <2>4 DEF sandboxVars
  <2>5. QED
    BY <2>1, <2>2, <2>3, <2>4 DEF SNext
<1>3. QED
  BY <1>1, <1>2, PTL DEF SSpec, Spec

\* Every step of the composition is a step of entrypoint.py and its children, or
\* one they do not see; the `docker rm -f` of the shutdown is a kill.
THEOREM SandboxImplementsEntrypoint == SSpec => ESpec
<1>1. SInit => EInit
  BY DEF SInit
<1>2. [SNext]_sandboxVars => [ENext]_evars
  <2> SUFFICES ASSUME [SNext]_sandboxVars PROVE [ENext]_evars
    OBVIOUS
  <2>1. CASE ExtensionStep
    BY <2>1 DEF ExtensionStep, ProcessesFollow, ENext
  <2>2. CASE ReadyStep
    BY <2>2 DEF ReadyStep, ENext, Main
  <2>3. CASE ProxyStep
    BY <2>3 DEF ProxyStep
  <2>4. CASE UNCHANGED sandboxVars
    BY <2>4 DEF sandboxVars
  <2>5. QED
    BY <2>1, <2>2, <2>3, <2>4 DEF SNext
<1>3. QED
  BY <1>1, <1>2, PTL DEF SSpec, ESpec

\* The guarantees of both halves survive their composition: no call before the
\* set-up is complete, the log of an active session tailed (index.ts 178-215, 233),
\* the marker only on whole chains and nothing left by a clean tear-down
\* (entrypoint.py 79-111).
THEOREM SandboxKeepsGuarantees ==
  SSpec => [](EgressBeforeUse /\ AuditTailed /\ ReadyMeansFiltered /\ TornDown)
  BY SandboxImplementsSession, SandboxImplementsEntrypoint, EgressBeforeUseHolds,
     AuditTailedHolds, ReadyMeansFilteredHolds, TornDownHolds, PTL

\* With the real proxy in place of its summary, and handlers that do not overlap,
\* sessions are boxes that are opened, used and closed (index.ts 117-288).
THEOREM SandboxImplementsContainment == Sequential => (SSpec => ImplementsContainment)
  BY SandboxImplementsSession, SessionImplementsContainment, PTL

\* A shutdown that returned left neither a container of its session nor a poll of
\* its log, and removed the proxy first, whatever went on inside the proxy
\* (index.ts 230-240).
THEOREM SandboxShutsDown == Reliable => (SSpec => [](ProxyGoneFirst /\ NothingLeftBehind))
  BY SandboxImplementsSession, ProxyGoneFirstHolds, NothingLeftBehindHolds, PTL

\* Every state of the composition has its declared shape.
THEOREM STypeCorrect == SSpec => []STypeOK
<1>1. SInit => attached \in BOOLEAN
  BY DEF SInit
<1>2. attached \in BOOLEAN /\ [SNext]_sandboxVars => (attached \in BOOLEAN)'
  BY DEF SNext, ExtensionStep, ReadyStep, ProxyStep, NamespaceFollows, sandboxVars
<1>3. TypeOK /\ ETypeOK /\ attached \in BOOLEAN => STypeOK
  BY DEF STypeOK
<1>4. QED
  BY <1>1, <1>2, <1>3, SandboxImplementsSession, SandboxImplementsEntrypoint, TypeCorrect,
     ETypeCorrect, PTL DEF SSpec

-----------------------------------------------------------------------------
(***************************************************************************)
(* Containment, as long as the proxy's processes end only with the proxy,  *)
(* a stopped workload is not started again and there is one session: the   *)
(* conditions that the runs with a counterexample break.                   *)
(***************************************************************************)
ProxyLasts == Faults \subseteq {"iptables"}

Undisturbed ==
  /\ ProxyLasts
  /\ "restart" \notin Adversity
  /\ \A v, w \in Workloads : v = w

\* The processes of the proxy container then end together, and never after the
\* marker has been written because of a failed command.
ProxyInv ==
  /\ mitm = "gone" => pc = "killed"
  /\ resolver # "dead"
  /\ pc # "teardown"
  /\ ready => pc \in {"spawn", "handlers", "waiting", "killed"} /\ step > Len(Setup)

LEMMA ProxyInvHolds == ProxyLasts => (ESpec => []ProxyInv)
<1> SUFFICES ASSUME ProxyLasts PROVE ESpec => []ProxyInv
  OBVIOUS
<1>1. EInit => ProxyInv
  BY DEF EInit, ProxyInv
<1>2. ETypeOK /\ ChainsInv /\ ProxyInv /\ [ENext]_evars => ProxyInv'
  <2> SUFFICES ASSUME ETypeOK, ChainsInv, ProxyInv, [ENext]_evars PROVE ProxyInv'
    OBVIOUS
  <2>1. faults \subseteq {"iptables"}
    BY DEF ProxyLasts, ETypeOK
  <2>2. CASE WaitForNetwork \/ SetupDone \/ TryCert \/ CertDone \/ SpawnMitmdump
             \/ InstallHandlers
    BY <2>2 DEF WaitForNetwork, SetupDone, TryCert, CertDone, SpawnMitmdump, InstallHandlers,
                ProxyInv
  <2>3. CASE RunSetup
    BY <2>3 DEF RunSetup, ProxyInv
  <2>4. CASE WriteMarker
    BY <2>4 DEF WriteMarker, ProxyInv, ChainsInv
  <2>5. CASE MitmdumpReturns \/ RunTeardown \/ TeardownDone
    BY <2>5 DEF MitmdumpReturns, RunTeardown, TeardownDone, ProxyInv
  <2>6. CASE Child \/ ResolverDies \/ MitmdumpExits
    BY <2>1, <2>6 DEF Child, StartServing, PolicyRejected, Watchdog, ResolverDies,
                      MitmdumpExits, ProxyInv
  <2>7. CASE Kill
    BY <2>7 DEF Kill, ProxyInv
  <2>8. CASE UNCHANGED evars
    BY <2>8 DEF evars, ProxyInv
  <2>9. QED
    BY <2>2, <2>3, <2>4, <2>5, <2>6, <2>7, <2>8 DEF ENext, Main
<1>3. QED
  BY <1>1, <1>2, ETypeCorrect, ChainsInvHolds, PTL DEF ESpec

LEMMA NothingTakenBack ==
  ASSUME ETypeOK, ProxyInv, [ENext]_evars
  PROVE  (ready => ready') /\ (cert => cert')
<1>1. CASE Main
  BY <1>1 DEF Main, WaitForNetwork, RunSetup, SetupDone, TryCert, CertDone, WriteMarker,
              SpawnMitmdump, InstallHandlers, MitmdumpReturns, RunTeardown, TeardownDone, ProxyInv
<1>2. CASE Child \/ ResolverDies \/ MitmdumpExits \/ Kill
  BY <1>2 DEF Child, StartServing, PolicyRejected, Watchdog, ResolverDies, MitmdumpExits, Kill
<1>3. CASE UNCHANGED evars
  BY <1>3 DEF evars
<1>4. QED
  BY <1>1, <1>2, <1>3 DEF ENext

\* What a step of the extension does to the egress set-up and what it needs for it.
LEMMA EgressStep ==
  ASSUME TypeOK, [Next]_vars
  PROVE  /\ marker \subseteq marker' /\ UNCHANGED flags
         /\ trust' # {} => trust # {} \/ start.pc = "install"
         /\ start'.pc = "cert" => start.pc = "cert" \/ marker # {}
         /\ start'.pc = "install" => start.pc \in {"install", "cert"}
         /\ session'.kind = "active" /\ flags.policy
              => session.kind = "active" \/ start.pc = "install"
<1> DEFINE Goal ==
      /\ marker \subseteq marker' /\ UNCHANGED flags
      /\ trust' # {} => trust # {} \/ start.pc = "install"
      /\ start'.pc = "cert" => start.pc = "cert" \/ marker # {}
      /\ start'.pc = "install" => start.pc \in {"install", "cert"}
      /\ session'.kind = "active" /\ flags.policy
           => session.kind = "active" \/ start.pc = "install"
<1> USE DEF TypeOK, egressVars
<1>1. CASE BeginStart
  BY <1>1 DEF BeginStart, State
<1>2. CASE ProbeOrBuildReturns \/ RunReturns \/ WaitTimesOut \/ CleanupReturns
  <2>1. UNCHANGED <<marker, trust, flags>>
    BY <1>2 DEF ProbeOrBuildReturns, RunReturns, WaitTimesOut, CleanupReturns
  <2>2. UNCHANGED session \/ session' = State("failed")
    BY <1>2 DEF ProbeOrBuildReturns, RunReturns, WaitTimesOut, CleanupReturns, GiveUpStart
  <2>3. start'.pc \in {"build", "run", "wait", "idle"}
    BY <1>2 DEF ProbeOrBuildReturns, RunReturns, WaitTimesOut, CleanupReturns, GiveUpStart
  <2>4. QED
    BY <2>1, <2>2, <2>3 DEF State
<1>3. CASE ResolveImage \/ RunProxyReturns \/ WaitProxySucceeds \/ WaitProxyFails \/ ReadCert
           \/ InstallCertFails
  BY <1>3 DEF ResolveImage, RunProxyReturns, WaitProxySucceeds, WaitProxyFails, ReadCert,
              InstallCertFails, ProxyFails
<1>4. CASE WaitSucceeds
  BY <1>4 DEF WaitSucceeds, BecomeActive
<1>5. CASE InstallCert
  BY <1>5 DEF InstallCert, StartTail, BecomeActive
<1>6. CASE BeginStop \/ StopStep
  BY <1>6 DEF BeginStop, StopStep, RemoveReturns, ResumeAfterProxy, ResumeAfterWorkload, State
<1>7. ASSUME NEW c \in Calls, BeginCall(c) \/ CallStep(c) \/ Collect(c) PROVE Goal
  BY <1>7 DEF BeginCall, CallStep, InspectReturns, TryRestart, RestartReturns, Return, Refuse,
              Collect, State
<1>8. CASE Environment
  BY <1>8 DEF Environment, ProxyReady, ContainerStops, ContainerReaped, HostDies
<1>9. CASE UNCHANGED vars
  BY <1>9 DEF vars
<1>10. QED
  BY <1>1, <1>2, <1>3, <1>4, <1>5, <1>6, <1>7, <1>8, <1>9 DEF Next, Handlers, StartStep

\* The extension has seen the marker before it trusts the certificate.
LinkInv ==
  /\ marker # {} => ready
  /\ start.pc \in {"cert", "install"} \/ trust # {} => marker # {}
  /\ start.pc = "install" => cert

LEMMA LinkInvHolds == ProxyLasts => (SSpec => []LinkInv)
<1> SUFFICES ASSUME ProxyLasts PROVE SSpec => []LinkInv
  OBVIOUS
<1>1. SInit => LinkInv
  BY DEF SInit, Init, LinkInv
<1>2. TypeOK /\ ETypeOK /\ ProxyInv /\ LinkInv /\ [SNext]_sandboxVars => LinkInv'
  <2> SUFFICES ASSUME TypeOK, ETypeOK, ProxyInv, LinkInv, [SNext]_sandboxVars PROVE LinkInv'
    OBVIOUS
  <2>1. CASE ExtensionStep
    <3>1. /\ marker' = marker
          /\ trust' # {} => trust # {} \/ start.pc = "install"
          /\ start'.pc = "cert" => start.pc = "cert" \/ marker # {}
          /\ start'.pc = "install" => start.pc \in {"install", "cert"}
      BY <2>1, EgressStep DEF ExtensionStep
    <3>2. [ENext]_evars
      BY <2>1 DEF ExtensionStep, ProcessesFollow, ENext
    <3>3. (ready => ready') /\ (cert => cert')
      BY <3>2, NothingTakenBack
    <3>4. start'.pc = "install" => start.pc = "install" \/ cert
      BY <2>1, <3>1 DEF ExtensionStep, CertFollows
    <3>5. QED
      BY <3>1, <3>3, <3>4 DEF LinkInv
  <2>2. CASE ReadyStep
    BY <2>2 DEF ReadyStep, WriteMarker, ProxyReady, LinkInv
  <2>3. CASE ProxyStep
    <3>1. UNCHANGED <<marker, trust, start>>
      BY <2>3 DEF ProxyStep, ContainerStops, vars, egressVars
    <3>2. (ready => ready') /\ (cert => cert')
      BY <2>3, NothingTakenBack DEF ProxyStep
    <3>3. QED
      BY <3>1, <3>2 DEF LinkInv
  <2>4. CASE UNCHANGED sandboxVars
    BY <2>4 DEF sandboxVars, vars, evars, egressVars, LinkInv
  <2>5. QED
    BY <2>1, <2>2, <2>3, <2>4 DEF SNext
<1>3. QED
  BY <1>1, <1>2, SandboxImplementsSession, SandboxImplementsEntrypoint, TypeCorrect,
     ETypeCorrect, ProxyInvHolds, PTL DEF SSpec

-----------------------------------------------------------------------------
(***************************************************************************)
(* The namespace of the workload                                           *)
(***************************************************************************)
Stopped == {"exited", "gone"}

\* Unless it is restarted, a container that has stopped never runs again.
LEMMA StoppedForGood ==
  ASSUME "restart" \notin Adversity, TypeOK, [Next]_vars, NEW w \in Workloads
  PROVE  /\ ctr[w] \in Stopped => ctr'[w] \in Stopped
         /\ ctr[w] = "running" => ctr'[w] \in Stopped \cup {"running"}
<1> DEFINE Goal == /\ ctr[w] \in Stopped => ctr'[w] \in Stopped
                   /\ ctr[w] = "running" => ctr'[w] \in Stopped \cup {"running"}
<1>1. ctr \in [Names -> Status] /\ w \in Names
  BY DEF TypeOK, DockerTypeOK, Names
<1>2. ASSUME UNCHANGED ctr PROVE Goal
  BY <1>2
<1>3. ASSUME NEW n, Runs(n) PROVE Goal
  BY <1>1, <1>3 DEF Runs, Stopped
<1>4. ASSUME NEW n, Removes(n) PROVE Goal
  BY <1>1, <1>4 DEF Removes, Stopped
<1>5. ASSUME NEW n, StartSucceeds(n) PROVE Goal
  BY <1>1, <1>5 DEF StartSucceeds, Running, Stopped
<1>6. ASSUME NEW n, Crash(n) \/ Reap(n) PROVE Goal
  BY <1>1, <1>6 DEF Crash, Reap, Stopped
<1>7. CASE StartStep
  <2>1. CASE RunReturns
    BY <1>2, <1>3, <2>1 DEF RunReturns, RunFails
  <2>2. CASE RunProxyReturns
    BY <1>2, <1>3, <2>2 DEF RunProxyReturns, RunFails
  <2>3. CASE CleanupReturns
    BY <1>4, <2>3 DEF CleanupReturns
  <2>4. CASE ProbeOrBuildReturns \/ WaitSucceeds \/ WaitTimesOut \/ ResolveImage
             \/ WaitProxySucceeds \/ WaitProxyFails \/ ReadCert \/ InstallCert \/ InstallCertFails
    BY <1>2, <2>4 DEF ProbeOrBuildReturns, WaitSucceeds, WaitTimesOut, ResolveImage,
       WaitProxySucceeds, WaitProxyFails, ReadCert, InstallCert, InstallCertFails
  <2>5. QED
    BY <1>7, <2>1, <2>2, <2>3, <2>4 DEF StartStep
<1>8. CASE BeginStart \/ BeginStop \/ StopStep
  BY <1>2, <1>4, <1>8 DEF BeginStart, BeginStop, StopStep, RemoveReturns, ResumeAfterProxy,
                          ResumeAfterWorkload
<1>9. ASSUME NEW c \in Calls, BeginCall(c) \/ CallStep(c) \/ Collect(c) PROVE Goal
  BY <1>2, <1>5, <1>9 DEF BeginCall, CallStep, InspectReturns, TryRestart, RestartReturns,
                          StartFails, Return, Refuse, Collect
<1>10. CASE Environment \/ UNCHANGED vars
  BY <1>2, <1>6, <1>10 DEF Environment, ProxyReady, ContainerStops, ContainerReaped, HostDies, vars
<1>11. QED
  BY <1>7, <1>8, <1>9, <1>10 DEF Next, Handlers

\* The workload runs in the namespace that the proxy has the rules in.
AttachedInv == attached \/ \A w \in Workloads : ctr[w] \in Stopped

LEMMA AttachedInvHolds == Undisturbed => (SSpec => []AttachedInv)
<1> SUFFICES ASSUME Undisturbed PROVE SSpec => []AttachedInv
  OBVIOUS
<1>1. SInit => AttachedInv
  BY DEF SInit, AttachedInv
<1>2. TypeOK /\ AttachedInv /\ [SNext]_sandboxVars => AttachedInv'
  <2> SUFFICES ASSUME TypeOK, AttachedInv, [SNext]_sandboxVars PROVE AttachedInv'
    OBVIOUS
  <2>1. CASE ExtensionStep
    <3>1. ASSUME NEW w \in Workloads
          PROVE  /\ ctr[w] \in Stopped => ctr'[w] \in Stopped
                 /\ ctr[w] = "running" => ctr'[w] \in Stopped \cup {"running"}
      BY <2>1, StoppedForGood DEF ExtensionStep, Undisturbed
    <3>2. CASE attached' \/ ~attached
      BY <2>1, <3>1, <3>2 DEF AttachedInv
    <3>3. CASE attached /\ ~attached'
      <4>1. PICK v \in Workloads : ctr[v] = "running" /\ ctr'[v] # "running"
        BY <2>1, <3>3 DEF ExtensionStep, NamespaceFollows, Running
      <4>2. ctr'[v] \in Stopped
        BY <3>1, <4>1
      <4>3. QED
        BY <4>2 DEF Undisturbed, AttachedInv
    <3>4. QED
      BY <3>2, <3>3
  <2>2. CASE ReadyStep
    BY <2>2 DEF ReadyStep, ProxyReady, AttachedInv
  <2>3. CASE ProxyStep
    <3>1. [Next]_vars /\ attached' = attached
      BY <2>3 DEF ProxyStep, Next, Environment, Names
    <3>2. QED
      BY <3>1, StoppedForGood DEF AttachedInv, Undisturbed
  <2>4. CASE UNCHANGED sandboxVars
    BY <2>4 DEF sandboxVars, vars, AttachedInv
  <2>5. QED
    BY <2>1, <2>2, <2>3, <2>4 DEF SNext
<1>3. QED
  BY <1>1, <1>2, SandboxImplementsSession, TypeCorrect, PTL DEF SSpec

LEMMA MeansNoEscape ==
  ASSUME NEW f, MeansPolicy(f)
  PROVE  NoEscape(f)
BY DEF MeansPolicy, NoEscape, Documented, Excepted, Packets, Kinds

\* What a prepared workload can rely on.
LEMMA PreparedMeansFiltered ==
  ASSUME ProxyInv, LinkInv, ReadyMeansFiltered, trust # {} \/ start.pc = "install"
  PROVE  MeansPolicy(fw)
<1>1. ready
  BY DEF LinkInv
<1>2. QED
  BY <1>1 DEF ProxyInv, ReadyMeansFiltered, Alive

\* While a tool call is routed to the running container of a session with a
\* policy, nothing leaves it unfiltered, whatever overlaps, fails or dies,
\* as long as mitmdump lasts and no stopped container is started again
\* (index.ts 178-215, egress.ts 107-132, entrypoint.py 76-111).
THEOREM ContainedHolds == Undisturbed => (SSpec => []Contained)
<1> SUFFICES ASSUME Undisturbed PROVE SSpec => []Contained
  OBVIOUS
<1>1. EgressBeforeUse /\ ReadyMeansFiltered /\ ProxyInv /\ LinkInv /\ AttachedInv => Contained
  <2> SUFFICES ASSUME EgressBeforeUse, ReadyMeansFiltered, ProxyInv, LinkInv, AttachedInv,
                      NEW w \in Workloads, flags.policy, Routed(w), Running(w)
               PROVE  NoEscape(WorkloadRules)
    BY DEF Contained
  <2>1. w \in trust
    BY DEF Routed, EgressBeforeUse
  <2>2. MeansPolicy(fw)
    BY <2>1, PreparedMeansFiltered
  <2>3. attached
    BY DEF AttachedInv, Running, Stopped
  <2>4. QED
    BY <2>2, <2>3, MeansNoEscape DEF WorkloadRules
<1>2. ProxyLasts
  BY DEF Undisturbed
<1>3. QED
  BY <1>1, <1>2, SandboxKeepsGuarantees, SandboxImplementsEntrypoint, ReadyMeansFilteredHolds,
     ProxyInvHolds, LinkInvHolds, AttachedInvHolds, PTL

\* A session with a policy opens only on a whole set of rules and with the
\* certificate generated (egress.ts 120-132, entrypoint.py 82-105).
THEOREM ActiveOnlyWhenSetUpHolds == ProxyLasts => (SSpec => ActiveOnlyWhenSetUp)
<1> SUFFICES ASSUME ProxyLasts PROVE SSpec => ActiveOnlyWhenSetUp
  OBVIOUS
<1> DEFINE OpensSetUp == session.kind # "active" /\ session'.kind = "active" /\ flags.policy
                           => cert /\ MeansPolicy(fw)
<1>1. TypeOK /\ ReadyMeansFiltered /\ ProxyInv /\ LinkInv /\ [SNext]_sandboxVars
        => [OpensSetUp]_sandboxVars
  <2> SUFFICES ASSUME TypeOK, ReadyMeansFiltered, ProxyInv, LinkInv, [SNext]_sandboxVars,
                      session.kind # "active", session'.kind = "active", flags.policy
               PROVE  cert /\ MeansPolicy(fw)
    OBVIOUS
  <2>1. [Next]_vars
    BY DEF SNext, ExtensionStep, ReadyStep, ProxyStep, Next, Environment, Names, sandboxVars
  <2>2. start.pc = "install"
    BY <2>1, EgressStep
  <2>3. QED
    BY <2>2, PreparedMeansFiltered DEF LinkInv
<1>2. QED
  BY <1>1, SandboxImplementsSession, SandboxImplementsEntrypoint, TypeCorrect,
     ReadyMeansFilteredHolds, ProxyInvHolds, LinkInvHolds, PTL DEF SSpec, ActiveOnlyWhenSetUp
=============================================================================
