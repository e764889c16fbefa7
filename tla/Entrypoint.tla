----------------------------- MODULE Entrypoint -----------------------------
(***************************************************************************)
(* The proxy container from its start to its end: PID 1 is entrypoint.py,  *)
(* its child mitmdump loads policy.py, whose `running` hook starts the DNS *)
(* interceptor thread and a watchdog thread.  The rules are installed in   *)
(* the network namespace of the workload and outlive a killed proxy.       *)
(***************************************************************************)
EXTENDS Firewall

CONSTANTS
  Retries,  \* attempts at generating the CA certificate
  Faults    \* what may go wrong in this instance, besides a kill

(***************************************************************************)
(* "iptables"  a command fails       "mitmdump"  mitmdump exits            *)
(* "policy"    the policy does not load                                    *)
(* "resolver"  the DNS thread leaves its loop                              *)
(***************************************************************************)
ASSUME EntrypointAssumption ==
  /\ Retries \in Nat
  /\ Faults \subseteq {"iptables", "mitmdump", "policy", "resolver"}

VARIABLES
  faults,    \* those of Faults that this container meets
  pc,        \* where entrypoint.py is
  step,      \* the next command of Setup or Teardown
  tries,     \* remaining attempts at the certificate
  cert,      \* mitmproxy-ca-cert.pem exists
  ready,     \* the marker file proxy-ready exists
  fw,        \* the SANDBOXED_PI chains of the namespace
  mitm,      \* the mitmdump child
  resolver   \* the DNS interceptor thread

evars == <<faults, pc, step, tries, cert, ready, fw, mitm, resolver>>

EPc == {"network", "setup", "cert", "mark", "spawn", "handlers", "waiting", "teardown",
        "exited", "killed"}

Alive == pc \notin {"exited", "killed"}

ETypeOK ==
  /\ faults \subseteq Faults
  /\ pc \in EPc
  /\ step \in 1..Len(Setup) + 1
  /\ tries \in 0..Retries
  /\ cert \in BOOLEAN
  /\ ready \in BOOLEAN
  /\ fw \in [Tables -> [exists : BOOLEAN, wired : BOOLEAN, rules : Seq(Rules)]]
  /\ mitm \in {"none", "loading", "serving", "gone"}
  /\ resolver \in {"none", "alive", "dead"}

EInit ==
  /\ faults \in SUBSET Faults
  /\ pc = "network"
  /\ step = 1
  /\ tries = Retries
  /\ cert = FALSE
  /\ ready = FALSE
  /\ fw = NoRules
  /\ mitm = "none"
  /\ resolver = "none"

-----------------------------------------------------------------------------
(***************************************************************************)
(* entrypoint.main                                                         *)
(***************************************************************************)
\* returns when `ip addr` works, or after ten tries
WaitForNetwork ==
  /\ pc = "network"
  /\ pc' = "setup"
  /\ UNCHANGED <<faults, step, tries, cert, ready, fw, mitm, resolver>>

MayFail(cmd) == "iptables" \in faults \/ ~Possible(fw, cmd)

\* one iptables command of setup; a checked one that fails ends the process
RunSetup ==
  /\ pc = "setup" /\ step <= Len(Setup)
  /\ \/ /\ Possible(fw, Setup[step])
        /\ fw' = Apply(fw, Setup[step]) /\ step' = step + 1 /\ UNCHANGED pc
     \/ /\ MayFail(Setup[step])
        /\ UNCHANGED fw
        /\ IF Setup[step].checked
             THEN pc' = "exited" /\ UNCHANGED step
             ELSE step' = step + 1 /\ UNCHANGED pc
  /\ UNCHANGED <<faults, tries, cert, ready, mitm, resolver>>

SetupDone ==
  /\ pc = "setup" /\ step > Len(Setup)
  /\ pc' = "cert"
  /\ UNCHANGED <<faults, step, tries, cert, ready, fw, mitm, resolver>>

\* Mutant: the counter is decremented once more after the last attempt.
CertDoneUnderflows ==
  /\ pc = "cert" /\ (cert \/ tries = 0)
  /\ pc' = "mark"
  /\ tries' = tries - 1
  /\ UNCHANGED <<faults, step, cert, ready, fw, mitm, resolver>>

\* generate_ca_cert: look for the file, else run mitmdump for three seconds
TryCert ==
  /\ pc = "cert" /\ ~cert /\ tries > 0
  /\ cert' \in BOOLEAN
  /\ tries' = tries - 1
  /\ UNCHANGED <<faults, pc, step, ready, fw, mitm, resolver>>

\* the file is there, or the attempts are used up and a warning is logged
CertDone ==
  /\ pc = "cert" /\ (cert \/ tries = 0)
  /\ pc' = "mark"
  /\ UNCHANGED <<faults, step, tries, cert, ready, fw, mitm, resolver>>

WriteMarker ==
  /\ pc = "mark"
  /\ ready' = TRUE
  /\ pc' = "spawn"
  /\ UNCHANGED <<faults, step, tries, cert, fw, mitm, resolver>>

SpawnMitmdump ==
  /\ pc = "spawn"
  /\ mitm' = "loading"
  /\ pc' = "handlers"
  /\ UNCHANGED <<faults, step, tries, cert, ready, fw, resolver>>

\* signal.signal; until then PID 1 ignores SIGTERM
InstallHandlers ==
  /\ pc = "handlers"
  /\ pc' = "waiting"
  /\ UNCHANGED <<faults, step, tries, cert, ready, fw, mitm, resolver>>

\* mitmdump.wait returns
MitmdumpReturns ==
  /\ pc = "waiting" /\ mitm = "gone"
  /\ pc' = "teardown"
  /\ step' = 1
  /\ UNCHANGED <<faults, tries, cert, ready, fw, mitm, resolver>>

\* one command of teardown; none is checked
RunTeardown ==
  /\ pc = "teardown" /\ step <= Len(Teardown)
  /\ \/ Possible(fw, Teardown[step]) /\ fw' = Apply(fw, Teardown[step])
     \/ MayFail(Teardown[step]) /\ UNCHANGED fw
  /\ step' = step + 1
  /\ UNCHANGED <<faults, pc, tries, cert, ready, mitm, resolver>>

TeardownDone ==
  /\ pc = "teardown" /\ step > Len(Teardown)
  /\ ready' = FALSE
  /\ pc' = "exited"
  /\ UNCHANGED <<faults, step, tries, cert, fw, mitm, resolver>>

-----------------------------------------------------------------------------
(***************************************************************************)
(* mitmdump and the threads of policy.py                                   *)
(***************************************************************************)
\* the proxy is up; `running` binds the DNS socket and starts both threads,
\* or the bind raises and neither exists
StartServing ==
  /\ Alive /\ mitm = "loading"
  /\ mitm' = "serving"
  /\ resolver' = "alive" \/ ("resolver" \in faults /\ UNCHANGED resolver)
  /\ UNCHANGED <<faults, pc, step, tries, cert, ready, fw>>

\* _load_policy logged an error or raised: mitmproxy ends at start-up
PolicyRejected ==
  /\ "policy" \in faults
  /\ Alive /\ mitm = "loading"
  /\ mitm' = "gone"
  /\ UNCHANGED <<faults, pc, step, tries, cert, ready, fw, resolver>>

\* any exception in _serve breaks its loop
ResolverDies ==
  /\ "resolver" \in faults
  /\ Alive /\ mitm = "serving" /\ resolver = "alive"
  /\ resolver' = "dead"
  /\ UNCHANGED <<faults, pc, step, tries, cert, ready, fw, mitm>>

\* Mutant: sys.exit instead of os._exit, which ends only the watchdog's thread.
WatchdogEndsOnlyItself ==
  /\ Alive /\ mitm = "serving" /\ resolver = "dead"
  /\ UNCHANGED evars

\* _dns_watchdog: os._exit(1)
Watchdog ==
  /\ Alive /\ mitm = "serving" /\ resolver = "dead"
  /\ mitm' = "gone"
  /\ UNCHANGED <<faults, pc, step, tries, cert, ready, fw, resolver>>

\* mitmdump crashes, or SIGTERM reaches it through forward_signal
MitmdumpExits ==
  /\ "mitmdump" \in faults
  /\ Alive /\ mitm \in {"loading", "serving"}
  /\ mitm' = "gone"
  /\ UNCHANGED <<faults, pc, step, tries, cert, ready, fw, resolver>>

\* SIGKILL: every process of the container ends, no clean-up runs
Kill ==
  /\ Alive
  /\ pc' = "killed"
  /\ mitm' = IF mitm = "none" THEN mitm ELSE "gone"
  /\ UNCHANGED <<faults, step, tries, cert, ready, fw, resolver>>

-----------------------------------------------------------------------------
Main == \/ WaitForNetwork \/ RunSetup \/ SetupDone \/ TryCert \/ CertDone \/ WriteMarker
        \/ SpawnMitmdump \/ InstallHandlers \/ MitmdumpReturns \/ RunTeardown \/ TeardownDone

Child == StartServing \/ PolicyRejected \/ Watchdog

ENext == Main \/ Child \/ ResolverDies \/ MitmdumpExits \/ Kill

ESpec == EInit /\ [][ENext]_evars

\* the processes make progress; nothing has to fail
EFairSpec == ESpec /\ WF_evars(Main) /\ WF_evars(Child)

-----------------------------------------------------------------------------
(***************************************************************************)
(* Properties                                                              *)
(***************************************************************************)
\* From the moment the marker is written until mitmdump is known to have ended,
\* and also when the proxy is killed in between, the rules treat every packet as
\* the design notes say, except that IPv6 of root and what others send on the
\* loopback interface go out (setup_iptables.py 9-17, 62-104, entrypoint.py 82-105).
ReadyMeansFiltered ==
  (ready /\ Alive /\ pc # "teardown") \/ (pc = "killed" /\ step > Len(Setup))
     => MeansPolicy(fw)

\* The chains as setup builds them: which command is the first one of a chain,
\* and the rules that it has in the end (setup_iptables.py 64-104).
First(t) == CASE t = "nat" -> 1 [] t = "filter" -> 7 [] t = "ip6" -> 15

RulesOf(t) ==
  CASE t = "nat"    -> <<"http", "https", "dns">>
    [] t = "filter" -> <<"root", "lo", "proxyPort", "dnsPort", "drop">>
    [] t = "ip6"    -> <<"root", "lo", "drop">>

\* the chain of table t when n of its commands have run: -N, -F, the jump from
\* OUTPUT, and -A for each rule
BuiltBy(t, n) ==
  /\ n <= 0 => ~fw[t].exists
  /\ (n >= 2 \/ (n = 1 /\ "iptables" \notin faults)) => fw[t].exists
  /\ fw[t].wired <=> n >= 3
  /\ Len(fw[t].rules) =
       IF n <= 3 THEN 0 ELSE IF n - 3 <= Len(RulesOf(t)) THEN n - 3 ELSE Len(RulesOf(t))
  /\ \A i \in 1..Len(fw[t].rules) : fw[t].rules[i] = RulesOf(t)[i]

\* the chains when command n of teardown is the next one, and none has failed
UndoneBy(n) ==
  /\ fw["nat"].exists /\ (n > 1 => fw["nat"].rules = <<>>)
  /\ fw["filter"].wired <=> n <= 2
  /\ n > 3 => fw["filter"].rules = <<>>
  /\ fw["filter"].exists <=> n <= 4
  /\ fw["ip6"].wired <=> n <= 5
  /\ n > 6 => fw["ip6"].rules = <<>>
  /\ fw["ip6"].exists <=> n <= 7

\* What makes ReadyMeansFiltered and TornDown inductive: while setup runs, each
\* chain is what its commands so far make of it; all have run when the marker is
\* written; and teardown then undoes the chains one after the other.
ChainsInv ==
  /\ pc = "network" => step = 1
  /\ pc \in {"network", "setup"} \/ step > Len(Setup)
       => \A t \in Tables : BuiltBy(t, step - First(t))
  /\ pc \in {"cert", "mark", "spawn", "handlers", "waiting"} => step > Len(Setup)
  /\ pc = "teardown" => step <= Len(Teardown) + 1
  /\ pc = "teardown" /\ "iptables" \notin faults => UndoneBy(step)
  /\ pc = "exited" /\ "iptables" \notin faults => UndoneBy(Len(Teardown) + 1)
  /\ ready => pc \notin {"network", "setup", "cert", "mark"}

\* "On exit, tear down iptables rules" (entrypoint.py 10): unless an iptables
\* command fails, nothing is left that a packet could meet in a dead proxy.
TornDown ==
  (pc = "exited" /\ "iptables" \notin faults)
     => \A pkt \in Packets : Verdict(fw, pkt) = "out"

\* "DNS interceptor thread died unexpectedly - fail closed" (policy.py 234):
\* from then on no packet of the workload leaves the namespace unfiltered.
ResolverDeathFailsClosed == resolver = "dead" => NoEscape(fw)

\* The set-up ends: the marker is written or the container is over. And when the
\* DNS thread dies, the container ends too, so the host can see it (entrypoint.py
\* 76-111, policy.py 230-236).
EntrypointSettles ==
  /\ pc = "network" ~> (ready \/ ~Alive)
  /\ resolver = "dead" ~> ~Alive
=============================================================================
