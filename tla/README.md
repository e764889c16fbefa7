# A verification project for sandboxed-pi

sandboxed-pi is an extension of the pi coding agent. It runs the agent's tools
inside a Docker container and, when an egress policy is given, puts a mitmproxy
"sidecar" into the network namespace of that container so that nothing leaves
it unfiltered. The repository makes three promises that are hard to test:

1. **fail closed** - a tool call runs in the container or not at all; only the
   `--no-sandbox` flag leads to the host (`docs/container-sandbox.md`);
2. **contained** - with a policy, what a tool call sends is filtered by the proxy
   (`docs/egress-control.md`);
3. **ephemeral** - the containers live as long as the session (`README.md`).

The modules here model the code those promises depend on, TLC checks them on
small instances, and TLAPS proves every safety property, and the refinements,
for every instance.

## 1. Inventory

| part | state it keeps | operations | where |
|---|---|---|---|
| session lifecycle | `SandboxState` (pending, disabled, active, failed; container, proxy), the module variable `auditTailer`, the flags | `session_start`, `session_shutdown` | `index.ts` 86-241 |
| tool routing | none of its own; reads and overwrites `SandboxState` | `ensureContainerRunning`, `requireContainer`, eight overrides and `user_bash` | `index.ts` 243-465 |
| workload container | the container, in the docker daemon | create (build, run, wait), is-running, remove | `docker.ts` 30-135, 278-286 |
| egress proxy, host side | the container; the CA in the workload | resolve image, run, wait for the marker, install the CA, remove | `egress.ts` 30-290 |
| audit log tail | byte offset, abort signal | poll, emit, abort | `egress.ts` 292-372 |
| policy validation | none | file exists | `egress.ts` 374-380 |
| docker exec runner | one child process, one timer, one promise per call | spawn, stream, abort, time out, settle | `docker.ts` 137-277 |
| tool operations | none | read, write, edit, bash, grep, find, ls as command lines | `ops.ts` |
| proxy entrypoint | certificate, marker file, mitmdump child | set up, generate the certificate, mark ready, forward signals, tear down | `entrypoint.py` |
| firewall rules | three iptables chains | set up, tear down | `setup_iptables.py` |
| policy addon | the rules, the allowed hosts, the audit log | load, decide a request, start the DNS thread and its watchdog | `policy.py` |
| DNS interceptor | the host-to-address bindings | answer a query | `dns_interceptor.py` |

**How they interact.** The pi host calls the extension's handlers; a handler
awaits `docker` commands, and between two awaits nothing else runs in the
process. All handlers share `SandboxState` and `auditTailer`. The extension
learns about the proxy only through docker: the container runs, the marker file
exists, the certificate file can be read. Inside the proxy container, PID 1
(`entrypoint.py`) writes the rules of a network namespace *that belongs to the
workload*, writes the marker, and then waits for mitmdump, which loads
`policy.py`, which starts the DNS thread. The DNS thread and the request hook
share the binding cache and the audit log; the tail on the host polls that log.

**What is hard.**

- *Interleaving.* Tool calls overlap, a shutdown can arrive while a start or a
  call waits for docker, and several places read `state.container` again after
  an await.
- *Partial failure.* A start consists of up to twelve docker commands, each of
  which can fail after others have had effects.
- *Crash and restart.* A container dies, is reaped by `--rm`, or is started
  again with a new namespace; the proxy is killed between two iptables commands;
  the pi process dies.
- *Order.* DROP after the RETURN rules and before the marker; proxy removed
  before the workload; the certificate before the marker; the tail aborted
  before its container goes.
- *Timeouts.* Two polls with deadlines on the host, bounded retries in the
  entrypoint, one per `docker exec` of the bash tool; the last races an abort,
  an error and the child's end.
- *Stale data.* The tail reads the size of a file with one command and uses it
  after a second one, while the file grows or is truncated.

**What makes each part correct** is stated in section 4, next to the run that
checks it. The list of hazards, each with its line and its properties, is
`hazards` in `PROJECT.json`.

## 2. Modules

| module | models | state |
|---|---|---|
| `Docker` | the container engine as the extension sees it (external) | `ctr`: status of each container name |
| `Containment` | what the sandbox promises, abstractly: a box is opened, used by calls, closed | `optOut`, `policy`, `box`, `prepared`, `route` |
| `Session` (extends `Docker`; `Routing` is its instance of `Containment`) | `index.ts`, and what it awaits in `docker.ts` and `egress.ts` | `session`, `auditTailer`, the handlers' positions `start`, `stop`, `calls`, and what docker commands leave behind: `marker`, `trust`, `polling` |
| `Firewall` | `setup_iptables.py`: the two command sequences, and what chains do to a packet | none: operators |
| `Entrypoint` (extends `Firewall`) | `entrypoint.py`, its mitmdump child, the threads of `policy.py` | `pc`, `step`, `tries`, `cert`, `ready`, `fw`, `mitm`, `resolver` |
| `Sandbox` (extends `Session`, `Entrypoint`) | one session with its real proxy | both, and `attached`: is the namespace with the rules that of the workload |
| `Policy` | `_load_policy` and `_check_policy` of `policy.py`, and the documented semantics they are compared with | none: operators |
| `Monitor` (extends `Policy`) | what the addon promises, abstractly: addresses are bound and told, requests asked and answered in one instant | `file`, `bound`, `told`, `request` |
| `PolicyGate` (extends `Policy`; `Monitored` is its instance of `Monitor`) | the DNS thread of `dns_interceptor.py` and the request hook of `policy.py` | `bound` (the cache), `log`, `learned` (what the workload was told), `query`, `request`, `resolver`, and the fixed `file` and `writable` |
| `Feed` | what following the log promises, abstractly: runs of consecutive entries, until it is closed | `written`, `base`, `shown`, `since`, `phase` |
| `AuditTail` (`Followed` is its instance of `Feed`) | `tailAuditLog` of `egress.ts`, and the log it follows | the log `written`, `base`, `proxy`; the poll `pc`, `aborted`, `offset`, `size`; `shown`, `since` |
| `Exec` | `execInContainer` and `dockerExecRaw` of `docker.ts`, and every operation of `ops.ts` | the call `op`, `timeout`, `signal`; the client `child`, `code`, `killed`; `timer`, `listening`; `remote`, `fed`, `wrote`; `captured`, `result` |
| `SessionProofs`, `SequentialProofs` (extends it: what needs handlers that do not overlap), `EntrypointProofs`, `SandboxProofs` (extends these), `PolicyProofs`, `PolicyGateProofs` (extends it), `AuditTailProofs`, `ExecProofs` | theorems | |
| `MCSession`, `MCEntrypoint`, `MCSandbox`, `MCPolicyGate`, `MCAuditTail`, `MCExec` | the constants of the runs | |

**Session.** An action is the code between two awaits. `start.pc`, `stop.pc` and
`calls[c].pc` name the await a handler is suspended at; `start.container` and
`start.proxy` are the local variables of `session_start`, and stay after it has
ended so that properties can speak of the last session's containers. A docker
command has one action for its effect together with the resumption of the
handler where nobody can tell them apart, and two where somebody can: the
removals of the shutdown (`rmProxy`, `rmProxyDone`) and the inspection and
restart of a call (`inspect`, `up`, `started`), because the handler reads
`session` when it resumes. A failed `await` has a disjunct or an action of its
own that ends in the `catch` of the code. `undefined` is `None`; the falsy test
`if (!cn)` of every override is `Fallback`.

**Containment.** The promise of the first paragraph without containers that die,
commands that fail or handlers that wait: an open box, the boxes prepared for
egress control, and where each call runs. `Session` implements it by the
mapping `Routing`: the open box is `session.container`, which only an active session has, the
prepared boxes are the workloads with the proxy's CA in them, a call's route is
its own. With overlapping handlers it does not, which is the run
`session_host_fallback`.

**Docker.** What a command may do and may report. The constant `Adversity` says
what the environment may do:

| token | meaning |
|---|---|
| `flaky` | a docker command fails although the containers are fine, or takes effect and reports failure |
| `rmFails` | `docker rm -f` fails and leaves the container |
| `parallel` | tool calls overlap each other and a shutdown |
| `earlyShutdown` | `session_shutdown` arrives while `session_start` waits |
| `hostCrash` | the pi process dies |
| `restart` | `docker start` reaches a stopped container before `--rm` has removed it |
| `execResolves` | the host's `pi.exec` resolves although the command failed; its source is not in this repository, and `index.ts` is written as if it rejected |

Containers may crash in every run.

**Firewall.** `Setup` and `Teardown` are the command sequences, `checked` telling
`check=True` commands from the others. `Verdict` gives the fate of a packet in a
set of chains; `Documented` is the notes at the top of `setup_iptables.py`
(9-17), note by note. The rules depart from them for two classes of packet, which
`Excepted` names: IPv6 of root goes out, although "All IPv6 is blocked", and so
does what others send on the loopback interface, unless it is redirected, although
"everything else from non-root is DROP'd". `MeansPolicy` compares code and notes
over every class of packet (IP version, sender, port class, destination) and says
that these two are the only ones that differ.

**Entrypoint.** One action per statement of `main` that changes state, one per
iptables command. `Faults` says what can go wrong, and each behaviour chooses in
`faults` which of them it meets, so that one run covers every combination. A kill (`docker rm -f`) ends
every process and leaves the rules; an exit runs the tear-down first only where
the code does.

**Sandbox.** The composition has no code of its own: `Session` has an abstract
proxy whose marker may appear at any time, and here that step *is* the
entrypoint's `WriteMarker`; the container's death is the processes' death; the
certificate read is the one generated.

**Policy.** A policy file is a sequence of entries, each with a host and a
sequence of rules; a regular expression is the set of paths it matches in full,
or one that does not compile. `NetworkPolicies`, `AllowedHosts` and `Rejected`
are the three results of loading, `CheckPolicy` is the decision. Each of the four
loops is a recursive function of the number of turns it has made, whose value is
the loop's variable. `Documented` says the same without loops: of all matching
rules of the host, the last one in the file.

**Monitor.** The promise of the addon without threads, locks, the log or the steps
of a look-up: the workload is told only addresses that are bound, only names of
the file are bound, and a request is answered in one instant, by the documented
meaning of the file and the bindings of that instant. `PolicyGate` implements it
by the mapping `Monitored`: `learned` is `told`, and `Asked` is the request. A
request that fails the check of its binding is refused at that step (`unbound`),
the others at the decision: between the two steps the DNS thread may bind further
addresses, and the abstract answer must still be right at the instant it is given.

**PolicyGate.** The DNS thread handles one query at a time, in `query`; the hook
runs in mitmproxy's event loop, in `request`. They share `bound` and the audit
log, each behind a lock, so an action is what a thread does up to and including
one locked section: an answer with two addresses is recorded in two steps and the
hook can run between them. `log` holds the entries of the query and of the request
at hand, which is what the properties speak of. `learned` grows when an answer is
sent, not before: it is what a client could open a connection to.

**AuditTail.** The tail is one chain of polls. A poll awaits two docker commands,
so `pc` is `waiting` (on the timer), `stat` or `tail` (a command in flight) or
`over`; the log is written and truncated, the proxy dies and the tail is aborted
between any two of them. `size` is what `stat` said, already stale when `tail`
returns. The answer of a stat that worked is the size of the file (`StatReturns`);
one that fails in a living proxy, or prints no number, resolves with 0 all the
same (`|| echo 0`, `|| 0`), and the tail takes the log for emptied (`StatFallsBack`,
both by `StatAnswers`). A docker command that fails rejects (`ExecFails`). A *piece* is what one `write()` of the proxy appends, and sizes and
offsets count pieces; `base` pieces have gone with truncations. What `onLine`
was called with is `shown`; `since` is a history variable, its length at the last
false 0 that took the offset back, from where the log is shown once more.

**Feed.** The tail as its reader sees it, without polls, offsets and commands: a run
of consecutive entries up to the end of the log, and another, until it is closed.
A run begins where the last one ended unless the log was emptied since, or the
reader was told so and starts over (`StartOver`). `AuditTail` implements it by the
mapping `Followed`, whose `phase` is `open` until the abort, then `closing` while
a poll is in flight, whose run is the last.

**Exec.** Three processes: the extension, the docker client it spawns, and the
command in the container, the *remote*. Killing the client ends the client only.
The events of the client (`error`, data, `close`), the timer and the abort
signal arrive in any order and settle one promise; the operation then makes a
result of it. `Ops` has a record for each operation of the seven factories:
what it does with an exit code (`verdict`), whether content is piped in
(`stdin`), whether the tool passes signal, timeout and `onData` (`ui`), and
whether a pipeline hides the status of the command (`masked`). A signal can be
`stale`, aborted before the call: `addEventListener` then never fires, but the
signal is still consulted at the end. `StdinBreaks` is an EPIPE on the client's
stdin, which has no `error` listener: an uncaught exception.

## 3. Bounds

- Two workload names and two proxy names (`session_serial`): a session can meet what one earlier
  session left. Names are never reused, as in the code (random UUIDs), so every
  run ends when they are used up; a `docker run` can then only fail.
- `session_concurrent` has one workload name and two proxy names, the price of
  checking liveness with every adversity at once. A second session can begin
  in it only if it gets no container; its two invariants are
  proved for any number of sessions.
- Two tool calls, collected and re-issued without bound, one `session_start` and
  one `session_shutdown`: two calls overlap, and so do a call and either of the
  others and, with `earlyShutdown`, a shutdown and a start. Two starts
  or two shutdowns never overlap: the model's host opens a session when the last one
  is closed and its start has ended. Left out is a host that opens one while
  a start that outlived its session (section 7) still waits.
- `Retries` is 2 or 3 instead of 10 attempts at the certificate: the first, a
  middle and the last attempt differ, further ones do not. The ten attempts at
  `ip addr` have no effect the rest can see and are one action.
- Timeouts are choices: a deadline may pass whenever the thing awaited has not
  been seen. Durations are not modelled.
- In `Sandbox` there is one workload and one proxy, because the entrypoint's
  variables describe one proxy. What an earlier session leaves is `Session`'s.
- `PolicyGate` has one query and one request at a time, issued again without
  bound: the DNS thread and the hook are sequential, so only these two can
  overlap. Two hosts and two addresses let a name be looked up twice with
  different answers and an address belong to two names. `MCFiles` has overlapping
  rules of either action in either order, one host in two entries, entries and
  rules that are passed over, and the two kinds of file that are rejected.
- `AuditTail`: `MaxWrites` is 4, enough for entries before, between and after
  two truncations and the two commands of a poll. Stat may answer falsely while
  fewer than `MaxShown` = 6 pieces were shown: more than the whole log once, so that
  it is rewound at least twice. Truncation, the end of the proxy and the abort may
  come at any point of a poll.
- `Exec`: `MaxOut` is 3 chunks per stream and `MaxIn` 2 pieces of content, so
  that a client can end before, after some and after all of either. One call:
  calls share nothing.
- Names and calls are interchangeable, so the `Session` runs without liveness
  use symmetry.

`CHECK_DEADLOCK FALSE` appears where the system may really stop: a dead host
(`hostCrash`), a container whose PID 1 has exited or was killed, a tail that is
over, a call that has its result.

## 4. Runs

`pass` runs:

| run | question |
|---|---|
| `session_serial` | Handlers one after the other over two sessions; docker commands fail or lose their report, containers crash and are restarted, the host may die. Does the session implement `Containment` (`ImplementsContainment`), and so: does a call run on the host only under `--no-sandbox` (`FailClosed`)? Is the tail, and the handle that stops it, that of the active session's proxy (`AuditTailed`)? When a shutdown has run to its end, is the proxy gone before the workload (`ProxyGoneFirst`), and is nothing of the session left (`NothingLeftBehind`)? `SerialInv` and `ShutdownInv` are the invariants the proofs use |
| `session_concurrent` | Every adversity at once: overlapping calls, shutdowns inside a start, flaky docker. Does a call under a policy ever reach a container whose egress set-up is incomplete (`EgressBeforeUse`, by `EgressInv`)? Does each handler end (`HandlersReturn`)? |
| `entrypoint` | Every subset of the faults, a kill at every step. Does the marker, or a kill after the set-up, find rules that do to every packet what the notes promise, but for the two exceptions (`ReadyMeansFiltered`)? Does the set-up end and a dead DNS thread end the container (`EntrypointSettles`), and does the tear-down leave nothing a packet can meet (`TornDown`)? `ChainsInv`: at each step the chains are the commands so far, applied in order |
| `sandbox_contained` | Both halves, overlapping calls, crashes of containers and host, lost reports, failing iptables: is a running call's traffic filtered (`Contained`), and does a session become active only when all rules are there and the certificate was generated, though the proxy may have been killed since (`ActiveOnlyWhenSetUp`)? |
| `policy_gate` | The two threads of the addon, for each policy file of `MCFiles`. Is an address bound before the workload can use it (`LearnedAddressAccepted`)? Is a request decided by the last matching rule of the file (`DecidedAsDocumented`) and audited once, with what was decided (`AuditedOnce`)? Do the threads together decide each request in one instant, by bindings and rules (`ImplementsMonitor`)? Is a name refused only when no request to it could pass (`RefusedNamesAreUseless`)? Is every query answered, or the thread dead (`QueriesAnswered`)? |
| `audit_tail` | A poll whose size is stale when it reads, that fails, is aborted, or finds the log truncated, and whose stat may answer 0 for a full log. Since the last such answer, is an entry shown twice or out of order (`InOrderOnce`), or skipped between the first piece shown of the present file and the offset (`NothingSkipped`)? Is each shown in the end (`EventuallyShown`), does the offset come to the end of the log again and again, after truncations and false answers (`CatchesUp`), and is the poll in flight at the abort the last (`LastWords`, `TailEnds`)? Is all this, to the reader, a `Feed` (`ImplementsFeed`)? `TailInv` is the invariant behind the first two |
| `exec` | Every operation, with timeout, abort, failing client and a remote that outlives it. Is a success reported only of a command that ended well, with its whole input and output, in time (`NoFalseSuccess`, by `ExecInv`)? Does nothing reach `onData` after the result (`NothingAfterResult`)? Does a call settle that has a timeout, is aborted after it began, or whose command has ended (`Settles`)? |

`violation` runs, each one sentence of the repository against what the code does
(section 7): `session_host_fallback`, `session_leak`,
`entrypoint_resolver`, `sandbox_restart`, `sandbox_bad_policy`.

The passing runs are therefore conditional, and their conditions are the edge of
what the code guarantees: `FailClosed` needs handlers that do not overlap;
`Contained` needs a workload that is not restarted, and a mitmdump that runs
until the proxy is removed; `NothingLeftBehind` needs removals that work.
`NothingSkipped` promises less of a log that somebody truncates: the pieces written
before the first one shown of the new file may be lost (section 7). And of a log
whose size is misread as 0 all is shown again: `InOrderOnce`, `NothingSkipped` and
`ImplementsFeed` hold from one such answer to the next.

Every property of a passing run has a mutant in `PROJECT.json`: a plausible bug
(a set-up failure that degrades instead of failing, a dropped handle, a rule
after the DROP, an address that is never bound) under which TLC finds the property violated.

## 5. Fairness

`FairSpec` (Session) has weak fairness of the steps of `session_start`, of
`session_shutdown` and of each call while the host lives, and of `--rm`'s
removal. It says: a docker command that was issued returns, and the event loop
runs what it resumes. Node guarantees the second. The first is an assumption:
`dockerExecRaw` has no timeout, so a docker command that hangs does block its
handler for ever (this is in the hazard list). Nothing makes the host deliver
an event, a proxy become ready or a container crash; in particular
`HandlersReturn` holds for a proxy that never becomes ready, because the poll
has a deadline. A step that depends on a container's state has a failing
alternative whenever the succeeding one is not enabled, which is what makes weak
fairness enough.

`EFairSpec` (Entrypoint) has weak fairness of PID 1's steps and of mitmdump's
start and the watchdog: processes make progress. No fault is fair.

`FairSpec` (PolicyGate) has weak fairness of the DNS thread. It includes
`UpstreamFails`, because the socket has a timeout; the reply itself is not fair.
Nothing makes the workload ask or mitmproxy deliver a request.

`TailFairSpec` (AuditTail) has weak fairness of a poll's steps: the timer fires and a
docker command ends, one way or the other. The failure is a step too, so this
alone would allow a docker that fails for ever; strong fairness of the two
successful returns rules that out *while the proxy is up*, where the code relies
on it by polling again after an error. A false size is not fair; nothing says it
stops, so `CatchesUp` promises that the offset is at the end of a log that has fallen
silent infinitely often, not that it stays there. `TailEnds` uses the weak part only: the
proxy is usually gone when the tail is aborted.

`ExecFairSpec` (Exec) has weak fairness of what the event loop delivers (spawn, timer, data,
`error`, `close`), of a killed client's end, and of a client reporting an ended
remote. The remote may run and the client hang for ever; nothing is fair about
an abort or about a client that fails by itself.

## 6. Proofs

All proofs are checked by TLAPS. Assumptions on the constants: workload, proxy,
`None` and `Host` values are distinct (`DockerAssumption`, `SessionAssumption`),
and so are addresses and `Unresolved`, while the policy files are sequences of
entries, of any length and with any rules (`GateAssumption`); the number of
attempts, of writes, of chunks and of pieces is a number (`EntrypointAssumption`,
`AuditTailAssumption`, `ExecAssumption`). `Adversity`, `Faults` and the sets are
arbitrary otherwise, so the theorems hold for any number of containers, calls
and sessions. Where a theorem needs a well-behaved environment, it says which:

- `Serial`: `"parallel"` is not in `Adversity`; `Sequential`: neither is
  `"earlyShutdown"`; `Reliable`: `Sequential`, and `"rmFails"` is not either;
- `ProxyLasts`: the only fault of the proxy is a failing iptables command;
  `Undisturbed`: moreover no workload is restarted, and there is at most one.

| theorem | says | argument |
|---|---|---|
| `TypeCorrect` | `Spec => []TypeOK` | inductive as it stands; the three conjuncts that say which local variables a waiting `session_start` has set are what the later proofs use |
| `EgressBeforeUseHolds` | `Spec => []EgressBeforeUse`, for every adversity | `EgressInv`: an active session under a policy has a container with the CA in it, and only an active session names a container. Lemma `SessionStep` lists what any step can do to the state, `RouteStep` what it can do to a call's route: a route is always `None`, `Host`, the old one or `session.container` |
| `FailClosedWhenSerial` | `Serial => (Spec => []FailClosed)`, `Serial` being `"parallel" \notin Adversity` | `FailClosed` alone is not inductive: a suspended call must find the state it left. `SerialInv` says so: a checking call implies no other suspended handler and a state that still names its container |
| `AuditTailedHolds` | `Spec => []AuditTailed`, for every adversity | inductive with `TypeOK` |
| `SerialInvHolds`, `EgressInvHolds` | the two strengthenings, as invariants of their own | the runs check the same formulas |
| `OneAtATimeHolds`, `SessionImplementsContainment` | `Sequential => (Spec => Routing!Spec)` | at most one handler is suspended. Lemmas `ManagesStep`, `OpensStep`, `CallsStep` sort the steps of `Session` into those that close the box or stutter, open it, and let a call through or return it |
| `ShutdownInvHolds`, `ProxyGoneFirstHolds`, `NothingLeftBehindHolds` | `Reliable => (Spec => [] ...)` | `ShutdownInv`: an active session's containers are those of the last `session_start`; a shutdown works on them one after the other, and what it has removed is over for good (names are never reused) |
| `ETypeCorrect`, `ChainsInvHolds` | `ESpec => []ETypeOK`, `ESpec => []ChainsInv` | `ChainsInv`: while the set-up runs, each chain is what its commands so far make of it (`BuiltBy`); all have run once the marker is written; the tear-down then undoes the chains one after the other (`UndoneBy`) |
| `ReadyMeansFilteredHolds`, `TornDownHolds` | for every set of faults and number of attempts | from `ChainsInv`: it fixes the rules of the finished chains, and `Verdict` is compared with `Documented`, and with `Excepted`, for every class of packet |
| `STypeCorrect` | `SSpec => []STypeOK` | from the implementation theorems |
| `ContainedHolds` | `Undisturbed => (SSpec => []Contained)` | `ProxyInv` (the proxy's processes end only when it is killed, and the marker implies the whole set-up), `LinkInv` (the extension trusts the CA only after the marker) and `AttachedInv` (a workload that runs is in the namespace with the rules); the rules themselves are `ReadyMeansFiltered` |
| `ActiveOnlyWhenSetUpHolds` | `ProxyLasts => (SSpec => ActiveOnlyWhenSetUp)` | a session with a policy becomes active in `InstallCert` only, and `LinkInv` then gives the marker and the certificate, `ReadyMeansFiltered` the rules |
| `SandboxImplementsSession` | `SSpec => Spec` | a step of the composition is a step of `Session` or leaves its variables alone |
| `SandboxImplementsEntrypoint` | `SSpec => ESpec` | the same for the entrypoint; `docker rm -f` is a kill |
| `SandboxKeepsGuarantees` | `SSpec => [](EgressBeforeUse /\ AuditTailed /\ ReadyMeansFiltered /\ TornDown)`, for every adversity and every set of faults | from the two implementation theorems |
| `SandboxImplementsContainment`, `SandboxShutsDown` | `Sequential => (SSpec => ImplementsContainment)`, `Reliable => (SSpec => [](ProxyGoneFirst /\ NothingLeftBehind))` | from the implementation theorem: the abstract proxy of `Session` was enough |
| `CheckPolicyIsDocumented` | for every file, host, path and method, `CheckPolicy(NetworkPolicies(file), ...)` is the action of the last matching rule, or no decision without one | see below |
| `GateTypeCorrect` | `Spec => []GateTypeOK` of `PolicyGate`, for any files, hosts and addresses | inductive; `AuditAppends` says what one audit call does to the log |
| `LearnedAddressAcceptedHolds` | `Spec => LearnedAddressAccepted` | the invariant `Ahead`: what the workload was told is bound, and what an answer on its way will tell is bound or still to be recorded, none of it being left when the answer is sent |
| `AuditedOnceHolds` | `Spec => []AuditedOnce` | `OneEntry`: until its decision, a query or request has no entry |
| `DecidedAsDocumentedHolds` | `Spec => []DecidedAsDocumented`, for any files | `CheckPolicyIsDocumented`, with `FileHolds` (the file is a sequence of entries and never changes) and `OneEntry` |
| `GateImplementsMonitor` | `Spec => ImplementsMonitor` | step by step. `Ahead` makes an answer of the DNS thread a `Tell` of bound addresses. `Checked` says that what is recorded is a name of the file, so that recording is a `Bind`, and that a request past its check has a bound destination, bindings never being taken back, so that the decision is an `Answer`, `CheckPolicyIsDocumented` giving its value |
| `RefusedNamesAreUselessHolds` | `Spec => []RefusedNamesAreUseless`, for any file | `NotInFile`: a refused name is not among `AllowedHosts`; lemma `UnlistedHostIsDenied`: the documented decision on any request to such a name is DENY |
| `TailTypeCorrect`, `TailInvHolds`, `InOrderOnceHolds`, `NothingSkippedHolds` | for any number of writes, with or without truncation | `TailInv`: what was shown since the last false size lies before the offset, and once something of the present file was shown, neither offset nor stale size is past its end. Lemma `AnswerStep`: a true size moves the offset only if nothing of the present file was shown, a false one begins anew |
| `LastWordsHolds` | `TailSpec => LastWords` | only the return of `tail` shows anything, and it consults the signal |
| `TailImplementsFeed` | `TailSpec => ImplementsFeed` | from `TailInv`: the last entry shown, if it is in the present file, is the one before the offset, so a read goes on where the last run ended (lemma `ReadShows`); a false size that rewinds the tail is a `StartOver` |
| `ExecTypeCorrect`, `ExecInvHolds`, `NoFalseSuccessHolds` | for any amount of output and content | `ExecInv`: exit code 0 comes only from a remote that ended while its client was there to feed it |
| `NothingAfterResultHolds` | `ExecSpec => NothingAfterResult` | `ExecInv`: whoever settles leaves no output to arrive |

**Loops.** The library's induction theorems take the property as an operator, which
the provers here cannot instantiate. `PolicyProofs` therefore derives induction
for *sets* from the theorem that a well-founded relation has minimal elements
(`WFMin`): `LeastElement`, then `Induction` and `TurnInduction` (a set that has 0,
and with n also n+1, has every number up to a bound). Each loop is proved by
applying that to the set of the turns after which the statement holds: that the
compiled rules are the rules that compile, in their order; that `LastMatch` is the
last applicable rule of an entry; and that the outer loop carries it across
entries.

Only model-checked: liveness (`HandlersReturn`, `EntrypointSettles`,
`QueriesAnswered`, `EventuallyShown`, `CatchesUp`, `TailEnds`, `Settles`), which
is out of the prover's reach.

## 7. Where the code and its documentation part

| run | what the code does |
|---|---|
| `session_host_fallback` | `requireContainer` returns `state.container` *after* its await. If a shutdown or another call replaced the state meanwhile it returns `undefined`, and the overrides take that for "no sandbox" and run locally |
| `session_leak` | `session_shutdown` removes containers only in the state active; a session that failed keeps its proxy or workload running |
| `entrypoint_resolver` | a dead DNS thread ends mitmdump, and the tear-down then opens the namespace of a workload that lives on |
| `sandbox_restart` | a workload started again by `docker start` has a new namespace without rules, and calls go on in it |
| `sandbox_bad_policy` | the marker precedes the parsing of the policy, and the host only checks that the file exists |

Smaller ones, without a run:

- A `stat` that fails in a living proxy, or prints no number, counts as size 0
  (`egress.ts` 326-327), which resets the offset: the next poll shows the whole log
  again, although "previously-seen entries are not re-emitted" (`egress.ts` 301).
  `StatFallsBack` is that step, and `since` marks what is shown again.
- "All IPv6 is blocked" (`setup_iptables.py` 17), but root's is let out (line 100),
  as the comment in line 96 says; "Everything else from non-root is DROP'd" (15), but
  not on the loopback interface (85, 101). These are the packets of `Excepted`.
- `examples/README.md` 52-53 says "DNS is not intercepted" and "IPv6 is not
  intercepted: Only IPv4 iptables rules are set up"; UDP 53 is redirected to the
  DNS interceptor (`setup_iptables.py` 76-78) and IPv6 has a chain of its own (97-102).
- `docs/egress-control.md` 30-31 and 48 and `README.md` 143-144 start the proxy first and
  let the workload join its namespace; the code starts the workload first and the proxy
  joins the workload's (`egress.ts` 107-118), which is why the rules outlive the
  proxy and not a restart of the workload. `docs/egress-control.md` 46 says that
  the proxy "runs as non-root"; its image has `USER root` and the rules exempt root.
- A start that waits for docker when its session is shut down goes on and becomes
  active in a session that is closed (`index.ts` 117, 231); its containers are
  then found by the next shutdown, if there is one, or by none.
- The second of two overlapping calls that find the container dead builds its
  message from the state the first one left (`container undefined stopped`,
  `index.ts` 279).
- `entrypoint.py` writes the marker although every attempt at the certificate
  failed; the session fails only because the extension cannot read the file.
- Addresses in answers to other queries than A are passed on without being
  recorded (`dns_interceptor.py` 92), so a client that used them would be refused.
- `docs/container-sandbox.md` 82 relies on `--rm` when pi crashes. `--rm` removes
  a container that *stops*, and nothing stops a detached `sleep infinity`.
- `--sandbox-image` is read by `session_start`, but the image built locally is
  the one of `Dockerfile.template`, whatever the flag says (`README.md` 86).
- Audit entries go to `console.error` only; `README.md` 154 speaks of
  notifications.
- A signal that was already aborted never kills the docker client
  (`docker.ts` 211): the call runs until its command ends, and is then reported as aborted.
- Killing the client leaves the command in the container running; after a
  timeout or an abort it goes on.
- Content piped to a client that dies early raises EPIPE on a stream without an
  `error` listener (`docker.ts` 232).
- `exists` and `isDirectory` answer "no" when docker
  itself fails (`ops.ts` 132); a limited glob succeeds although `find` failed
  (`ops.ts` 206).
- Of the audit log, what is written after the last poll before the abort is never shown; an entry longer
  than one `write()` may be shown in two parts; a truncated log that has grown
  past the old offset by the next poll loses the entries before it.

## 8. Plan

Order: what decides between the container and the host first, then what filters,
then what decides a request, then what reports.

1. `Docker`, `Session` with `SessionProofs` - done.
2. `Firewall`, `Entrypoint` - done.
3. `Sandbox` with `SandboxProofs` - done.
4. `Policy`, `PolicyGate` with `PolicyGateProofs` - done.
5. `AuditTail` with `AuditTailProofs` - done.
6. `Exec` with `ExecProofs` - done.
7. `Containment`, implemented by `Session` without overlap - done.
8. Proofs of what was only model-checked: `SequentialProofs`, `EntrypointProofs`,
   `Contained` - done.
9. `PolicyProofs`: the loops of `policy.py` compute the documented decision - done.
10. `Monitor`, implemented by `PolicyGate`, and `Feed`, implemented by `AuditTail` - done.

Left: several sessions in `Sandbox`, which needs one set of the entrypoint's
variables per proxy.

## 9. Not modelled

- The text of command lines and of results (`ops.ts`, quoting, parsing of `stat`
  and `find` output): `Exec` has what decides between success and failure.
- Image builds and publishing, the system prompt and `/sandbox-status`: text,
  and recipes run by docker.
- TLS interception and HTTP parsing by mitmproxy, name resolution by the
  upstream server, iptables itself beyond the three chains: external.
- A policy file that is empty or has no `networkPolicies` key (`policy.py` 108-110):
  in `Policy` a file is its list of entries. It is rejected like the ones that
  `Rejected` describes, and `Entrypoint` has the rejection (`PolicyRejected`), whatever
  its cause.
- The trailing dot of a host name: it is stripped from the name of a query
  (`dns_interceptor.py` 74) and not from the host of a request (`policy.py` 178), so a
  request to `h.` finds neither binding nor rules and is refused. Hosts are opaque
  values here, and queries and requests name them without the dot.
- Durations: a timeout is a choice.
