-------------------------------- MODULE Exec --------------------------------
(***************************************************************************)
(* One operation of a containerised tool (pi-extension/src/ops.ts) and the *)
(* docker client it spawns (execInContainer and dockerExecRaw, docker.ts): *)
(* the events of the child process, the timeout and the abort signal race  *)
(* to settle one promise, whose outcome the operation turns into a result. *)
(*                                                                         *)
(* Three processes take part.  The docker client is the child of the       *)
(* extension; killing it ends the client only.  The command in the         *)
(* container is the remote: it writes output, may read the content passed  *)
(* on stdin, and ends with success or failure.                             *)
(***************************************************************************)
EXTENDS Naturals

CONSTANTS
  MaxOut,   \* bound on the chunks the remote writes to each stream
  MaxIn     \* pieces of the content passed on stdin

ASSUME ExecAssumption == MaxOut \in Nat /\ MaxIn \in Nat \ {0}

-----------------------------------------------------------------------------
(***************************************************************************)
(* The operations.  verdict: what the operation makes of an exit code;     *)
(* stdin: content is piped in; ui: called with onData, signal and timeout; *)
(* masked: the remote is a pipeline whose status hides find's.             *)
(***************************************************************************)
Verdicts == {"throws", "predicate", "lenient", "passes"}
Kinds == [verdict : Verdicts, stdin : BOOLEAN, ui : BOOLEAN, masked : BOOLEAN]

Op(verdict) == [verdict |-> verdict, stdin |-> FALSE, ui |-> FALSE, masked |-> FALSE]

\* dockerExecRaw, without and with content (docker build reads its Dockerfile)
DockerRaw ==
  [run   |-> Op("throws"),
   build |-> [Op("throws") EXCEPT !.stdin = TRUE]]

DockerReadOps ==
  [readFile            |-> Op("throws"),
   access              |-> Op("throws"),
   detectImageMimeType |-> Op("lenient")]

DockerWriteOps ==
  [writeFile |-> [Op("throws") EXCEPT !.stdin = TRUE],
   mkdir     |-> Op("throws")]

DockerEditOps ==
  [readFile  |-> DockerReadOps.readFile,
   writeFile |-> DockerWriteOps.writeFile,
   access    |-> DockerReadOps.access]

\* the command's output reaches the tool through onData alone
DockerBashOps ==
  [exec |-> [Op("passes") EXCEPT !.ui = TRUE]]

DockerLsOps ==
  [exists  |-> Op("predicate"),
   stat    |-> Op("throws"),
   readdir |-> Op("throws")]

DockerGrepOps ==
  [isDirectory |-> Op("predicate"),
   readFile    |-> Op("throws")]

\* glob with a limit pipes find into head
DockerFindOps ==
  [exists      |-> Op("predicate"),
   glob        |-> Op("throws"),
   globLimited |-> [Op("throws") EXCEPT !.masked = TRUE]]

Ops ==
  UNION {{f[name] : name \in DOMAIN f} :
           f \in {DockerRaw, DockerReadOps, DockerWriteOps, DockerEditOps,
                  DockerBashOps, DockerLsOps, DockerGrepOps, DockerFindOps}}

-----------------------------------------------------------------------------
VARIABLES
  op,        \* the operation
  signal,    \* "quiet", "aborted", or "stale": aborted before the call
  timeout,   \* a timeout was given
  child,     \* the docker client, as the extension sees it
  code,      \* its exit code; "null" when a signal ended it
  killed,    \* child.kill() has reached a living client
  timer,     \* "off", "armed", "fired" (timedOut is timer = "fired")
  listening, \* onAbort is registered on the signal
  remote,    \* the command in the container
  fed,       \* pieces of the content that have reached the remote
  wrote,     \* chunks per stream that the remote has written
  captured,  \* chunks per stream that the data handlers have received
  result     \* what the caller of the operation has got

callVars == <<op, timeout>>
remoteVars == <<remote, fed, wrote>>
clientVars == <<child, code, killed>>
evars == <<callVars, signal, clientVars, timer, listening, remoteVars, captured, result>>

Streams == {"stdout", "stderr"}
Results == {"value", "true", "false", "null", "zero", "nonzero", "noCode",
            "error", "aborted", "timeout"}

ExecTypeOK ==
  /\ op \in Kinds
  /\ signal \in {"quiet", "aborted", "stale"}
  /\ timeout \in BOOLEAN
  /\ child \in {"none", "running", "unspawnable", "exited", "closed"}
  /\ code \in {"none", "zero", "nonzero", "null"}
  /\ killed \in BOOLEAN
  /\ timer \in {"off", "armed", "fired"}
  /\ listening \in BOOLEAN
  /\ remote \in {"none", "running", "succeeded", "failed"}
  /\ fed \in 0..MaxIn
  /\ wrote \in [Streams -> 0..MaxOut]
  /\ captured \in [Streams -> 0..MaxOut]
  /\ result \in Results \cup {"none", "crash"}

ExecInit ==
  /\ op \in Ops
  /\ signal \in IF op.ui THEN {"quiet", "stale"} ELSE {"quiet"}
  /\ timeout \in IF op.ui THEN BOOLEAN ELSE {FALSE}
  /\ child = "none" /\ code = "none" /\ killed = FALSE
  /\ timer = "off" /\ listening = FALSE
  /\ remote = "none" /\ fed = 0
  /\ wrote = [s \in Streams |-> 0]
  /\ captured = [s \in Streams |-> 0]
  /\ result = "none"

Content == IF op.stdin THEN MaxIn ELSE 0

Alive == result # "crash"
Settled == result # "none"

-----------------------------------------------------------------------------
(***************************************************************************)
(* The extension                                                           *)
(***************************************************************************)
\* the promise's executor: the client starts, or cannot be started
Spawn ==
  /\ child = "none"
  /\ child' \in {"running", "unspawnable"}
  /\ timer' = IF timeout THEN "armed" ELSE "off"
  /\ listening' = op.ui
  /\ UNCHANGED <<callVars, signal, code, killed, remoteVars, captured, result>>

\* child.kill(): no effect on a client that has ended or never began
Kill == killed' = (killed \/ child = "running")

\* Mutant: the timeout is recorded and the client left alone.
TimerFiresOnlyFlags ==
  /\ Alive /\ timer = "armed"
  /\ timer' = "fired"
  /\ UNCHANGED <<callVars, signal, clientVars, listening, remoteVars, captured, result>>

TimerFires ==
  /\ Alive /\ timer = "armed"
  /\ timer' = "fired"
  /\ Kill
  /\ UNCHANGED <<callVars, signal, child, code, listening, remoteVars, captured, result>>

\* the user aborts; a stale signal never dispatches the event again
Abort ==
  /\ Alive /\ child # "none"
  /\ op.ui /\ signal = "quiet"
  /\ signal' = "aborted"
  /\ listening' = FALSE
  /\ IF listening THEN Kill ELSE UNCHANGED killed
  /\ UNCHANGED <<callVars, child, code, timer, remoteVars, captured, result>>

\* Mutant: a chunk is taken twice.
DataArrivesTwice(s) ==
  /\ Alive
  /\ captured[s] < wrote[s]
  /\ captured' = [captured EXCEPT ![s] = @ + 2]
  /\ UNCHANGED <<callVars, signal, clientVars, timer, listening, remoteVars, result>>

\* a "data" event of one stream: captured, and streamed when onData was given
DataArrives(s) ==
  /\ Alive
  /\ captured[s] < wrote[s]
  /\ captured' = [captured EXCEPT ![s] = @ + 1]
  /\ UNCHANGED <<callVars, signal, clientVars, timer, listening, remoteVars, result>>

\* detectImageMimeType catches a rejection, every other operation passes it on
Rejects(cause) == IF op.verdict = "lenient" THEN "null" ELSE cause

\* "error" when the client could not be spawned; "close" follows
OnError ==
  /\ Alive /\ child = "unspawnable"
  /\ child' = "exited" /\ code' = "nonzero"
  /\ timer' = IF timer = "armed" THEN "off" ELSE timer
  /\ result' = Rejects("error")
  /\ UNCHANGED <<callVars, signal, killed, listening, remoteVars, captured>>

\* Mutant: an operation that throws does not look at the code.
ResolvesUnchecked ==
  CASE op.verdict = "throws"    -> "value"
    [] op.verdict = "predicate" -> IF code = "zero" THEN "true" ELSE "false"
    [] op.verdict = "lenient"   -> IF code = "zero" THEN "value" ELSE "null"
    [] op.verdict = "passes"    -> IF code = "null" THEN "noCode" ELSE code

\* what an operation makes of an exit code
Resolves ==
  CASE op.verdict = "throws"    -> IF code = "zero" THEN "value" ELSE "error"
    [] op.verdict = "predicate" -> IF code = "zero" THEN "true" ELSE "false"
    [] op.verdict = "lenient"   -> IF code = "zero" THEN "value" ELSE "null"
    [] op.verdict = "passes"    -> IF code = "null" THEN "noCode" ELSE code

\* Mutant: a code counts, though the timeout fired before the client ended.
OutcomeForgetsTimeout == IF signal # "quiet" THEN Rejects("aborted") ELSE Resolves

\* an abort, even a stale one, goes before a timeout, and both before the code
Outcome ==
  IF signal # "quiet" THEN Rejects("aborted")
  ELSE IF timer = "fired" THEN Rejects("timeout")
  ELSE Resolves

\* Mutant: the promise settles on "exit", before the streams are drained.
OnCloseAtExit ==
  /\ Alive /\ child = "exited"
  /\ child' = "closed"
  /\ timer' = IF timer = "armed" THEN "off" ELSE timer
  /\ listening' = FALSE
  /\ result' = IF Settled THEN result ELSE Outcome
  /\ UNCHANGED <<callVars, signal, code, killed, remoteVars, captured>>

\* "close": the client has ended and its streams are drained
OnClose ==
  /\ Alive /\ child = "exited" /\ captured = wrote
  /\ child' = "closed"
  /\ timer' = IF timer = "armed" THEN "off" ELSE timer
  /\ listening' = FALSE
  /\ result' = IF Settled THEN result ELSE Outcome
  /\ UNCHANGED <<callVars, signal, code, killed, remoteVars, captured>>

\* EPIPE on child.stdin, which has no "error" listener: an uncaught exception
StdinBreaks ==
  /\ Alive /\ child = "exited" /\ ~Settled
  /\ fed < Content
  /\ result' = "crash"
  /\ UNCHANGED <<callVars, signal, clientVars, timer, listening, remoteVars, captured>>

-----------------------------------------------------------------------------
(***************************************************************************)
(* The docker client and the command in the container                      *)
(***************************************************************************)
RemoteStarts ==
  /\ child = "running" /\ remote = "none"
  /\ remote' = "running"
  /\ UNCHANGED <<callVars, signal, clientVars, timer, listening, fed, wrote, captured, result>>

RemoteReads ==
  /\ child = "running" /\ remote = "running" /\ fed < Content
  /\ fed' = fed + 1
  /\ UNCHANGED <<callVars, signal, clientVars, timer, listening, remote, wrote, captured, result>>

\* output of a remote whose client is gone is lost
RemoteWrites(s) ==
  /\ child = "running" /\ remote = "running" /\ wrote[s] < MaxOut
  /\ wrote' = [wrote EXCEPT ![s] = @ + 1]
  /\ UNCHANGED <<callVars, signal, clientVars, timer, listening, remote, fed, captured, result>>

\* A remote that reads its stdin succeeds at the end of it, which it also sees
\* when the client dies: `cat >` then has stored a part and is content.
RemoteEnds ==
  /\ remote = "running"
  /\ \/ remote' = "failed"
     \/ remote' = "succeeded" /\ (fed = Content \/ child # "running")
  /\ UNCHANGED <<callVars, signal, clientVars, timer, listening, fed, wrote, captured, result>>

\* the status of the remote: head succeeds whatever find did
Status == IF remote = "succeeded" \/ op.masked THEN "zero" ELSE "nonzero"

\* the client reports the remote's status
ClientReports ==
  /\ child = "running" /\ remote \in {"succeeded", "failed"}
  /\ child' = "exited" /\ code' = Status
  /\ UNCHANGED <<callVars, signal, killed, timer, listening, remoteVars, captured, result>>

\* it is killed, or has no container or daemon to talk to; the remote, if there
\* is one, goes on
ClientFails ==
  /\ child = "running"
  /\ child' = "exited" /\ code' \in {"nonzero", "null"}
  /\ UNCHANGED <<callVars, signal, killed, timer, listening, remoteVars, captured, result>>

-----------------------------------------------------------------------------
ExecNext ==
  \/ Spawn \/ TimerFires \/ Abort \/ OnError \/ OnClose \/ StdinBreaks
  \/ \E s \in Streams : DataArrives(s) \/ RemoteWrites(s)
  \/ RemoteStarts \/ RemoteReads \/ RemoteEnds \/ ClientReports \/ ClientFails

ExecSpec == ExecInit /\ [][ExecNext]_evars

\* The event loop delivers what is there; a client ends when it is killed or its
\* remote has ended.  The remote itself may run, and a client hang, for ever.
ExecFairSpec ==
  /\ ExecSpec
  /\ WF_evars(Spawn) /\ WF_evars(TimerFires) /\ WF_evars(OnError) /\ WF_evars(OnClose)
  /\ \A s \in Streams : WF_evars(DataArrives(s))
  /\ WF_evars(ClientReports)
  /\ WF_evars(killed /\ ClientFails)

-----------------------------------------------------------------------------
\* An operation that reports success did succeed: the command ended well (find's
\* failure behind head excepted), everything it wrote was received, all the
\* content passed to it arrived, and the call had not timed out - whatever the
\* abort, the timeout and the end of the client did to each other, and although
\* a remote cut off from its client may succeed on half its input (docker.ts
\* 188-236 and the exit code checks of ops.ts).
NoFalseSuccess ==
  result \in {"value", "true", "zero"} =>
    /\ remote = "succeeded" \/ (op.masked /\ remote = "failed")
    /\ captured = wrote
    /\ fed = Content
    /\ timer # "fired"

\* What makes it inductive: code 0 comes from a remote that ended while its
\* client was there to pass on its input, and from nothing else; and whoever
\* settles the promise does so when no output is left to arrive.
ExecInv ==
  /\ child = "running" /\ remote = "succeeded" => fed = Content
  /\ op.masked => ~op.stdin
  /\ fed <= Content
  /\ code = "zero" =>
       /\ child \in {"exited", "closed"}
       /\ remote = "succeeded" \/ (op.masked /\ remote = "failed")
       /\ fed = Content
  /\ child \in {"none", "unspawnable"} => remote = "none" /\ captured = wrote
  /\ Settled /\ Alive => child \in {"exited", "closed"} /\ captured = wrote
  /\ child = "closed" => timer # "armed"
  /\ result \in {"value", "true", "zero"} => child = "closed" /\ code = "zero"
  /\ NoFalseSuccess

\* Once the caller has its result, nothing more reaches onData (docker.ts
\* 195-203 against 205-228).
NothingAfterResult == [][Settled => captured' = captured]_evars

\* A call with a timeout, one that is aborted after it began, and one whose
\* command has ended, settle - although the remote may run for ever, and the
\* remaining calls may hang with it (docker.ts 188-193, 210-211).
Settles ==
  /\ timeout => <>Settled
  /\ signal = "aborted" ~> Settled
  /\ remote \in {"succeeded", "failed"} ~> Settled
=============================================================================
