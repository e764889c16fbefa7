----------------------------- MODULE AuditTail ------------------------------
(***************************************************************************)
(* tailAuditLog (pi-extension/src/egress.ts): one chain of polls that      *)
(* reads what was appended to the audit log in the proxy container and     *)
(* shows it.  A poll is two docker commands, stat for the size and tail    *)
(* from the offset, and the log moves on between them.  The shell answers  *)
(* 0 for a stat that fails, which the tail takes for an emptied log.       *)
(*                                                                         *)
(* A piece is what one write() of the proxy appends; pieces are numbered   *)
(* as they are written, over all incarnations of the file, and sizes and   *)
(* offsets count pieces.  The file holds the pieces base+1 .. written.     *)
(***************************************************************************)
EXTENDS Integers, Sequences

CONSTANTS
  MaxWrites,   \* bound on the pieces the proxy writes
  MaxShown,    \* bound on the pieces shown before the tail is rewound once more
  MayTruncate  \* TRUE if the log may be truncated or rotated under the tail

ASSUME AuditTailAssumption ==
  MaxWrites \in Nat /\ MaxShown \in Nat /\ MayTruncate \in BOOLEAN

VARIABLES
  written,   \* pieces written so far
  base,      \* pieces that truncations have removed
  proxy,     \* is the proxy container there to run a docker exec?
  pc,        \* the poll: "waiting" on its timer, "stat" or "tail" in flight, "over"
  aborted,   \* ac.signal.aborted
  offset,    \* byteOffset
  size,      \* currentSize: what stat said, kept while tail runs
  shown,     \* what onLine was called with, in order
  since      \* history: how much of it, when a false size last rewound the tail

logVars == <<written, base, proxy>>
tailVars == <<pc, aborted, offset, size, shown, since>>
tvars == <<logVars, tailVars>>

FileSize == written - base

TailTypeOK ==
  /\ written \in 0..MaxWrites
  /\ base \in 0..written
  /\ proxy \in {"up", "gone"}
  /\ pc \in {"waiting", "stat", "tail", "over"}
  /\ aborted \in BOOLEAN
  /\ offset \in 0..MaxWrites
  /\ size \in 0..MaxWrites
  /\ shown \in Seq(1..MaxWrites)
  /\ since \in 0..Len(shown)

\* the first tick is called at once
TailInit ==
  /\ written = 0 /\ base = 0
  /\ proxy = "up"
  /\ pc = "stat"
  /\ aborted = FALSE
  /\ offset = 0 /\ size = 0
  /\ shown = <<>> /\ since = 0

-----------------------------------------------------------------------------
\* Mutant: the chain goes on whether or not it was aborted.
RescheduleAlways == pc' = "waiting"

\* the end of a poll
Reschedule == pc' = IF aborted THEN "over" ELSE "waiting"

\* the timer fires; nobody clears it on abort
Tick ==
  /\ pc = "waiting"
  /\ pc' = IF aborted THEN "over" ELSE "stat"
  /\ UNCHANGED <<logVars, aborted, offset, size, shown, since>>

\* Mutant: the offset moves when the size is known, before the read succeeded.
StatAnswersAdvances(answer) ==
  /\ pc = "stat" /\ proxy = "up"
  /\ size' = answer
  /\ offset' = answer
  /\ IF offset' > offset THEN pc' = "tail" ELSE Reschedule
  /\ UNCHANGED <<logVars, aborted, shown, since>>

\* Mutant: an offset past the end of the file is kept.
StatAnswersKeepsOffset(answer) ==
  /\ pc = "stat" /\ proxy = "up"
  /\ size' = answer
  /\ IF offset >= answer THEN Reschedule ELSE pc' = "tail"
  /\ UNCHANGED <<logVars, aborted, offset, shown, since>>

\* a file that shrank is read from its beginning; no new bytes end the poll
StatAnswers(answer) ==
  /\ pc = "stat" /\ proxy = "up"
  /\ size' = answer
  /\ offset' = IF answer < offset THEN 0 ELSE offset
  /\ since' = IF answer < offset /\ answer # FileSize THEN Len(shown) ELSE since
  /\ IF offset' >= answer THEN Reschedule ELSE pc' = "tail"
  /\ UNCHANGED <<logVars, aborted, shown>>

StatReturns == StatAnswers(FileSize)

\* stat fails in a living proxy (`|| echo 0`), or what it prints is no number
\* (`|| 0`): the command resolves, with size 0 for a log that may be full
StatFallsBack ==
  /\ Len(shown) < MaxShown
  /\ StatAnswers(0)

\* the pieces after the offset, up to the end of the file as it now is
NewContent == [i \in 1..(IF offset < FileSize THEN FileSize - offset ELSE 0) |-> base + offset + i]

\* Mutant: the offset becomes the size that stat saw, not what was read.
TailReturnsStale ==
  /\ pc = "tail" /\ proxy = "up"
  /\ shown' = shown \o NewContent
  /\ offset' = size
  /\ Reschedule
  /\ UNCHANGED <<logVars, aborted, size, since>>

\* Mutant: the stale size is added to what was read.
TailReturnsAdds ==
  /\ pc = "tail" /\ proxy = "up"
  /\ shown' = shown \o NewContent
  /\ offset' = size + Len(NewContent)
  /\ Reschedule
  /\ UNCHANGED <<logVars, aborted, size, since>>

\* all of it is shown; an empty read (the file shrank since) trusts the size
TailReturns ==
  /\ pc = "tail" /\ proxy = "up"
  /\ shown' = shown \o NewContent
  /\ offset' = IF Len(NewContent) > 0 THEN offset + Len(NewContent) ELSE size
  /\ Reschedule
  /\ UNCHANGED <<logVars, aborted, size, since>>

\* Mutant: the catch block polls again at once.
ExecFailsRetries ==
  /\ pc \in {"stat", "tail"}
  /\ pc' = "stat"
  /\ UNCHANGED <<logVars, aborted, offset, size, shown, since>>

\* Mutant: the catch block ends the chain.
ExecFailsGivesUp ==
  /\ pc \in {"stat", "tail"}
  /\ pc' = "over"
  /\ UNCHANGED <<logVars, aborted, offset, size, shown, since>>

\* either command fails, the proxy being there or not; the catch block is empty
ExecFails ==
  /\ pc \in {"stat", "tail"}
  /\ Reschedule
  /\ UNCHANGED <<logVars, aborted, offset, size, shown, since>>

\* stopEgressProxy aborts the tail, whatever its poll is doing
Abort ==
  /\ ~aborted
  /\ aborted' = TRUE
  /\ UNCHANGED <<logVars, pc, offset, size, shown, since>>

-----------------------------------------------------------------------------
\* _audit, in either thread of the proxy
Write ==
  /\ proxy = "up" /\ written < MaxWrites
  /\ written' = written + 1
  /\ UNCHANGED <<base, proxy, tailVars>>

\* somebody empties the file or moves it away
Truncate ==
  /\ MayTruncate /\ proxy = "up" /\ base < written
  /\ base' = written
  /\ UNCHANGED <<written, proxy, tailVars>>

\* it is removed by the shutdown, or dies
ProxyGoes ==
  /\ proxy = "up"
  /\ proxy' = "gone"
  /\ UNCHANGED <<written, base, tailVars>>

PollStep == Tick \/ StatReturns \/ StatFallsBack \/ TailReturns \/ ExecFails

TailNext == PollStep \/ Abort \/ Write \/ Truncate \/ ProxyGoes

TailSpec == TailInit /\ [][TailNext]_tvars

\* The timer fires and a docker command ends, one way or the other; while the
\* proxy is there to answer, commands do not fail for ever.
TailFairSpec ==
  /\ TailSpec
  /\ WF_tvars(PollStep)
  /\ SF_tvars(StatReturns)
  /\ SF_tvars(TailReturns)

-----------------------------------------------------------------------------
\* "previously-seen entries are not re-emitted" (egress.ts 301-304), unless a size
\* was false: since the tail was last rewound by one, no piece was shown twice or
\* before an older one, although the size is stale when it is used, polls fail,
\* and the file is truncated at any point of a poll.
InOrderOnce ==
  \A i, j \in (since + 1)..Len(shown) : i < j => shown[i] < shown[j]

\* A failed or stale poll skips nothing (egress.ts 320-357): of the present file,
\* everything between the first piece shown (since the last false size) and the
\* offset was shown, and that is the whole file up to there if nobody ever
\* truncated it.
NothingSkipped ==
  /\ base = 0 => Len(shown) - since = offset
  /\ \A i \in (since + 1)..Len(shown) :
       shown[i] > base => shown[i] = base + offset - (Len(shown) - i)

\* What makes them inductive: since the last false size, everything shown lies
\* before the offset, and once something of the present file has been shown,
\* neither the offset nor the size a poll has in hand is past its end, so that only
\* another false size resets the offset to 0, and a stale size becomes the offset
\* only when nothing of the present file was shown.
TailInv ==
  /\ InOrderOnce
  /\ NothingSkipped
  /\ pc = "tail" => offset < size /\ (base = 0 => size <= FileSize)
  /\ \A i \in 1..Len(shown) : shown[i] <= written
  /\ \A i \in (since + 1)..Len(shown) :
       /\ shown[i] <= base + offset
       /\ shown[i] > base => offset <= FileSize /\ (pc = "tail" => size <= FileSize)

\* After the abort only the poll in flight may still show something, and it is
\* the last one (the signal is looked at between polls, egress.ts 314-363).
LastWords ==
  [][aborted /\ shown' # shown => pc' = "over"]_tvars

\* The tail as its reader sees it: an abort closes it, after the poll in flight.
Phase ==
  IF ~aborted THEN "open"
  ELSE IF pc \in {"stat", "tail"} THEN "closing"
  ELSE "closed"

Followed == INSTANCE Feed WITH phase <- Phase

\* Polls with a stale size, failures, truncations and the abort in any order look
\* to the reader like runs of consecutive entries, each begun where the one before
\* it ended as long as the log was not emptied between them, and at most one of
\* them after the abort; it starts over only for a false size (egress.ts 306-371).
ImplementsFeed == Followed!Spec

\* An entry is eventually shown, unless the tail is aborted, the proxy goes
\* or the file is truncated (egress.ts 313-365).
Shows(p) == \E i \in 1..Len(shown) : shown[i] = p

EventuallyShown ==
  \A p \in 1..MaxWrites :
    written >= p ~> (Shows(p) \/ aborted \/ proxy = "gone" \/ base > 0)

\* "If the file was truncated (e.g. log rotation), the offset resets to 0"
\* (egress.ts 303-304): a tail that is left alone with a living proxy, when the log
\* has fallen silent, is at the end of the file again and again: it neither stays
\* behind it nor past it, although a false size may take it back to the start.
CatchesUp ==
  []<>(offset = FileSize) \/ <>(aborted \/ proxy = "gone")

\* An aborted tail ends, also when its proxy is gone and every command fails.
TailEnds == aborted ~> pc = "over"
=============================================================================
