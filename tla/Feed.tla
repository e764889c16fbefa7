-------------------------------- MODULE Feed ---------------------------------
(***************************************************************************)
(* What following the audit log promises, without polls, offsets and       *)
(* docker commands: the log grows and may be emptied; from time to time    *)
(* the reader shows what is new of it, each time a run of consecutive      *)
(* pieces up to the end of the file, until it is closed.  A run goes on    *)
(* where the last one ended, except that after the log was emptied it may  *)
(* begin later than the new file does, and that the reader starts over     *)
(* when it is told that the log is empty (egress.ts 296-304).              *)
(***************************************************************************)
EXTENDS Integers, Sequences

VARIABLES
  written,  \* pieces written so far, numbered from 1
  base,     \* those that are no longer in the file
  shown,    \* the pieces that were shown, in order
  since,    \* how many of them, when the reader last started over
  phase     \* "open", "closing": one more run may follow, "closed"

vars == <<written, base, shown, since, phase>>

Init ==
  /\ written = 0 /\ base = 0
  /\ shown = <<>> /\ since = 0
  /\ phase = "open"

Write ==
  /\ written' = written + 1
  /\ UNCHANGED <<base, shown, since, phase>>

Empty ==
  /\ base < written
  /\ base' = written
  /\ UNCHANGED <<written, shown, since, phase>>

\* the end of the last run, unless the reader started over
Newest == IF Len(shown) = since THEN 0 ELSE shown[Len(shown)]

\* a run, or what came instead of it, is the last one of a feed that is closing
Last == phase' = IF phase = "closing" THEN "closed" ELSE phase

Show(from) ==
  /\ phase # "closed"
  /\ base = 0 \/ base < Newest => from = Newest + 1
  /\ shown' = shown \o [i \in 1..(written - from + 1) |-> from + i - 1]
  /\ Last
  /\ UNCHANGED <<written, base, since>>

\* told that the log is empty
StartOver ==
  /\ phase # "closed"
  /\ since' = Len(shown)
  /\ Last
  /\ UNCHANGED <<written, base, shown>>

Close ==
  /\ phase = "open" /\ phase' \in {"closing", "closed"}
  /\ UNCHANGED <<written, base, shown, since>>

\* the last run has nothing to show
Closed ==
  /\ phase = "closing" /\ phase' = "closed"
  /\ UNCHANGED <<written, base, shown, since>>

Next ==
  \/ Write \/ Empty \/ StartOver \/ Close \/ Closed
  \/ \E from \in (base + 1)..written : Show(from)

Spec == Init /\ [][Next]_vars
=============================================================================
