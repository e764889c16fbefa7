---------------------------- MODULE Containment -----------------------------
(***************************************************************************)
(* What the sandbox promises, without containers that die, commands that   *)
(* fail, or handlers that wait: a session is a box that is opened, used by *)
(* calls, and closed.  A call runs in the box that is open when it is let  *)
(* through; on the host only if the user opted out; else it is refused.    *)
(* Under an egress policy a box is opened only when it has been prepared.  *)
(***************************************************************************)
CONSTANTS
  Boxes,
  Calls,
  None,   \* no box; a call that is refused or not let through yet
  Host    \* outside any box

VARIABLES
  optOut,    \* the user asked for no sandbox
  policy,    \* the user asked for egress control
  box,       \* the open box
  prepared,  \* boxes whose egress set-up is complete
  route      \* where each call runs

vars == <<optOut, policy, box, prepared, route>>

Init ==
  /\ optOut \in BOOLEAN /\ policy \in BOOLEAN
  /\ box = None
  /\ prepared = {}
  /\ route = [c \in Calls |-> None]

\* a box is opened once the previous one was closed
Open(b) ==
  /\ box = None
  /\ box' = b
  /\ prepared' \in {prepared, prepared \cup {b}}
  /\ policy => b \in prepared'
  /\ UNCHANGED <<optOut, policy, route>>

\* the session ends, or is given up
Close ==
  /\ box # None
  /\ box' = None
  /\ UNCHANGED <<optOut, policy, prepared, route>>

LetThrough(c) ==
  /\ route[c] = None
  /\ \/ box # None /\ route' = [route EXCEPT ![c] = box]
     \/ optOut /\ route' = [route EXCEPT ![c] = Host]
  /\ UNCHANGED <<optOut, policy, box, prepared>>

Return(c) ==
  /\ route[c] # None
  /\ route' = [route EXCEPT ![c] = None]
  /\ UNCHANGED <<optOut, policy, box, prepared>>

Next ==
  \/ \E b \in Boxes : Open(b)
  \/ Close
  \/ \E c \in Calls : LetThrough(c) \/ Return(c)

Spec == Init /\ [][Next]_vars
=============================================================================
