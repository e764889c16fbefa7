----------------------------- MODULE ExecProofs -----------------------------
(* Proofs about Exec, for any amount of output and of content on stdin.     *)
EXTENDS Exec, TLAPS

\* Every operation of the tables has the shape of one.
LEMMA OpsAreKinds == Ops \subseteq Kinds /\ \A o \in Ops : o.masked => ~o.stdin
<1>1. \A v \in Verdicts : /\ Op(v) \in Kinds
                          /\ Op(v).masked = FALSE /\ Op(v).stdin = FALSE
  BY DEF Op, Kinds
<1>2. ASSUME NEW o \in Ops PROVE o \in Kinds /\ (o.masked => ~o.stdin)
  <2>1. PICK f \in {DockerRaw, DockerReadOps, DockerWriteOps, DockerEditOps,
                    DockerBashOps, DockerLsOps, DockerGrepOps, DockerFindOps} :
             o \in {f[name] : name \in DOMAIN f}
    BY <1>2 DEF Ops
  <2>2. \/ o \in {Op(v) : v \in Verdicts}
        \/ o = [Op("throws") EXCEPT !.stdin = TRUE]
        \/ o = [Op("passes") EXCEPT !.ui = TRUE]
        \/ o = [Op("throws") EXCEPT !.masked = TRUE]
    <3>1. CASE f = DockerRaw
      BY <2>1, <3>1 DEF DockerRaw, Verdicts
    <3>2. CASE f = DockerReadOps
      BY <2>1, <3>2 DEF DockerReadOps, Verdicts
    <3>3. CASE f = DockerWriteOps
      BY <2>1, <3>3 DEF DockerWriteOps, Verdicts
    <3>4. CASE f = DockerEditOps
      BY <2>1, <3>4 DEF DockerEditOps, DockerReadOps, DockerWriteOps, Verdicts
    <3>5. CASE f = DockerBashOps
      BY <2>1, <3>5 DEF DockerBashOps, Verdicts
    <3>6. CASE f = DockerLsOps
      BY <2>1, <3>6 DEF DockerLsOps, Verdicts
    <3>7. CASE f = DockerGrepOps
      BY <2>1, <3>7 DEF DockerGrepOps, Verdicts
    <3>8. CASE f = DockerFindOps
      BY <2>1, <3>8 DEF DockerFindOps, Verdicts
    <3> QED
      BY <2>1, <3>1, <3>2, <3>3, <3>4, <3>5, <3>6, <3>7, <3>8
  <2>3. "throws" \in Verdicts /\ "passes" \in Verdicts
    BY DEF Verdicts
  <2> QED
    BY <1>1, <2>2, <2>3 DEF Op, Kinds
<1> QED
  BY <1>2

-----------------------------------------------------------------------------
\* The state of one operation keeps its shape (docker.ts 163-228).
THEOREM ExecTypeCorrect == ExecSpec => []ExecTypeOK
<1>1. ExecInit => ExecTypeOK
  <2> SUFFICES ASSUME ExecInit
               PROVE  ExecTypeOK
    OBVIOUS
  <2>1. op \in Kinds
    BY OpsAreKinds DEF ExecInit
  <2>2. wrote \in [Streams -> 0..MaxOut] /\ captured \in [Streams -> 0..MaxOut] /\ fed \in 0..MaxIn
    BY ExecAssumption DEF ExecInit
  <2>3. signal \in {"quiet", "aborted", "stale"}
    BY DEF ExecInit
  <2>4. timeout \in BOOLEAN /\ listening \in BOOLEAN /\ killed \in BOOLEAN
    BY DEF ExecInit
  <2> QED
    BY <2>1, <2>2, <2>3, <2>4 DEF ExecInit, ExecTypeOK
<1>2. ExecTypeOK /\ [ExecNext]_evars => ExecTypeOK'
  <2> SUFFICES ASSUME ExecTypeOK, [ExecNext]_evars
               PROVE  ExecTypeOK'
    OBVIOUS
  <2> USE ExecAssumption DEF ExecTypeOK, callVars, clientVars, remoteVars
  <2>1. CASE Spawn
    BY <2>1 DEF Spawn, Kinds
  <2>2. CASE TimerFires
    BY <2>2 DEF TimerFires, Kill
  <2>3. CASE Abort
    BY <2>3 DEF Abort, Kill
  <2>4. CASE OnError
    BY <2>4 DEF OnError, Rejects, Results
  <2>5. CASE OnClose
    <3>1. Outcome \in Results \cup {"none"}
      BY DEF Outcome, Rejects, Resolves, Results, Kinds, Verdicts
    <3> QED
      BY <2>5, <3>1 DEF OnClose, Results
  <2>6. CASE StdinBreaks
    BY <2>6 DEF StdinBreaks
  <2>7. ASSUME NEW s \in Streams, DataArrives(s)
        PROVE  ExecTypeOK'
    BY <2>7 DEF DataArrives
  <2>8. ASSUME NEW s \in Streams, RemoteWrites(s)
        PROVE  ExecTypeOK'
    BY <2>8 DEF RemoteWrites
  <2>9. CASE RemoteStarts
    BY <2>9 DEF RemoteStarts
  <2>10. CASE RemoteReads
    BY <2>10 DEF RemoteReads, Content
  <2>11. CASE RemoteEnds
    BY <2>11 DEF RemoteEnds
  <2>12. CASE ClientReports
    BY <2>12 DEF ClientReports, Status
  <2>13. CASE ClientFails
    BY <2>13 DEF ClientFails
  <2>14. CASE UNCHANGED evars
    BY <2>14 DEF evars
  <2> QED
    BY <2>1, <2>2, <2>3, <2>4, <2>5, <2>6, <2>7, <2>8, <2>9, <2>10, <2>11, <2>12, <2>13, <2>14
    DEF ExecNext
<1> QED
  BY <1>1, <1>2, PTL DEF ExecSpec

\* A step keeps the bookkeeping of exit codes, input and output.
LEMMA ExecStep == ExecTypeOK /\ ExecInv /\ [ExecNext]_evars => ExecInv'
<1> SUFFICES ASSUME ExecTypeOK, ExecInv, [ExecNext]_evars
             PROVE  ExecInv'
  OBVIOUS
<1> USE DEF ExecInv, NoFalseSuccess, callVars, clientVars, remoteVars, Settled, Alive, Content
<1>1. CASE Spawn
  BY <1>1 DEF Spawn
<1>2. CASE TimerFires \/ Abort
  BY <1>2 DEF TimerFires, Abort
<1>4. CASE OnError
  BY <1>4 DEF OnError, Rejects
<1>5. CASE OnClose
  BY <1>5 DEF OnClose, Outcome, Resolves, Rejects, ExecTypeOK, Kinds, Verdicts
<1>6. CASE StdinBreaks
  BY <1>6 DEF StdinBreaks
<1>7. ASSUME NEW s \in Streams, DataArrives(s) \/ RemoteWrites(s)
      PROVE  ExecInv'
  BY <1>7 DEF DataArrives, RemoteWrites, ExecTypeOK
<1>9. CASE RemoteStarts \/ RemoteReads \/ RemoteEnds
  BY ExecAssumption, <1>9 DEF RemoteStarts, RemoteReads, RemoteEnds, ExecTypeOK
<1>12. CASE ClientReports \/ ClientFails
  BY <1>12, ExecAssumption DEF ClientReports, ClientFails, Status, ExecTypeOK
<1>14. CASE UNCHANGED evars
  BY <1>14 DEF evars
<1> QED
  BY <1>1, <1>2, <1>4, <1>5, <1>6, <1>7, <1>9, <1>12, <1>14 DEF ExecNext

\* Exit code 0, input and output agree in every state (docker.ts 163-237).
THEOREM ExecInvHolds == ExecSpec => []ExecInv
<1>1. ExecInit => ExecInv
  BY OpsAreKinds, ExecAssumption
  DEF ExecInit, ExecInv, NoFalseSuccess, Settled, Alive, Content
<1> QED
  BY <1>1, ExecTypeCorrect, ExecStep, PTL DEF ExecSpec

\* An operation reports success only when the command succeeded on all of its
\* input and all its output was received (ops.ts 29-31 and its like).
THEOREM NoFalseSuccessHolds == ExecSpec => []NoFalseSuccess
<1>1. ExecInv => NoFalseSuccess
  BY DEF ExecInv
<1> QED
  BY <1>1, ExecInvHolds, PTL

\* After the result no output arrives (docker.ts 195-228).
THEOREM NothingAfterResultHolds == ExecSpec => NothingAfterResult
<1>1. ExecTypeOK /\ ExecInv /\ [ExecNext]_evars
        => [Settled => captured' = captured]_evars
  <2> SUFFICES ASSUME ExecTypeOK, ExecInv, ExecNext, Settled
               PROVE  captured' = captured
    BY DEF evars
  <2>1. ASSUME NEW s \in Streams, DataArrives(s)
        PROVE  captured' = captured
    BY <2>1 DEF DataArrives, ExecInv, ExecTypeOK
  <2> QED
    BY <2>1 DEF ExecNext, Spawn, TimerFires, Abort, OnError, OnClose, StdinBreaks,
                RemoteWrites, RemoteStarts, RemoteReads, RemoteEnds, ClientReports, ClientFails
<1> QED
  BY <1>1, ExecTypeCorrect, ExecInvHolds, PTL DEF ExecSpec, NothingAfterResult
=============================================================================
