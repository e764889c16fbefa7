-------------------------- MODULE AuditTailProofs ---------------------------
(* The audit tail shows the log in order and without repetition, except     *)
(* where a false size rewinds it, for every number of writes and any        *)
(* truncation: type invariant, then TailInv.                                *)
EXTENDS AuditTail, TLAPS

\* A list and what a read adds to it: the length, and each element by its place.
LEMMA ShownGrows ==
  ASSUME TailTypeOK
  PROVE  LET N == IF offset < FileSize THEN FileSize - offset ELSE 0 IN
         /\ N \in Nat
         /\ Len(NewContent) = N
         /\ NewContent \in Seq(1..MaxWrites)
         /\ shown \o NewContent \in Seq(1..MaxWrites)
         /\ Len(shown \o NewContent) = Len(shown) + N
         /\ \A i \in 1..Len(shown) : (shown \o NewContent)[i] = shown[i]
         /\ \A i \in (Len(shown) + 1)..(Len(shown) + N) :
              (shown \o NewContent)[i] = base + offset + (i - Len(shown))
<1> DEFINE N == IF offset < FileSize THEN FileSize - offset ELSE 0
<1>1. N \in Nat /\ MaxWrites \in Nat
  BY AuditTailAssumption DEF TailTypeOK, FileSize
<1>2. \A i \in 1..N : base + offset + i \in 1..MaxWrites
  BY AuditTailAssumption DEF TailTypeOK, FileSize
<1>3. NewContent \in Seq(1..MaxWrites) /\ Len(NewContent) = N
      /\ \A i \in 1..N : NewContent[i] = base + offset + i
  <2>1. NewContent = [i \in 1..N |-> base + offset + i]
    BY DEF NewContent
  <2>2. NewContent \in [1..N -> 1..MaxWrites]
    BY <1>2, <2>1
  <2> QED
    BY <1>1, <2>1, <2>2
<1>4. shown \in Seq(1..MaxWrites)
  BY DEF TailTypeOK
<1> HIDE DEF N
<1> QED
  BY <1>1, <1>3, <1>4 DEF N

\* An answer to stat keeps the type invariant, be it true or false.
LEMMA AnswerTyped ==
  ASSUME TailTypeOK, NEW answer \in 0..MaxWrites, StatAnswers(answer)
  PROVE  TailTypeOK'
<1>1. Len(shown) \in Nat /\ MaxWrites \in Nat
  BY AuditTailAssumption DEF TailTypeOK
<1>2. since' \in 0..Len(shown') /\ offset' \in 0..MaxWrites
  BY <1>1 DEF TailTypeOK, StatAnswers
<1> QED
  BY <1>2 DEF TailTypeOK, StatAnswers, Reschedule, logVars

\* A step keeps the type invariant.
LEMMA TypeStep == TailTypeOK /\ [TailNext]_tvars => TailTypeOK'
<1> SUFFICES ASSUME TailTypeOK, [TailNext]_tvars
             PROVE  TailTypeOK'
  OBVIOUS
<1> USE AuditTailAssumption
<1>1. CASE Tick \/ ExecFails
  BY <1>1 DEF TailTypeOK, Tick, ExecFails, Reschedule, logVars
<1>2. CASE StatReturns \/ StatFallsBack
  <2>1. FileSize \in 0..MaxWrites /\ 0 \in 0..MaxWrites
    BY DEF TailTypeOK, FileSize
  <2>2. QED
    BY <1>2, <2>1, AnswerTyped DEF StatReturns, StatFallsBack
<1>3. CASE TailReturns
  <2>1. shown' \in Seq(1..MaxWrites)
    BY <1>3, ShownGrows DEF TailReturns
  <2>2. offset' \in 0..MaxWrites
    BY <1>3, ShownGrows DEF TailReturns, TailTypeOK, FileSize
  <2>3. since' \in 0..Len(shown')
    <3>1. Len(shown') >= Len(shown) /\ Len(shown) \in Nat /\ Len(shown') \in Nat
      BY <1>3, ShownGrows DEF TailReturns, TailTypeOK
    <3>2. QED
      BY <1>3, <3>1 DEF TailReturns, TailTypeOK
  <2> QED
    BY <1>3, <2>1, <2>2, <2>3 DEF TailReturns, TailTypeOK, Reschedule, logVars
<1>4. CASE Abort
  BY <1>4 DEF TailTypeOK, Abort, logVars
<1>6. CASE Write
  BY <1>6 DEF TailTypeOK, Write, tailVars
<1>7. CASE Truncate
  BY <1>7 DEF TailTypeOK, Truncate, tailVars
<1>8. CASE ProxyGoes
  BY <1>8 DEF TailTypeOK, ProxyGoes, tailVars
<1>5. CASE UNCHANGED tvars
  BY <1>5 DEF TailTypeOK, tvars, logVars, tailVars
<1> QED
  BY <1>1, <1>2, <1>3, <1>4, <1>5, <1>6, <1>7, <1>8 DEF TailNext, PollStep

\* The variables of the tail stay in their types (tailAuditLog).
THEOREM TailTypeCorrect == TailSpec => []TailTypeOK
<1>1. TailInit => TailTypeOK
  <2> SUFFICES ASSUME TailInit
               PROVE  TailTypeOK
    OBVIOUS
  <2>1. written = 0 /\ base = 0 /\ offset = 0 /\ size = 0
    BY DEF TailInit
  <2>2. shown \in Seq(1..MaxWrites)
    BY DEF TailInit
  <2>3. proxy = "up" /\ pc = "stat" /\ aborted \in BOOLEAN
    BY DEF TailInit
  <2>4. 0 \in 0..MaxWrites /\ 0 \in 0..0
    BY AuditTailAssumption
  <2>5. since \in 0..Len(shown)
    BY DEF TailInit
  <2> QED
    BY <2>1, <2>2, <2>3, <2>4, <2>5 DEF TailTypeOK
<1> QED
  BY <1>1, TypeStep, PTL DEF TailSpec

\* A poll that reads adds consecutive pieces, all newer than what was shown.
LEMMA ReadStep == TailTypeOK /\ TailInv /\ TailReturns => TailInv'
<1> SUFFICES ASSUME TailTypeOK, TailInv, TailReturns
             PROVE  TailInv'
  OBVIOUS
<1> DEFINE N == IF offset < FileSize THEN FileSize - offset ELSE 0
           L == Len(shown)
           B == since + 1
<1>1. /\ N \in Nat /\ L \in Nat /\ Len(shown') = L + N
      /\ \A i \in 1..L : shown'[i] = shown[i]
      /\ \A i \in (L + 1)..(L + N) : shown'[i] = base + offset + (i - L)
  BY ShownGrows DEF TailReturns, TailTypeOK
<1>2. /\ written \in Nat /\ base \in Nat /\ offset \in Nat /\ size \in Nat
      /\ base <= written /\ offset < size
      /\ written' = written /\ base' = base /\ size' = size
      /\ pc' # "tail" /\ since' = since /\ since \in 0..L
      /\ \A i \in 1..L : shown[i] \in Nat
  BY AuditTailAssumption DEF TailTypeOK, TailReturns, Reschedule, logVars, TailInv
<1>3. offset' = IF N > 0 THEN offset + N ELSE size
  BY ShownGrows DEF TailReturns
<1>4. /\ \A i \in 1..L : shown[i] <= written
      /\ \A i \in B..L : /\ shown[i] <= base + offset
                         /\ shown[i] > base => offset <= FileSize /\ size <= FileSize
  BY DEF TailInv, TailReturns
<1> HIDE DEF N, L
<1>5. InOrderOnce'
  <2>1. \A i, j \in B..L : i < j => shown[i] < shown[j]
    BY DEF TailInv, InOrderOnce, L
  <2> QED
    BY <1>1, <1>2, <1>4, <2>1 DEF InOrderOnce
<1>6. NothingSkipped'
  <2>1. base = 0 => N > 0
    BY <1>2 DEF N, FileSize, TailInv, TailReturns
  <2>2. base = 0 => L - since = offset
    BY DEF TailInv, NothingSkipped, L
  <2>3. ASSUME NEW i \in B..(L + N), shown'[i] > base
        PROVE  shown'[i] = base + offset' - (L + N - i)
    <3>1. CASE i \in B..L
      <4>1. shown[i] = base + offset - (L - i)
        BY <1>1, <1>2, <2>3, <3>1 DEF TailInv, NothingSkipped, L
      <4>2. N > 0
        BY <1>1, <1>2, <1>4, <2>3, <3>1 DEF N, FileSize
      <4>3. QED
        BY <1>1, <1>2, <1>3, <3>1, <4>1, <4>2
    <3>2. CASE i \in (L + 1)..(L + N)
      BY <1>1, <1>2, <1>3, <3>2
    <3>3. QED
      BY <1>1, <2>3, <3>1, <3>2
  <2>4. QED
    BY <1>1, <1>2, <1>3, <2>1, <2>2, <2>3 DEF NothingSkipped
<1>7. ASSUME NEW i \in B..Len(shown')
      PROVE  /\ shown'[i] <= base' + offset'
             /\ shown'[i] > base' => offset' <= FileSize'
  <2>1. CASE i \in B..L
    BY <1>1, <1>2, <1>3, <1>4, <2>1 DEF N, FileSize
  <2>2. CASE i \in (L + 1)..(L + N)
    BY <1>1, <1>2, <1>3, <2>2 DEF N, FileSize
  <2> QED
    BY <1>1, <1>2, <1>7, <2>1, <2>2
<1>8. \A i \in 1..Len(shown') : shown'[i] <= written'
  BY <1>1, <1>2, <1>4 DEF N, FileSize
<1> QED
  BY <1>2, <1>5, <1>6, <1>7, <1>8 DEF TailInv

\* A size, true or false, read by the poll: a true one moves the offset only if
\* nothing of the present file was shown, a false one begins anew.
LEMMA AnswerStep ==
  ASSUME TailTypeOK, TailInv, NEW answer \in {0, FileSize}, StatAnswers(answer)
  PROVE  TailInv'
<1>1. /\ written \in Nat /\ base \in Nat /\ offset \in Nat /\ size \in Nat
      /\ base <= written /\ Len(shown) \in Nat /\ since \in 0..Len(shown)
      /\ \A i \in 1..Len(shown) : shown[i] \in Nat /\ shown[i] > 0
  BY AuditTailAssumption DEF TailTypeOK
<1>2. /\ shown' = shown /\ base' = base /\ written' = written
      /\ size' = answer
      /\ offset' = IF answer < offset THEN 0 ELSE offset
      /\ pc' = "tail" => offset' < answer
  BY <1>1 DEF StatAnswers, Reschedule, logVars, FileSize
<1>3. \A i \in 1..Len(shown) : shown[i] <= written
  BY DEF TailInv
<1>4. CASE answer < offset /\ answer # FileSize
  <2>1. since' = Len(shown') /\ offset' = 0 /\ pc' # "tail"
    BY <1>1, <1>2, <1>4 DEF StatAnswers, FileSize
  <2>2. InOrderOnce' /\ NothingSkipped'
    BY <1>1, <1>2, <2>1 DEF InOrderOnce, NothingSkipped
  <2>3. QED
    BY <1>1, <1>2, <1>3, <2>1, <2>2 DEF TailInv
<1>5. CASE ~ (answer < offset /\ answer # FileSize)
  <2>1. since' = since
    BY <1>5 DEF StatAnswers
  <2>2. \A i \in (since + 1)..Len(shown) : shown[i] > base => offset' = offset
    BY <1>1, <1>2, <1>5 DEF TailInv, FileSize
  <2>3. base = 0 => offset' = offset
    <3> SUFFICES ASSUME base = 0, offset # 0
                 PROVE  offset' = offset
      BY <1>1, <1>2
    <3>1. Len(shown) - since = offset
      BY DEF TailInv, NothingSkipped
    <3>2. Len(shown) \in (since + 1)..Len(shown) /\ shown[Len(shown)] > base
      BY <1>1, <3>1
    <3>3. QED
      BY <2>2, <3>2
  <2>4. InOrderOnce'
    BY <1>2, <2>1 DEF TailInv, InOrderOnce
  <2>5. NothingSkipped'
    <3>1. base' = 0 => Len(shown') - since' = offset'
      BY <1>2, <2>1, <2>3 DEF TailInv, NothingSkipped
    <3>2. ASSUME NEW i \in (since + 1)..Len(shown), shown[i] > base
          PROVE  shown[i] = base + offset' - (Len(shown) - i)
      BY <2>2, <3>2 DEF TailInv, NothingSkipped
    <3>3. QED
      BY <1>2, <2>1, <3>1, <3>2 DEF NothingSkipped
  <2>6. ASSUME NEW i \in (since + 1)..Len(shown)
        PROVE  /\ shown[i] <= base + offset'
               /\ shown[i] > base => offset' <= FileSize
    BY <1>1, <1>2, <1>5, <2>2, <2>6 DEF TailInv, FileSize
  <2>7. answer <= FileSize
    BY <1>1 DEF FileSize
  <2>8. QED
    BY <1>1, <1>2, <1>3, <2>1, <2>4, <2>5, <2>6, <2>7 DEF TailInv, FileSize
<1>6. QED
  BY <1>4, <1>5

\* A step that shows nothing: what was shown stays where it was, so only the
\* bounds of TailInv can be disturbed.
LEMMA TailStep == TailTypeOK /\ TailInv /\ [TailNext]_tvars => TailInv'
<1> SUFFICES ASSUME TailTypeOK, TailInv, [TailNext]_tvars
             PROVE  TailInv'
  OBVIOUS
<1>1. /\ written \in Nat /\ base \in Nat /\ offset \in Nat /\ size \in Nat
      /\ base <= written /\ Len(shown) \in Nat /\ since \in 0..Len(shown)
      /\ \A i \in 1..Len(shown) : shown[i] \in Nat /\ shown[i] > 0
  BY AuditTailAssumption DEF TailTypeOK
<1>2. ASSUME UNCHANGED <<shown, since>>,
             UNCHANGED <<base, offset>> \/ (base' > 0 /\ base' = written)
      PROVE  InOrderOnce' /\ NothingSkipped'
  <2>1. InOrderOnce'
    BY <1>2 DEF TailInv, InOrderOnce
  <2>2. CASE UNCHANGED <<base, offset>>
    BY <1>2, <2>1, <2>2 DEF TailInv, NothingSkipped
  <2>3. CASE base' > 0 /\ base' = written
    <3>1. \A i \in (since + 1)..Len(shown) : ~ (shown[i] > written)
      BY <1>1 DEF TailInv
    <3>2. QED
      BY <1>1, <1>2, <2>1, <2>3, <3>1 DEF NothingSkipped
  <2>4. QED
    BY <1>2, <2>2, <2>3
<1>3. CASE Tick \/ ExecFails
  BY <1>1, <1>2, <1>3 DEF TailInv, Tick, ExecFails, Reschedule, logVars, FileSize
<1>4. CASE StatReturns \/ StatFallsBack
  BY <1>4, AnswerStep DEF StatReturns, StatFallsBack
<1>5. CASE TailReturns
  BY <1>5, ReadStep
<1>6. CASE Abort \/ ProxyGoes
  BY <1>1, <1>2, <1>6 DEF TailInv, Abort, ProxyGoes, logVars, tailVars, FileSize
<1>7. CASE Write
  BY <1>1, <1>2, <1>7 DEF TailInv, Write, tailVars, FileSize
<1>8. CASE Truncate
  BY <1>1, <1>2, <1>8 DEF TailInv, Truncate, tailVars, FileSize
<1>9. CASE UNCHANGED tvars
  BY <1>1, <1>2, <1>9 DEF TailInv, tvars, logVars, tailVars, FileSize
<1> QED
  BY <1>3, <1>4, <1>5, <1>6, <1>7, <1>8, <1>9 DEF TailNext, PollStep

\* The bounds on offset, stale size and what was shown since the last false size
\* (tailAuditLog).
THEOREM TailInvHolds == TailSpec => []TailInv
<1>1. TailInit => TailInv
  BY DEF TailInit, TailInv, InOrderOnce, NothingSkipped
<1> QED
  BY <1>1, TailTypeCorrect, TailStep, PTL DEF TailSpec

\* Between two false sizes no entry is shown twice or out of order, however the file
\* is truncated and polls fail (egress.ts 301-304).
THEOREM InOrderOnceHolds == TailSpec => []InOrderOnce
<1>1. TailInv => InOrderOnce
  BY DEF TailInv
<1> QED
  BY <1>1, TailInvHolds, PTL

\* Nothing of the present file is missing between what was shown of it since the
\* last false size and the offset, and nothing at all without truncation
\* (egress.ts 320-357).
THEOREM NothingSkippedHolds == TailSpec => []NothingSkipped
<1>1. TailInv => NothingSkipped
  BY DEF TailInv
<1> QED
  BY <1>1, TailInvHolds, PTL

\* A poll that shows something after the abort is the last (egress.ts 362-364).
THEOREM LastWordsHolds == TailSpec => LastWords
<1>1. [TailNext]_tvars => [aborted /\ shown' # shown => pc' = "over"]_tvars
  BY DEF TailNext, PollStep, Tick, StatReturns, StatFallsBack, StatAnswers, TailReturns,
         ExecFails, Reschedule, Abort, Write, Truncate, ProxyGoes, tvars, tailVars
<1> QED
  BY <1>1, PTL DEF TailSpec, LastWords

-----------------------------------------------------------------------------
\* A read that shows something is a run of the feed: it goes up to the end of the
\* file, and begins where the last one ended if that lies in the present file.
LEMMA ReadShows ==
  ASSUME TailTypeOK, TailInv, TailReturns, offset < FileSize
  PROVE  Followed!Next
<1> DEFINE from == base + offset + 1
<1>1. /\ written \in Nat /\ base \in Nat /\ offset \in Nat /\ base <= written
      /\ Len(shown) \in Nat /\ since \in 0..Len(shown)
      /\ \A i \in 1..Len(shown) : shown[i] \in Nat /\ shown[i] > 0
      /\ from \in (base + 1)..written
  BY AuditTailAssumption DEF TailTypeOK, FileSize
<1>2. Phase # "closed"
  BY DEF TailReturns, Phase
<1>3. base = 0 \/ base < Followed!Newest => from = Followed!Newest + 1
  <2>1. CASE Len(shown) = since
    <3>1. Followed!Newest = 0
      BY <2>1 DEF Followed!Newest
    <3>2. base = 0 => offset = 0
      BY <1>1, <2>1 DEF TailInv, NothingSkipped
    <3>3. QED
      BY <1>1, <3>1, <3>2
  <2>2. CASE Len(shown) # since
    <3>1. /\ Followed!Newest = shown[Len(shown)]
          /\ Len(shown) \in (since + 1)..Len(shown)
          /\ Len(shown) \in 1..Len(shown)
      BY <1>1, <2>2 DEF Followed!Newest
    <3>2. shown[Len(shown)] > 0
      BY <1>1, <3>1
    <3>3. shown[Len(shown)] > base => shown[Len(shown)] = base + offset
      BY <1>1, <3>1 DEF TailInv, NothingSkipped
    <3>4. QED
      BY <1>1, <3>1, <3>2, <3>3
  <2>3. QED
    BY <2>1, <2>2
<1>4. shown' = shown \o [i \in 1..(written - from + 1) |-> from + i - 1]
  <2>1. /\ FileSize - offset = written - from + 1
        /\ \A i \in Int : base + offset + i = from + i - 1
    BY <1>1 DEF FileSize
  <2>2. NewContent = [i \in 1..(written - from + 1) |-> from + i - 1]
    BY <2>1 DEF NewContent
  <2>3. QED
    BY <2>2 DEF TailReturns
<1>5. Followed!Last
  BY DEF TailReturns, Reschedule, Phase, Followed!Last
<1>6. UNCHANGED <<written, base, since>>
  BY DEF TailReturns, logVars
<1> HIDE DEF from
<1>7. Followed!Show(from)
  BY <1>2, <1>3, <1>4, <1>5, <1>6 DEF Followed!Show
<1>8. QED
  BY <1>1, <1>7 DEF Followed!Next

\* To its reader the tail is a feed, however its polls interleave with the log and
\* whatever fails; it starts over only for a false size (egress.ts 306-371).
THEOREM TailImplementsFeed == TailSpec => ImplementsFeed
<1>1. TailInit => Followed!Init
  BY DEF TailInit, Followed!Init, Phase
<1>2. TailTypeOK /\ TailInv /\ [TailNext]_tvars => [Followed!Next]_(Followed!vars)
  <2> SUFFICES ASSUME TailTypeOK, TailInv, [TailNext]_tvars
               PROVE  Followed!Next \/ UNCHANGED Followed!vars
    OBVIOUS
  <2>1. ASSUME UNCHANGED <<written, base, shown, since, aborted>>,
               pc \in {"stat", "tail"}, pc' \in {"stat", "tail"} \/ Reschedule
        PROVE  Followed!Next \/ UNCHANGED Followed!vars
    BY <2>1 DEF Reschedule, Phase, Followed!vars, Followed!Next, Followed!Closed
  <2>2. CASE Tick
    BY <2>2 DEF Tick, logVars, Phase, Followed!vars
  <2>3. ASSUME NEW answer \in {0, FileSize}, StatAnswers(answer)
        PROVE  Followed!Next \/ UNCHANGED Followed!vars
    <3>1. pc = "stat" /\ (pc' = "tail" \/ Reschedule)
          /\ UNCHANGED <<written, base, shown, aborted>>
      BY <2>3 DEF StatAnswers, logVars
    <3>2. CASE since' = since
      BY <2>1, <3>1, <3>2
    <3>3. CASE since' # since
      <4>1. since' = Len(shown) /\ answer < offset
        BY <2>3, <3>3 DEF StatAnswers
      <4>2. Reschedule
        <5>1. offset' = 0 /\ answer = 0
          BY <2>3, <3>3, <4>1 DEF StatAnswers
        <5>2. QED
          BY <2>3, <5>1 DEF StatAnswers
      <4>3. Phase # "closed" /\ Followed!Last
        BY <3>1, <4>2 DEF Reschedule, Phase, Followed!Last
      <4>4. QED
        BY <3>1, <4>1, <4>3 DEF Followed!Next, Followed!StartOver
    <3>4. QED
      BY <3>2, <3>3
  <2>4. CASE TailReturns
    <3>1. CASE offset < FileSize
      BY <2>4, <3>1, ReadShows
    <3>2. CASE ~ (offset < FileSize)
      <4>1. shown' = shown
        <5>1. NewContent = << >>
          BY <3>2, ShownGrows DEF TailTypeOK
        <5>2. QED
          BY <2>4, <5>1 DEF TailReturns, TailTypeOK
      <4>2. QED
        BY <2>1, <2>4, <4>1 DEF TailReturns, logVars
    <3>3. QED
      BY <3>1, <3>2
  <2>5. CASE ExecFails
    BY <2>1, <2>5 DEF ExecFails, logVars
  <2>6. CASE Abort
    <3>1. Phase = "open" /\ Phase' \in {"closing", "closed"}
      BY <2>6 DEF Abort, Phase
    <3>2. QED
      BY <2>6, <3>1 DEF Abort, logVars, Followed!Next, Followed!Close
  <2>7. CASE Write
    <3>1. Phase' = Phase
      BY <2>7 DEF Write, tailVars, Phase
    <3>2. QED
      BY <2>7, <3>1 DEF Write, tailVars, Followed!Next, Followed!Write
  <2>8. CASE Truncate
    <3>1. Phase' = Phase
      BY <2>8 DEF Truncate, tailVars, Phase
    <3>2. QED
      BY <2>8, <3>1 DEF Truncate, tailVars, Followed!Next, Followed!Empty
  <2>9. CASE ProxyGoes \/ UNCHANGED tvars
    BY <2>9 DEF ProxyGoes, tvars, logVars, tailVars, Phase, Followed!vars
  <2>10. QED
    BY <2>2, <2>3, <2>4, <2>5, <2>6, <2>7, <2>8, <2>9
       DEF TailNext, PollStep, StatReturns, StatFallsBack
<1>3. QED
  BY <1>1, <1>2, TailTypeCorrect, TailInvHolds, PTL DEF TailSpec, ImplementsFeed, Followed!Spec
=============================================================================
