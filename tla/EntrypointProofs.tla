-------------------------- MODULE EntrypointProofs ---------------------------
(***************************************************************************)
(* Proofs about Entrypoint, for every number of attempts at the            *)
(* certificate and every choice of faults: the rules that the marker and   *)
(* a kill find, and what the tear-down leaves.                             *)
(***************************************************************************)
EXTENDS Entrypoint, TLAPS

Chain == [exists : BOOLEAN, wired : BOOLEAN, rules : Seq(Rules)]

-----------------------------------------------------------------------------
(***************************************************************************)
(* The two command sequences                                               *)
(***************************************************************************)
\* The commands one by one.
LEMMA SetupAt ==
  /\ Len(Setup) = 20
  /\ Setup[1] = New("nat") /\ Setup[2] = Flush("nat") /\ Setup[3] = Wire("nat")
  /\ Setup[4] = Rule("nat", "http") /\ Setup[5] = Rule("nat", "https")
  /\ Setup[6] = Rule("nat", "dns")
  /\ Setup[7] = New("filter") /\ Setup[8] = Flush("filter") /\ Setup[9] = Wire("filter")
  /\ Setup[10] = Rule("filter", "root") /\ Setup[11] = Rule("filter", "lo")
  /\ Setup[12] = Rule("filter", "proxyPort") /\ Setup[13] = Rule("filter", "dnsPort")
  /\ Setup[14] = Rule("filter", "drop")
  /\ Setup[15] = New("ip6") /\ Setup[16] = Flush("ip6") /\ Setup[17] = Wire("ip6")
  /\ Setup[18] = Rule("ip6", "root") /\ Setup[19] = Rule("ip6", "lo")
  /\ Setup[20] = Rule("ip6", "drop")
BY DEF Setup

\* the last command of a chain
Last(t) == CASE t = "nat" -> 6 [] t = "filter" -> 14 [] t = "ip6" -> 20

LEMMA RulesAt ==
  /\ RulesOf("nat")[1] = "http" /\ RulesOf("nat")[2] = "https" /\ RulesOf("nat")[3] = "dns"
  /\ RulesOf("filter")[1] = "root" /\ RulesOf("filter")[2] = "lo"
  /\ RulesOf("filter")[3] = "proxyPort" /\ RulesOf("filter")[4] = "dnsPort"
  /\ RulesOf("filter")[5] = "drop"
  /\ RulesOf("ip6")[1] = "root" /\ RulesOf("ip6")[2] = "lo" /\ RulesOf("ip6")[3] = "drop"
BY DEF RulesOf

LEMMA Sizes ==
  ASSUME NEW t \in Tables
  PROVE  /\ Len(RulesOf(t)) \in Nat /\ First(t) \in Nat /\ Last(t) \in Nat
         /\ Len(RulesOf(t)) = Last(t) - First(t) - 2
BY DEF Tables, RulesOf, First, Last

\* Command k of setup is the next one of its chain, and no other chain is being
\* built then.
NextOfChain(k) ==
  LET cmd == Setup[k]
      n == k - First(cmd.table)
  IN  /\ cmd.table \in Tables
      /\ First(cmd.table) <= k /\ k <= Last(cmd.table)
      /\ \/ n = 0 /\ cmd.op = "new" /\ ~cmd.checked
         \/ n = 1 /\ cmd.op = "flush" /\ cmd.checked
         \/ n = 2 /\ cmd.op = "wire" /\ cmd.checked
         \/ /\ n >= 3 /\ cmd.op = "append" /\ cmd.checked
            /\ cmd.rule = RulesOf(cmd.table)[n - 2] /\ cmd.rule \in Rules
      /\ \A u \in Tables \ {cmd.table} : k < First(u) \/ Last(u) < k

LEMMA SetupCommands == \A k \in 1..Len(Setup) : NextOfChain(k)
<1> USE DEF NextOfChain, First, Last, Tables, Rules
<1>1. NextOfChain(1) /\ NextOfChain(7) /\ NextOfChain(15)
  BY SetupAt DEF New, Command
<1>2. NextOfChain(2) /\ NextOfChain(8) /\ NextOfChain(16)
  BY SetupAt DEF Flush, Command
<1>3. NextOfChain(3) /\ NextOfChain(9) /\ NextOfChain(17)
  BY SetupAt DEF Wire, Command
<1>4. NextOfChain(4) /\ NextOfChain(5) /\ NextOfChain(6)
  BY SetupAt, RulesAt DEF Rule, Command
<1>5. NextOfChain(10) /\ NextOfChain(11) /\ NextOfChain(12)
  BY SetupAt, RulesAt DEF Rule, Command
<1>6. NextOfChain(13) /\ NextOfChain(14)
  BY SetupAt, RulesAt DEF Rule, Command
<1>7. NextOfChain(18) /\ NextOfChain(19) /\ NextOfChain(20)
  BY SetupAt, RulesAt DEF Rule, Command
<1> HIDE DEF NextOfChain
<1>8. \A k \in 1..Len(Setup) : k \in {1,2,3,4,5,6,7,8,9,10,11,12,13,14,15,16,17,18,19,20}
  BY SetupAt
<1>9. QED
  BY <1>1, <1>2, <1>3, <1>4, <1>5, <1>6, <1>7, <1>8

LEMMA Lengths == Len(Setup) = 20 /\ Len(Teardown) = 7
BY DEF Setup, Teardown

LEMMA TeardownCommands ==
  /\ Teardown[1].op = "flush" /\ Teardown[1].table = "nat"
  /\ Teardown[2].op = "unwire" /\ Teardown[2].table = "filter"
  /\ Teardown[3].op = "flush" /\ Teardown[3].table = "filter"
  /\ Teardown[4].op = "delete" /\ Teardown[4].table = "filter"
  /\ Teardown[5].op = "unwire" /\ Teardown[5].table = "ip6"
  /\ Teardown[6].op = "flush" /\ Teardown[6].table = "ip6"
  /\ Teardown[7].op = "delete" /\ Teardown[7].table = "ip6"
BY DEF Teardown, Unchecked, Command

Ops == {"new", "flush", "wire", "append", "unwire", "delete"}

\* A command changes the chain of its table, each in its own way, and no other.
LEMMA ApplyElsewhere ==
  ASSUME NEW f \in [Tables -> Chain], NEW cmd, NEW u \in Tables, u # cmd.table
  PROVE  Apply(f, cmd)[u] = f[u]
BY DEF Apply

LEMMA ApplyChanges ==
  ASSUME NEW f \in [Tables -> Chain], NEW cmd, cmd.table \in Tables, cmd.op \in Ops,
         cmd.op = "append" => cmd.rule \in Rules
  PROVE  LET t == cmd.table
         IN  /\ Apply(f, cmd) \in [Tables -> Chain]
             /\ cmd.op = "new" => Apply(f, cmd)[t] = [f[t] EXCEPT !.exists = TRUE]
             /\ cmd.op = "flush" => Apply(f, cmd)[t] = [f[t] EXCEPT !.rules = <<>>]
             /\ cmd.op = "wire" => Apply(f, cmd)[t] = [f[t] EXCEPT !.wired = TRUE]
             /\ cmd.op = "append"
                  => Apply(f, cmd)[t] = [f[t] EXCEPT !.rules = Append(@, cmd.rule)]
             /\ cmd.op = "unwire" => Apply(f, cmd)[t] = [f[t] EXCEPT !.wired = FALSE]
             /\ cmd.op = "delete" => Apply(f, cmd)[t] = NoChain
<1> DEFINE t == cmd.table
<1> DEFINE new == CASE cmd.op = "new"    -> [f[t] EXCEPT !.exists = TRUE]
                    [] cmd.op = "flush"  -> [f[t] EXCEPT !.rules = <<>>]
                    [] cmd.op = "wire"   -> [f[t] EXCEPT !.wired = TRUE]
                    [] cmd.op = "append" -> [f[t] EXCEPT !.rules = Append(@, cmd.rule)]
                    [] cmd.op = "unwire" -> [f[t] EXCEPT !.wired = FALSE]
                    [] cmd.op = "delete" -> NoChain
<1>1. Apply(f, cmd) = [f EXCEPT ![t] = new]
  BY DEF Apply
<1>2. f[t] \in Chain /\ f[t].rules \in Seq(Rules)
  BY DEF Chain
<1>3. new \in Chain
  <2>1. CASE cmd.op = "append"
    <3>1. Append(f[t].rules, cmd.rule) \in Seq(Rules)
      BY <1>2, <2>1
    <3>2. QED
      BY <1>2, <2>1, <3>1 DEF Chain
  <2>2. CASE cmd.op # "append"
    <3>1. <<>> \in Seq(Rules)
      OBVIOUS
    <3>2. QED
      BY <1>2, <2>2, <3>1 DEF Chain, NoChain, Ops
  <2>3. QED
    BY <2>1, <2>2
<1>4. QED
  BY <1>1, <1>3

-----------------------------------------------------------------------------
(***************************************************************************)
(* Type correctness                                                        *)
(***************************************************************************)
LEMMA CommandsApply ==
  ASSUME ETypeOK, NEW cmd,
         \/ \E k \in 1..Len(Setup) : cmd = Setup[k]
         \/ \E k \in 1..Len(Teardown) : cmd = Teardown[k]
  PROVE  /\ cmd.table \in Tables /\ cmd.op \in Ops
         /\ cmd.op = "append" => cmd.rule \in Rules
         /\ Apply(fw, cmd) \in [Tables -> Chain]
<1>1. fw \in [Tables -> Chain]
  BY DEF ETypeOK, Chain
<1> DEFINE Known == /\ cmd.table \in Tables /\ cmd.op \in Ops
                    /\ cmd.op = "append" => cmd.rule \in Rules
<1>2. Known
  <2>1. ASSUME NEW k \in 1..Len(Setup), cmd = Setup[k] PROVE Known
    BY <2>1, SetupCommands DEF NextOfChain, Ops
  <2>2. ASSUME NEW k \in 1..Len(Teardown), cmd = Teardown[k] PROVE Known
    <3>1. k \in {1, 2, 3, 4, 5, 6, 7}
      BY Lengths
    <3>2. QED
      BY <2>2, <3>1, TeardownCommands DEF Ops, Tables
  <2>3. QED
    BY <2>1, <2>2
<1>3. QED
  BY <1>1, <1>2, ApplyChanges

\* Every state of the proxy container has its declared shape: the chains hold
\* known rules and the attempts at the certificate never go below zero
\* (entrypoint.py 49-111).
THEOREM ETypeCorrect == ESpec => []ETypeOK
<1>1. EInit => ETypeOK
  <2>1. NoRules \in [Tables -> Chain]
    BY DEF NoRules, NoChain, Chain, Tables
  <2>2. 1 \in 1..Len(Setup) + 1
    BY Lengths
  <2>3. Retries \in 0..Retries
    BY EntrypointAssumption
  <2>4. QED
    BY <2>1, <2>2, <2>3 DEF EInit, ETypeOK, EPc, Chain
<1>2. ETypeOK /\ [ENext]_evars => ETypeOK'
  <2> SUFFICES ASSUME ETypeOK, [ENext]_evars PROVE ETypeOK'
    OBVIOUS
  <2>1. CASE RunSetup
    <3>1. step \in 1..Len(Setup) /\ step + 1 \in 1..Len(Setup) + 1
      BY <2>1, Lengths DEF RunSetup, ETypeOK
    <3>2. fw' = fw \/ fw' = Apply(fw, Setup[step])
      BY <2>1 DEF RunSetup
    <3>3. fw' \in [Tables -> Chain]
      BY <3>1, <3>2, CommandsApply DEF ETypeOK, Chain
    <3>4. QED
      BY <2>1, <3>1, <3>3 DEF RunSetup, ETypeOK, EPc, Chain
  <2>2. CASE RunTeardown
    <3>1. step \in 1..Len(Teardown) /\ step + 1 \in 1..Len(Setup) + 1
      BY <2>2, Lengths DEF RunTeardown, ETypeOK
    <3>2. fw' = fw \/ fw' = Apply(fw, Teardown[step])
      BY <2>2 DEF RunTeardown
    <3>3. fw' \in [Tables -> Chain]
      BY <3>1, <3>2, CommandsApply DEF ETypeOK, Chain
    <3>4. QED
      BY <2>2, <3>1, <3>3 DEF RunTeardown, ETypeOK, EPc, Chain
  <2>3. CASE WaitForNetwork \/ SetupDone \/ CertDone \/ WriteMarker
    BY <2>3 DEF WaitForNetwork, SetupDone, CertDone, WriteMarker, ETypeOK, EPc
  <2>4. CASE SpawnMitmdump \/ InstallHandlers \/ MitmdumpReturns \/ TeardownDone
    <3>1. 1 \in 1..Len(Setup) + 1
      BY Lengths
    <3>2. QED
      BY <2>4, <3>1 DEF SpawnMitmdump, InstallHandlers, MitmdumpReturns, TeardownDone,
                        ETypeOK, EPc
  <2>5. CASE TryCert
    BY <2>5, EntrypointAssumption DEF TryCert, ETypeOK
  <2>6. CASE Child \/ ResolverDies \/ MitmdumpExits \/ Kill
    BY <2>6 DEF Child, StartServing, PolicyRejected, Watchdog, ResolverDies, MitmdumpExits,
                Kill, ETypeOK, EPc
  <2>7. CASE UNCHANGED evars
    BY <2>7 DEF evars, ETypeOK
  <2>8. QED
    BY <2>1, <2>2, <2>3, <2>4, <2>5, <2>6, <2>7 DEF ENext, Main
<1>3. QED
  BY <1>1, <1>2, PTL DEF ESpec

-----------------------------------------------------------------------------
(***************************************************************************)
(* The rules while the set-up builds them and the tear-down undoes them    *)
(***************************************************************************)
\* A command of setup that is not a chain's own leaves it as it has to be.
LEMMA OtherChain ==
  ASSUME NEW k \in 1..Len(Setup), NEW u \in Tables, u # Setup[k].table,
         BuiltBy(u, k - First(u)), fw'[u] = fw[u], UNCHANGED faults
  PROVE  BuiltBy(u, k + 1 - First(u))'
<1>1. k < First(u) \/ Last(u) < k
  BY SetupCommands DEF NextOfChain
<1>2. k \in Int
  BY Lengths
<1> DEFINE n == k - First(u)
           len == Len(RulesOf(u))
<1>3. len \in Nat /\ n \in Int /\ (n < 0 \/ n >= len + 3) /\ k + 1 - First(u) = n + 1
  BY <1>1, <1>2, Sizes
<1>4. BuiltBy(u, n)
  OBVIOUS
<1> HIDE DEF n, len
<1>5. BuiltBy(u, n + 1)'
  <2>1. Len(fw[u].rules) = IF n <= 3 THEN 0 ELSE IF n - 3 <= len THEN n - 3 ELSE len
    BY <1>4 DEF BuiltBy, len
  <2>2. Len(fw[u].rules) = IF n + 1 <= 3 THEN 0 ELSE IF n + 1 - 3 <= len THEN n + 1 - 3 ELSE len
    BY <1>3, <2>1
  <2>3. QED
    BY <1>3, <1>4, <2>2 DEF BuiltBy, len
<1>6. QED
  BY <1>3, <1>5

\* A command that succeeds brings its own chain one step on.
LEMMA NextChain ==
  ASSUME ETypeOK, NEW k \in 1..Len(Setup), NEW t \in Tables, t = Setup[k].table,
         BuiltBy(t, k - First(t)), Possible(fw, Setup[k]), fw' = Apply(fw, Setup[k]),
         UNCHANGED faults
  PROVE  BuiltBy(t, k + 1 - First(t))'
<1> DEFINE cmd == Setup[k]
           n == k - First(t)
           len == Len(RulesOf(t))
<1>1. k \in Int
  BY Lengths
<1>2. len \in Nat /\ n \in Nat /\ n <= len + 2 /\ k + 1 - First(t) = n + 1
  BY <1>1, Sizes, SetupCommands DEF NextOfChain
<1>3. /\ fw[t] \in Chain /\ fw[t].rules \in Seq(Rules)
      /\ fw \in [Tables -> Chain]
  BY DEF ETypeOK, Chain
<1>4. /\ cmd.op = "new" => fw'[t] = [fw[t] EXCEPT !.exists = TRUE]
      /\ cmd.op = "flush" => fw'[t] = [fw[t] EXCEPT !.rules = <<>>]
      /\ cmd.op = "wire" => fw'[t] = [fw[t] EXCEPT !.wired = TRUE]
      /\ cmd.op = "append" => fw'[t] = [fw[t] EXCEPT !.rules = Append(@, cmd.rule)]
  BY <1>3, CommandsApply, ApplyChanges
<1>5. cmd.op # "new" => fw[t].exists
  BY DEF Possible
<1>6. \/ n = 0 /\ cmd.op = "new"
      \/ n = 1 /\ cmd.op = "flush"
      \/ n = 2 /\ cmd.op = "wire"
      \/ n >= 3 /\ cmd.op = "append" /\ cmd.rule = RulesOf(t)[n - 2] /\ cmd.rule \in Rules
  BY SetupCommands DEF NextOfChain
<1>7. BuiltBy(t, n)
  OBVIOUS
<1> HIDE DEF n, cmd
<1>8. CASE n = 0 /\ cmd.op = "new"
  <2>1. fw'[t].exists /\ fw'[t].wired = fw[t].wired /\ fw'[t].rules = fw[t].rules
    BY <1>3, <1>4, <1>8 DEF Chain
  <2>2. BuiltBy(t, n + 1)'
    BY <1>2, <1>7, <1>8, <2>1 DEF BuiltBy
  <2>3. QED
    BY <1>2, <2>2
<1>9. CASE n = 1 /\ cmd.op = "flush"
  <2>1. fw'[t].exists = fw[t].exists /\ fw'[t].wired = fw[t].wired /\ fw'[t].rules = <<>>
    BY <1>3, <1>4, <1>9 DEF Chain
  <2>2. BuiltBy(t, n + 1)'
    BY <1>2, <1>5, <1>7, <1>9, <2>1 DEF BuiltBy
  <2>3. QED
    BY <1>2, <2>2
<1>10. CASE n = 2 /\ cmd.op = "wire"
  <2>1. fw'[t].exists = fw[t].exists /\ fw'[t].wired /\ fw'[t].rules = fw[t].rules
    BY <1>3, <1>4, <1>10 DEF Chain
  <2>2. BuiltBy(t, n + 1)'
    BY <1>2, <1>7, <1>10, <2>1 DEF BuiltBy
  <2>3. QED
    BY <1>2, <2>2
<1>11. CASE n >= 3 /\ cmd.op = "append" /\ cmd.rule = RulesOf(t)[n - 2] /\ cmd.rule \in Rules
  <2>1. fw'[t].exists = fw[t].exists /\ fw'[t].wired = fw[t].wired
        /\ fw'[t].rules = Append(fw[t].rules, cmd.rule)
    BY <1>3, <1>4, <1>11 DEF Chain
  <2>2. Len(fw[t].rules) = n - 3 /\ n - 2 <= len
    BY <1>2, <1>7, <1>11 DEF BuiltBy
  <2>3. Len(fw'[t].rules) = n - 2 /\ fw'[t].rules[n - 2] = cmd.rule
    BY <1>2, <1>3, <1>11, <2>1, <2>2
  <2>4. ASSUME NEW i \in 1..(n - 3) PROVE fw'[t].rules[i] = fw[t].rules[i]
    BY <1>2, <1>3, <1>11, <2>1, <2>2
  <2>5. ASSUME NEW i \in 1..(n - 2) PROVE fw'[t].rules[i] = RulesOf(t)[i]
    <3>1. CASE i = n - 2
      BY <1>11, <2>3, <3>1
    <3>2. CASE i # n - 2
      <4>1. i \in 1..(n - 3)
        BY <1>2, <3>2
      <4>2. QED
        BY <1>7, <2>2, <2>4, <4>1 DEF BuiltBy
    <3>3. QED
      BY <3>1, <3>2
  <2>6. BuiltBy(t, n + 1)'
    <3>1. fw'[t].exists /\ (fw'[t].wired <=> n + 1 >= 3)
      BY <1>2, <1>5, <1>7, <1>11, <2>1 DEF BuiltBy
    <3>2. Len(fw'[t].rules)
            = IF n + 1 <= 3 THEN 0 ELSE IF n + 1 - 3 <= len THEN n + 1 - 3 ELSE len
      BY <1>2, <1>11, <2>2, <2>3
    <3>3. \A i \in 1..Len(fw'[t].rules) : fw'[t].rules[i] = RulesOf(t)[i]
      BY <2>3, <2>5
    <3>4. QED
      BY <1>2, <1>11, <3>1, <3>2, <3>3 DEF BuiltBy
  <2>7. QED
    BY <1>2, <2>6
<1>12. QED
  BY <1>6, <1>8, <1>9, <1>10, <1>11

\* A whole set-up, and what is known of a chain then.
LEMMA SetupWhole ==
  ASSUME NEW k \in Int, k > Len(Setup), NEW t \in Tables, BuiltBy(t, k - First(t))
  PROVE  /\ fw[t].exists /\ fw[t].wired
         /\ Len(fw[t].rules) = Len(RulesOf(t))
         /\ \A i \in 1..Len(RulesOf(t)) : fw[t].rules[i] = RulesOf(t)[i]
<1> DEFINE n == k - First(t)
           len == Len(RulesOf(t))
<1>1. len \in Nat /\ n \in Int /\ n >= len + 3
  <2>1. Last(t) <= 20
    BY DEF Tables, Last
  <2>2. QED
    BY <2>1, Sizes, Lengths
<1>2. BuiltBy(t, n)
  OBVIOUS
<1> HIDE DEF n
<1>3. QED
  BY <1>1, <1>2 DEF BuiltBy

\* Without failing commands every command of setup finds what it needs.
LEMMA SetupPossible ==
  ASSUME NEW k \in 1..Len(Setup), "iptables" \notin faults,
         \A t \in Tables : BuiltBy(t, k - First(t))
  PROVE  Possible(fw, Setup[k])
<1> DEFINE t == Setup[k].table
<1>1. t \in Tables /\ BuiltBy(t, k - First(t)) /\ NextOfChain(k)
  BY SetupCommands DEF NextOfChain
<1>2. k \in Int /\ First(t) \in Int
  BY <1>1, Sizes, Lengths
<1>3. Setup[k].op # "new" => k - First(t) >= 1
  BY <1>1, <1>2 DEF NextOfChain
<1>4. Setup[k].op # "new" => fw[t].exists
  BY <1>1, <1>2, <1>3 DEF BuiltBy
<1>5. QED
  BY <1>1, <1>4 DEF Possible, NextOfChain

\* Each command of teardown takes the chains one step further.
LEMMA TeardownStep ==
  ASSUME ETypeOK, NEW k \in 1..Len(Teardown), UndoneBy(k), fw' = Apply(fw, Teardown[k])
  PROVE  UndoneBy(k + 1)'
<1> DEFINE cmd == Teardown[k]
<1>1. fw \in [Tables -> Chain]
  BY DEF ETypeOK, Chain
<1>2. k \in {1, 2, 3, 4, 5, 6, 7}
  BY Lengths
<1>3. fw' = Apply(fw, cmd)
  OBVIOUS
<1>4. fw["nat"] \in Chain /\ fw["filter"] \in Chain /\ fw["ip6"] \in Chain
  BY <1>1 DEF Tables
<1> HIDE DEF cmd
<1>5. CASE k = 1
  <2>1. cmd.op = "flush" /\ cmd.table = "nat"
    BY <1>5, TeardownCommands DEF cmd
  <2>2. /\ fw'["nat"] = [fw["nat"] EXCEPT !.rules = <<>>]
        /\ fw'["filter"] = fw["filter"] /\ fw'["ip6"] = fw["ip6"]
    BY <1>1, <1>3, <2>1 DEF Apply, Tables
  <2>3. QED
    <3>1. UndoneBy(1)
      BY <1>5
    <3>2. fw'["nat"].exists /\ fw'["nat"].rules = <<>>
      BY <1>4, <2>2, <3>1 DEF Chain, UndoneBy
    <3>3. UndoneBy(2)'
      BY <2>2, <3>1, <3>2 DEF UndoneBy
    <3>4. k + 1 = 2
      BY <1>5
    <3>5. QED
      BY <3>3, <3>4
<1>6. CASE k \in {2, 3, 4}
  <2>1. /\ cmd.op = IF k = 2 THEN "unwire" ELSE IF k = 3 THEN "flush" ELSE "delete"
        /\ cmd.table = "filter"
    BY <1>6, TeardownCommands DEF cmd
  <2>2. /\ fw'["filter"] = IF k = 2 THEN [fw["filter"] EXCEPT !.wired = FALSE]
                           ELSE IF k = 3 THEN [fw["filter"] EXCEPT !.rules = <<>>]
                           ELSE NoChain
        /\ fw'["nat"] = fw["nat"] /\ fw'["ip6"] = fw["ip6"]
    BY <1>1, <1>3, <1>6, <2>1 DEF Apply, Tables
  <2>3. QED
    BY <1>4, <1>6, <2>2 DEF UndoneBy, Chain, NoChain
<1>7. CASE k \in {5, 6, 7}
  <2>1. /\ cmd.op = IF k = 5 THEN "unwire" ELSE IF k = 6 THEN "flush" ELSE "delete"
        /\ cmd.table = "ip6"
    BY <1>7, TeardownCommands DEF cmd
  <2>2. /\ fw'["ip6"] = IF k = 5 THEN [fw["ip6"] EXCEPT !.wired = FALSE]
                        ELSE IF k = 6 THEN [fw["ip6"] EXCEPT !.rules = <<>>]
                        ELSE NoChain
        /\ fw'["nat"] = fw["nat"] /\ fw'["filter"] = fw["filter"]
    BY <1>1, <1>3, <1>7, <2>1 DEF Apply, Tables
  <2>3. QED
    BY <1>4, <1>7, <2>2 DEF UndoneBy, Chain, NoChain
<1>8. QED
  BY <1>2, <1>5, <1>6, <1>7

LEMMA TeardownPossible ==
  ASSUME NEW k \in 1..Len(Teardown), UndoneBy(k)
  PROVE  Possible(fw, Teardown[k])
<1>1. k \in {1, 2, 3, 4, 5, 6, 7}
  BY Lengths
<1>2. QED
  BY <1>1, TeardownCommands DEF UndoneBy, Possible

\* At every step of the set-up and of the tear-down the chains are what the
\* commands so far make of them, whatever else fails (setup_iptables.py 49-104).
THEOREM ChainsInvHolds == ESpec => []ChainsInv
<1>1. EInit => ChainsInv
  <2> SUFFICES ASSUME EInit PROVE ChainsInv
    OBVIOUS
  <2>1. ASSUME NEW t \in Tables PROVE BuiltBy(t, 1 - First(t))
    <3>1. 1 - First(t) \in Int /\ 1 - First(t) <= 0
      BY DEF Tables, First
    <3>2. ~fw[t].exists /\ ~fw[t].wired /\ fw[t].rules = <<>>
      BY DEF EInit, NoRules, NoChain
    <3>3. QED
      BY <3>1, <3>2 DEF BuiltBy
  <2>2. QED
    BY <2>1 DEF EInit, ChainsInv
<1>2. ETypeOK /\ ChainsInv /\ [ENext]_evars => ChainsInv'
  <2> SUFFICES ASSUME ETypeOK, ChainsInv, [ENext]_evars PROVE ChainsInv'
    OBVIOUS
  <2>1. CASE RunSetup
    <3>0. PICK k \in 1..Len(Setup) : k = step
      BY <2>1, Lengths DEF RunSetup, ETypeOK
    <3>1. k = step /\ k \in Int /\ pc = "setup" /\ UNCHANGED <<faults, ready>>
      BY <2>1, <3>0, Lengths DEF RunSetup
    <3>2. \A t \in Tables : BuiltBy(t, k - First(t))
      BY <3>1 DEF ChainsInv
    <3>3. ~ready
      BY <3>1 DEF ChainsInv
    <3> DEFINE t == Setup[k].table
    <3>4. t \in Tables /\ NextOfChain(k)
      BY <3>1, SetupCommands DEF NextOfChain
    <3>5. CASE Possible(fw, Setup[k]) /\ fw' = Apply(fw, Setup[k])
               /\ step' = k + 1 /\ UNCHANGED pc
      <4>1. BuiltBy(t, k + 1 - First(t))'
        BY <3>1, <3>2, <3>4, <3>5, NextChain
      <4>2. ASSUME NEW u \in Tables, u # t PROVE BuiltBy(u, k + 1 - First(u))'
        <5>1. fw'[u] = fw[u]
          BY <3>5, <4>2, ApplyElsewhere DEF ETypeOK, Chain
        <5>2. QED
          BY <3>1, <3>2, <4>2, <5>1, OtherChain
      <4>3. \A u \in Tables : BuiltBy(u, step - First(u))'
        <5>1. step' = k + 1
          BY <3>5
        <5>2. ASSUME NEW u \in Tables PROVE BuiltBy(u, step - First(u))'
          <6>1. BuiltBy(u, k + 1 - First(u))'
            BY <4>1, <4>2
          <6> DEFINE n == k + 1 - First(u)
          <6>2. step' - First(u) = n
            BY <3>1, <5>1, Sizes
          <6>3. BuiltBy(u, n)'
            BY <6>1
          <6> HIDE DEF n
          <6>4. QED
            BY <6>2, <6>3 DEF BuiltBy
        <5>3. QED
          BY <5>2
      <4>4. QED
        BY <3>1, <3>3, <3>5, <4>3 DEF ChainsInv
    <3>6. CASE MayFail(Setup[k]) /\ UNCHANGED fw /\ ~Setup[k].checked
               /\ step' = k + 1 /\ UNCHANGED pc
      <4>1. k - First(t) = 0 /\ Possible(fw, Setup[k])
        BY <3>4, <3>6 DEF NextOfChain, Possible
      <4>2. "iptables" \in faults
        BY <3>6, <4>1 DEF MayFail
      <4>3. BuiltBy(t, k + 1 - First(t))'
        <5>1. BuiltBy(t, 0) /\ k + 1 - First(t) = 1
          BY <3>1, <3>2, <3>4, <4>1, Sizes
        <5>2. Len(fw[t].rules) = 0
          BY <5>1 DEF BuiltBy
        <5>3. BuiltBy(t, 1)'
          BY <3>1, <3>6, <4>2, <5>1, <5>2 DEF BuiltBy
        <5>4. QED
          BY <5>1, <5>3
      <4>4. ASSUME NEW u \in Tables, u # t PROVE BuiltBy(u, k + 1 - First(u))'
        BY <3>1, <3>2, <3>6, <4>4, OtherChain
      <4>5. \A u \in Tables : BuiltBy(u, step - First(u))'
        <5>1. step' = k + 1
          BY <3>6
        <5>2. ASSUME NEW u \in Tables PROVE BuiltBy(u, step - First(u))'
          <6>1. BuiltBy(u, k + 1 - First(u))'
            BY <4>3, <4>4
          <6> DEFINE n == k + 1 - First(u)
          <6>2. step' - First(u) = n
            BY <3>1, <5>1, Sizes
          <6>3. BuiltBy(u, n)'
            BY <6>1
          <6> HIDE DEF n
          <6>4. QED
            BY <6>2, <6>3 DEF BuiltBy
        <5>3. QED
          BY <5>2
      <4>6. QED
        BY <3>1, <3>3, <3>6, <4>5 DEF ChainsInv
    <3>7. CASE MayFail(Setup[k]) /\ Setup[k].checked /\ pc' = "exited"
               /\ UNCHANGED <<fw, step>>
      <4>1. "iptables" \in faults
        BY <3>1, <3>2, <3>7, SetupPossible DEF MayFail
      <4>2. QED
        BY <3>1, <3>3, <3>7, <4>1, Lengths DEF ChainsInv
    <3>8. QED
      BY <2>1, <3>1, <3>5, <3>6, <3>7 DEF RunSetup
  <2>2. CASE RunTeardown
    <3>0. PICK k \in 1..Len(Teardown) : k = step
      BY <2>2, Lengths DEF RunTeardown, ETypeOK
    <3>1. /\ k = step /\ k \in Int /\ pc = "teardown" /\ step' = k + 1
          /\ UNCHANGED <<faults, pc, ready>>
      BY <2>2, <3>0, Lengths DEF RunTeardown
    <3>2. ASSUME "iptables" \notin faults PROVE UndoneBy(k + 1)'
      <4>1. UndoneBy(k) /\ Possible(fw, Teardown[k])
        BY <3>1, <3>2, TeardownPossible DEF ChainsInv
      <4>2. fw' = Apply(fw, Teardown[k])
        BY <2>2, <3>1, <3>2, <4>1 DEF RunTeardown, MayFail
      <4>3. QED
        BY <4>1, <4>2, TeardownStep
    <3>3. ASSUME "iptables" \notin faults PROVE UndoneBy(step)'
      BY <3>1, <3>2, <3>3
    <3>4. step' <= Len(Teardown) + 1 /\ ~(step' > Len(Setup))
      BY <3>1, Lengths
    <3>5. QED
      BY <3>1, <3>3, <3>4 DEF ChainsInv
  <2>3. CASE WaitForNetwork
    BY <2>3 DEF WaitForNetwork, ChainsInv, BuiltBy
  <2>4. CASE SetupDone \/ TryCert \/ CertDone \/ WriteMarker \/ SpawnMitmdump \/ InstallHandlers
    BY <2>4 DEF SetupDone, TryCert, CertDone, WriteMarker, SpawnMitmdump, InstallHandlers,
                ChainsInv, BuiltBy
  <2>5. CASE MitmdumpReturns
    <3>1. step \in Int /\ step > Len(Setup) /\ \A t \in Tables : BuiltBy(t, step - First(t))
      BY <2>5, Lengths DEF MitmdumpReturns, ETypeOK, ChainsInv
    <3>2. \A t \in Tables : fw[t].exists /\ fw[t].wired
      BY <3>1, SetupWhole
    <3>3. UndoneBy(1)'
      BY <2>5, <3>2 DEF MitmdumpReturns, UndoneBy, Tables
    <3>4. QED
      BY <2>5, <3>3, Lengths DEF MitmdumpReturns, ChainsInv
  <2>6. CASE TeardownDone
    <3>1. step = Len(Teardown) + 1
      BY <2>6, Lengths DEF TeardownDone, ChainsInv, ETypeOK
    <3>2. QED
      BY <2>6, <3>1, Lengths DEF TeardownDone, ChainsInv, UndoneBy
  <2>7. CASE Child \/ ResolverDies \/ MitmdumpExits
    BY <2>7 DEF Child, StartServing, PolicyRejected, Watchdog, ResolverDies, MitmdumpExits,
                ChainsInv, BuiltBy, UndoneBy
  <2>8. CASE Kill
    BY <2>8 DEF Kill, ChainsInv, BuiltBy
  <2>9. CASE UNCHANGED evars
    BY <2>9 DEF evars, ChainsInv, BuiltBy, UndoneBy
  <2>10. QED
    BY <2>1, <2>2, <2>3, <2>4, <2>5, <2>6, <2>7, <2>8, <2>9 DEF ENext, Main
<1>3. QED
  BY <1>1, <1>2, ETypeCorrect, PTL DEF ESpec

-----------------------------------------------------------------------------
(***************************************************************************)
(* What whole chains do to a packet                                        *)
(***************************************************************************)
LEMMA FirstMatchIs ==
  ASSUME NEW chain, chain.wired, chain.rules \in Seq(Rules), NEW pkt, NEW here,
         NEW i \in 1..Len(chain.rules), Matches(chain.rules[i], pkt, here),
         \A j \in 1..(i - 1) : ~Matches(chain.rules[j], pkt, here)
  PROVE  FirstMatch(chain, pkt, here) = chain.rules[i]
<1> DEFINE hits == {j \in DOMAIN chain.rules : Matches(chain.rules[j], pkt, here)}
           first == CHOOSE j \in hits : \A m \in hits : j <= m
<1>1. hits \subseteq Nat /\ i \in hits /\ \A m \in hits : i <= m
  OBVIOUS
<1> HIDE DEF hits
<1>2. first = i
  <2>1. first \in hits /\ \A m \in hits : first <= m
    BY <1>1
  <2>2. first <= i /\ i <= first /\ first \in Nat /\ i \in Nat
    BY <1>1, <2>1
  <2>3. QED
    BY <2>2
<1>3. hits # {}
  BY <1>1
<1>4. QED
  BY <1>2, <1>3 DEF FirstMatch, hits

LEMMA NoMatch ==
  ASSUME NEW chain, NEW pkt, NEW here,
         ~chain.wired \/ \A j \in DOMAIN chain.rules : ~Matches(chain.rules[j], pkt, here)
  PROVE  FirstMatch(chain, pkt, here) = "none"
BY DEF FirstMatch

\* A whole chain of table t.
Whole(f, t) ==
  /\ f[t].wired /\ f[t].rules \in Seq(Rules)
  /\ Len(f[t].rules) = Len(RulesOf(t))
  /\ \A i \in 1..Len(RulesOf(t)) : f[t].rules[i] = RulesOf(t)[i]

LEMMA NatMatches ==
  ASSUME NEW f, Whole(f, "nat"), NEW pkt, NEW here
  PROVE  FirstMatch(f["nat"], pkt, here)
           = IF pkt.kind \in {"http", "https", "dns"} /\ ~pkt.root THEN pkt.kind ELSE "none"
<1> DEFINE rules == f["nat"].rules
<1>1. /\ f["nat"].wired /\ rules \in Seq(Rules) /\ Len(rules) = 3
      /\ rules[1] = "http" /\ rules[2] = "https" /\ rules[3] = "dns"
  BY RulesAt DEF Whole, RulesOf
<1>2. \A i \in {1, 2, 3} : Matches(rules[i], pkt, here) <=> pkt.kind = rules[i] /\ ~pkt.root
  BY <1>1 DEF Matches
<1>3. CASE pkt.kind \in {"http", "https", "dns"} /\ ~pkt.root
  <2>1. PICK i \in {1, 2, 3} : pkt.kind = rules[i] /\ \A j \in {1, 2, 3} : j # i => pkt.kind # rules[j]
    BY <1>1, <1>3
  <2>2. i \in 1..Len(rules) /\ Matches(rules[i], pkt, here)
        /\ \A j \in 1..(i - 1) : ~Matches(rules[j], pkt, here)
    BY <1>1, <1>2, <1>3, <2>1
  <2>3. FirstMatch(f["nat"], pkt, here) = rules[i]
    BY <1>1, <2>2, FirstMatchIs
  <2>4. QED
    BY <1>3, <2>1, <2>3
<1>4. CASE ~(pkt.kind \in {"http", "https", "dns"} /\ ~pkt.root)
  <2>1. \A j \in DOMAIN rules : ~Matches(rules[j], pkt, here)
    BY <1>1, <1>2, <1>4
  <2>2. QED
    BY <1>4, <2>1, NoMatch
<1>5. QED
  BY <1>3, <1>4

LEMMA FilterMatches ==
  ASSUME NEW f, Whole(f, "filter"), NEW pkt, NEW here
  PROVE  FirstMatch(f["filter"], pkt, here) = "drop"
           <=> ~pkt.root /\ ~pkt.lo /\ ~(here /\ pkt.kind \in {"proxyPort", "dnsPort"})
<1> DEFINE rules == f["filter"].rules
           hit(i) == Matches(rules[i], pkt, here)
<1>1. /\ f["filter"].wired /\ rules \in Seq(Rules) /\ Len(rules) = 5
      /\ rules[1] = "root" /\ rules[2] = "lo" /\ rules[3] = "proxyPort"
      /\ rules[4] = "dnsPort" /\ rules[5] = "drop"
  BY RulesAt DEF Whole, RulesOf
<1>2. /\ hit(1) <=> pkt.root
      /\ hit(2) <=> pkt.lo
      /\ hit(3) <=> pkt.kind = "proxyPort" /\ here
      /\ hit(4) <=> pkt.kind = "dnsPort" /\ here
      /\ hit(5)
  BY <1>1 DEF Matches
<1>3. PICK i \in {1, 2, 3, 4, 5} : hit(i) /\ \A j \in {1, 2, 3, 4, 5} : j < i => ~hit(j)
  <2> HIDE DEF hit
  <2>1. QED
    BY <1>2
<1>4. FirstMatch(f["filter"], pkt, here) = rules[i]
  <2>1. i \in 1..Len(rules) /\ \A j \in 1..(i - 1) : ~hit(j)
    <3> HIDE DEF hit
    <3>1. QED
      BY <1>1, <1>3
  <2>2. hit(i) /\ f["filter"].wired /\ rules \in Seq(Rules)
    BY <1>1, <1>3
  <2>3. QED
    BY <2>1, <2>2, FirstMatchIs
<1>5. rules[i] = "drop" <=> i = 5
  BY <1>1
<1>6. i = 5 <=> ~hit(1) /\ ~hit(2) /\ ~hit(3) /\ ~hit(4)
  <2> HIDE DEF hit
  <2>1. QED
    BY <1>2, <1>3
<1>7. QED
  BY <1>2, <1>4, <1>5, <1>6

LEMMA Ip6Matches ==
  ASSUME NEW f, Whole(f, "ip6"), NEW pkt, NEW here
  PROVE  FirstMatch(f["ip6"], pkt, here) = "drop" <=> ~pkt.root /\ ~pkt.lo
<1> DEFINE rules == f["ip6"].rules
           hit(i) == Matches(rules[i], pkt, here)
<1>1. /\ f["ip6"].wired /\ rules \in Seq(Rules) /\ Len(rules) = 3
      /\ rules[1] = "root" /\ rules[2] = "lo" /\ rules[3] = "drop"
  BY RulesAt DEF Whole, RulesOf
<1>2. (hit(1) <=> pkt.root) /\ (hit(2) <=> pkt.lo) /\ hit(3)
  BY <1>1 DEF Matches
<1>3. PICK i \in {1, 2, 3} : hit(i) /\ \A j \in {1, 2, 3} : j < i => ~hit(j)
  <2> HIDE DEF hit
  <2>1. QED
    BY <1>2
<1>4. FirstMatch(f["ip6"], pkt, here) = rules[i]
  <2>1. i \in 1..Len(rules) /\ \A j \in 1..(i - 1) : ~hit(j)
    <3> HIDE DEF hit
    <3>1. QED
      BY <1>1, <1>3
  <2>2. hit(i) /\ f["ip6"].wired /\ rules \in Seq(Rules)
    BY <1>1, <1>3
  <2>3. QED
    BY <2>1, <2>2, FirstMatchIs
<1>5. rules[i] = "drop" <=> i = 3
  BY <1>1
<1>6. i = 3 <=> ~hit(1) /\ ~hit(2)
  <2> HIDE DEF hit
  <2>1. QED
    BY <1>2, <1>3
<1>7. QED
  BY <1>2, <1>4, <1>5, <1>6

\* Three whole chains treat every packet as the design notes say, but for the
\* excepted ones.
LEMMA WholeMeansPolicy ==
  ASSUME NEW f, \A t \in Tables : Whole(f, t)
  PROVE  MeansPolicy(f)
<1>1. Whole(f, "nat") /\ Whole(f, "filter") /\ Whole(f, "ip6")
  BY DEF Tables
<1> SUFFICES ASSUME NEW pkt \in Packets
             PROVE  Verdict(f, pkt) = IF Excepted(pkt) THEN "out" ELSE Documented(pkt)
  BY DEF MeansPolicy
<1>2. /\ pkt.v6 \in BOOLEAN /\ pkt.root \in BOOLEAN /\ pkt.lo \in BOOLEAN
      /\ pkt.kind \in Kinds
  BY DEF Packets
<1>3. CASE pkt.v6
  <2>1. FirstMatch(f["ip6"], pkt, FALSE) = "drop" <=> ~pkt.root /\ ~pkt.lo
    BY <1>1, Ip6Matches
  <2>2. QED
    BY <1>2, <1>3, <2>1 DEF Verdict, Documented, Excepted
<1>4. CASE ~pkt.v6
  <2> DEFINE redirected == FirstMatch(f["nat"], pkt, pkt.lo) # "none"
             port == IF redirected THEN RedirectOf(pkt.kind) ELSE pkt.kind
             seen == [pkt EXCEPT !.kind = port]
             dropped == FirstMatch(f["filter"], seen, redirected \/ pkt.lo) = "drop"
  <2>1. redirected <=> pkt.kind \in {"http", "https", "dns"} /\ ~pkt.root
    BY <1>1, NatMatches
  <2>2. seen.root = pkt.root /\ seen.lo = pkt.lo /\ seen.kind = port
    BY DEF Packets
  <2>3. dropped <=> /\ ~seen.root /\ ~seen.lo
                    /\ ~((redirected \/ pkt.lo) /\ seen.kind \in {"proxyPort", "dnsPort"})
    BY <1>1, FilterMatches
  <2>4. Verdict(f, pkt) = IF dropped THEN "drop" ELSE IF redirected THEN port ELSE "out"
    BY <1>4 DEF Verdict
  <2> HIDE DEF dropped, redirected, seen
  <2>5. CASE redirected
    BY <1>2, <1>4, <2>1, <2>2, <2>3, <2>4, <2>5 DEF Documented, Excepted, RedirectOf
  <2>6. CASE ~redirected
    BY <1>2, <1>4, <2>1, <2>2, <2>3, <2>4, <2>6 DEF Documented, Excepted
  <2>7. QED
    BY <2>5, <2>6
<1>5. QED
  BY <1>3, <1>4

\* Whatever else fails or is killed, from the marker on, and also when the proxy is
\* killed with its rules installed, every packet meets the fate that the design
\* notes promise, except that IPv6 of root and what others send on the loopback
\* interface go out (setup_iptables.py 9-17, 62-104, entrypoint.py 82-105).
THEOREM ReadyMeansFilteredHolds == ESpec => []ReadyMeansFiltered
<1>1. ETypeOK /\ ChainsInv => ReadyMeansFiltered
  <2> SUFFICES ASSUME ETypeOK, ChainsInv,
                      (ready /\ Alive /\ pc # "teardown") \/ (pc = "killed" /\ step > Len(Setup))
               PROVE  MeansPolicy(fw)
    BY DEF ReadyMeansFiltered
  <2>1. step > Len(Setup) /\ pc \notin {"network", "setup"} /\ pc # "teardown"
    BY DEF ChainsInv, ETypeOK, EPc, Alive
  <2>2. step \in Int /\ fw \in [Tables -> Chain]
    BY Lengths DEF ETypeOK, Chain
  <2>3. ASSUME NEW t \in Tables PROVE Whole(fw, t)
    <3>1. BuiltBy(t, step - First(t))
      BY <2>1 DEF ChainsInv
    <3>2. /\ fw[t].wired
          /\ Len(fw[t].rules) = Len(RulesOf(t))
          /\ \A i \in 1..Len(RulesOf(t)) : fw[t].rules[i] = RulesOf(t)[i]
      BY <2>1, <2>2, <3>1, SetupWhole
    <3>3. fw[t].rules \in Seq(Rules)
      BY <2>2 DEF Chain
    <3>4. QED
      BY <3>2, <3>3 DEF Whole
  <2>4. QED
    BY <2>3, WholeMeansPolicy
<1>2. QED
  BY <1>1, ETypeCorrect, ChainsInvHolds, PTL

\* A tear-down in which no command fails leaves nothing that a packet could meet
\* (entrypoint.py 10, 106-111).
THEOREM TornDownHolds == ESpec => []TornDown
<1>1. ChainsInv => TornDown
  <2> SUFFICES ASSUME UndoneBy(8), NEW pkt \in Packets PROVE Verdict(fw, pkt) = "out"
    BY Lengths DEF ChainsInv, TornDown
  <2>1. fw["nat"].rules = <<>> /\ ~fw["filter"].wired /\ ~fw["ip6"].wired
    BY DEF UndoneBy
  <2>2. \A p, here : FirstMatch(fw["ip6"], p, here) = "none"
                     /\ FirstMatch(fw["filter"], p, here) = "none"
                     /\ FirstMatch(fw["nat"], p, here) = "none"
    BY <2>1, NoMatch
  <2>3. QED
    BY <2>2 DEF Verdict
<1>2. QED
  BY <1>1, ChainsInvHolds, PTL
=============================================================================
