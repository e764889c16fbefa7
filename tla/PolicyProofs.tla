---------------------------- MODULE PolicyProofs ----------------------------
(***************************************************************************)
(* The loops of the policy addon compute the documented decision, for      *)
(* every policy file.  The library's theorems of induction take the        *)
(* property as an operator, which no prover here can instantiate; that of  *)
(* the least element of a well-founded relation takes a set, and induction *)
(* follows from it for the set of numbers that have the property.          *)
(***************************************************************************)
EXTENDS Policy, SequenceTheorems, WellFoundedInduction, TLAPS

\* A set of natural numbers that is not empty has a least element.
LEMMA LeastElement ==
  ASSUME NEW T, T \subseteq Nat, T # {}
  PROVE  \E x \in T : \A y \in T : x <= y
<1> DEFINE R == {ss \in Nat \X Nat : ss[1] < ss[2]}
<1>1. IsWellFoundedOn(R, Nat)
  BY Zenon, NatLessThanWellFounded DEF OpToRel
<1>2. PICK x \in T : \A y \in T : ~ (<<y, x>> \in R)
  BY <1>1, WFMin
<1>3. ASSUME NEW y \in T PROVE x <= y
  <2>1. <<y, x>> \in Nat \X Nat /\ <<y, x>>[1] = y /\ <<y, x>>[2] = x
    OBVIOUS
  <2>2. ~ (y < x)
    BY <1>2, <2>1
  <2>3. QED
    BY <2>2
<1>4. QED
  BY <1>3

\* Induction, for the set of the numbers that have the property.
LEMMA Induction ==
  ASSUME NEW S, 0 \in S, \A n \in Nat : n \in S => n + 1 \in S
  PROVE  Nat \subseteq S
<1> DEFINE T == Nat \ S
<1> SUFFICES ASSUME T # {} PROVE FALSE
  OBVIOUS
<1>1. PICK x \in T : \A y \in T : x <= y
  BY LeastElement
<1>2. x - 1 \in Nat /\ x - 1 \notin T
  BY <1>1
<1>3. QED
  BY <1>2

\* Induction over the turns of a loop.
LEMMA TurnInduction ==
  ASSUME NEW S, NEW N \in Nat, 0 \in S, \A n \in 1..N : n - 1 \in S => n \in S
  PROVE  \A n \in 0..N : n \in S
<1> DEFINE T == {n \in Nat : n <= N => n \in S}
<1>1. 0 \in T
  OBVIOUS
<1>2. ASSUME NEW n \in Nat, n \in T PROVE n + 1 \in T
  <2> SUFFICES ASSUME n + 1 <= N PROVE n + 1 \in S
    OBVIOUS
  <2>1. n + 1 \in 1..N /\ (n + 1) - 1 = n /\ n \in S
    BY <1>2
  <2>2. QED
    BY <2>1
<1>3. Nat \subseteq T
  <2> HIDE DEF T
  <2>1. QED
    BY <1>1, <1>2, Induction
<1>4. QED
  BY <1>3

-----------------------------------------------------------------------------
(***************************************************************************)
(* Loops                                                                   *)
(***************************************************************************)
\* the values of a loop variable that starts at b and is changed by N turns
IsLoop(f, V, b, N, turn) ==
  /\ f \in [0..N -> V]
  /\ f[0] = b
  /\ \A n \in 1..N : f[n] = turn[<<n, f[n-1]>>]

\* A loop of N turns whose variable starts at b and stays in V has values.
LEMMA LoopExists ==
  ASSUME NEW V, NEW b \in V, NEW N \in Nat, NEW turn \in [(1..N) \X V -> V]
  PROVE  \E f : IsLoop(f, V, b, N, turn)
<1> DEFINE Values(k, f) == f[0] = b /\ \A n \in 1..k : f[n] = turn[<<n, f[n-1]>>]
           S == {k \in Nat : k <= N => \E f \in [0..k -> V] : Values(k, f)}
<1>1. 0 \in S
  <2> DEFINE f == [n \in 0..0 |-> b]
  <2>1. f \in [0..0 -> V] /\ Values(0, f)
    OBVIOUS
  <2>2. QED
    BY <2>1
<1>2. ASSUME NEW k \in Nat, k \in S PROVE k + 1 \in S
  <2> SUFFICES ASSUME k + 1 <= N PROVE \E f \in [0..(k + 1) -> V] : Values(k + 1, f)
    OBVIOUS
  <2>1. PICK g \in [0..k -> V] : Values(k, g)
    BY <1>2
  <2> DEFINE f == [n \in 0..(k + 1) |-> IF n = k + 1 THEN turn[<<k + 1, g[k]>>] ELSE g[n]]
  <2>2. turn[<<k + 1, g[k]>>] \in V
    BY <2>1
  <2>3. f \in [0..(k + 1) -> V]
    BY <2>2
  <2>4. Values(k + 1, f)
    <3>1. f[0] = b
      BY <2>1
    <3>2. ASSUME NEW n \in 1..(k + 1) PROVE f[n] = turn[<<n, f[n-1]>>]
      <4>1. f[n-1] = g[n-1]
        OBVIOUS
      <4>2. CASE n = k + 1
        <5>1. f[n] = turn[<<k + 1, g[k]>>]
          BY <4>2
        <5>2. n - 1 = k
          BY <4>2
        <5>3. f[n-1] = g[k]
          BY <4>1, <5>2
        <5>4. QED
          BY Zenon, <4>2, <5>1, <5>3
      <4>3. CASE n # k + 1
        <5>1. n \in 1..k /\ f[n] = g[n]
          BY <4>3
        <5>2. QED
          BY <2>1, <4>1, <5>1
      <4>4. QED
        BY <4>2, <4>3
    <3>3. QED
      BY <3>1, <3>2
  <2>5. QED
    BY <2>3, <2>4
<1>3. N \in S
  <2> HIDE DEF S
  <2>1. QED
    BY <1>1, <1>2, Induction
<1>4. QED
  BY <1>3 DEF IsLoop

\* A loop variable that every turn keeps in V never leaves it.
LEMMA TurnsKeepType ==
  ASSUME NEW V, NEW N \in Nat, NEW f,
         f[0] \in V, \A n \in 1..N : f[n-1] \in V => f[n] \in V
  PROVE  \A n \in 0..N : f[n] \in V
<1> DEFINE S == {n \in 0..N : f[n] \in V}
<1>1. 0 \in S /\ \A n \in 1..N : n - 1 \in S => n \in S
  OBVIOUS
<1>2. \A n \in 0..N : n \in S
  <2> HIDE DEF S
  <2>1. QED
    BY <1>1, TurnInduction
<1>3. QED
  BY <1>2

\* f[n] is the value of compiled_rules after n turns of the inner loop of _load_policy
CompiledRulesTurns(f, rules) ==
  /\ f \in [0..Len(rules) -> Seq(Rules)]
  /\ f[0] = <<>>
  /\ \A n \in 1..Len(rules) :
       f[n] = IF Compiled(rules[n]) THEN Append(f[n-1], rules[n]) ELSE f[n-1]
  /\ CompiledRules(rules) = f[Len(rules)]

\* The inner loop of _load_policy has such values, and they are well typed.
LEMMA CompiledRulesLoop ==
  ASSUME NEW rules \in Seq(Rules)
  PROVE  \E f : CompiledRulesTurns(f, rules)
<1> DEFINE V == Seq(Rules)
           N == Len(rules)
           start == <<>>
           Turn(n, v) == IF Compiled(rules[n]) THEN Append(v, rules[n]) ELSE v
           turn == [x \in (1..N) \X V |-> Turn(x[1], x[2])]
           Solves(f) == f = [n \in 0..N |-> IF n = 0 THEN <<>> ELSE Turn(n, f[n-1])]
           loop == CHOOSE f : Solves(f)
<1>1. N \in Nat /\ start \in V
  OBVIOUS
<1>2. \A n \in 1..N, v \in V : Turn(n, v) \in V
  OBVIOUS
<1>3. CompiledRules(rules) = loop[N]
  BY Zenon DEF CompiledRules
<1>4. \A n, v : Turn(n, v) = IF Compiled(rules[n]) THEN Append(v, rules[n]) ELSE v
  OBVIOUS
<1> HIDE DEF V, N, Turn
<1>5. PICK g : IsLoop(g, V, start, N, turn)
  <2>1. turn \in [(1..N) \X V -> V]
    BY <1>2
  <2> HIDE DEF turn, start
  <2>2. QED
    BY <1>1, <2>1, LoopExists
<1>6. Solves(g)
  <2>1. ASSUME NEW n \in 0..N, n # 0 PROVE g[n] = Turn(n, g[n-1])
    <3>1. n \in 1..N /\ n - 1 \in 0..N
      BY <1>1, <2>1
    <3>2. QED
      BY <1>5, <3>1 DEF IsLoop
  <2>2. QED
    BY <1>5, <2>1 DEF IsLoop
<1>7. Solves(loop)
  BY <1>6, Zenon
<1> HIDE DEF loop
<1>8. loop[0] = <<>> /\ \A n \in 1..N : loop[n] = Turn(n, loop[n-1])
  BY <1>1, <1>7
<1>9. loop \in [0..N -> V]
  <2>1. loop[0] \in V /\ \A n \in 1..N : loop[n-1] \in V => loop[n] \in V
    BY <1>1, <1>2, <1>8
  <2>2. \A n \in 0..N : loop[n] \in V
    BY <1>1, <2>1, TurnsKeepType
  <2>3. QED
    BY <1>7, <2>2
<1>10. CompiledRulesTurns(loop, rules)
  BY <1>3, <1>4, <1>8, <1>9 DEF CompiledRulesTurns, V, N
<1>11. QED
  BY <1>10

\* What is kept of a list of rules is a list of rules.
LEMMA CompiledRulesType ==
  ASSUME NEW rules \in Seq(Rules)
  PROVE  CompiledRules(rules) \in Seq(Rules)
<1>1. Len(rules) \in 0..Len(rules)
  OBVIOUS
<1>2. QED
  BY <1>1, CompiledRulesLoop DEF CompiledRulesTurns

\* what NetworkPolicies holds
Loaded == [host : Hosts \cup {"", Missing}, rules : Seq(Rules)]

\* f[n] is the value of network_policies after n turns of the outer loop of _load_policy
NetworkPoliciesTurns(f, file) ==
  /\ f \in [0..Len(file) -> Seq(Loaded)]
  /\ f[0] = <<>>
  /\ \A n \in 1..Len(file) :
       f[n] = IF Usable(file[n]) /\ CompiledRules(file[n].rules) # <<>>
                         THEN Append(f[n-1], [host |-> file[n].host, rules |-> CompiledRules(file[n].rules)])
                       ELSE f[n-1]
  /\ NetworkPolicies(file) = f[Len(file)]

\* The outer loop of _load_policy has such values, and they are well typed.
LEMMA NetworkPoliciesLoop ==
  ASSUME NEW file \in Seq(Entries)
  PROVE  \E f : NetworkPoliciesTurns(f, file)
<1> DEFINE V == Seq(Loaded)
           N == Len(file)
           start == <<>>
           Turn(n, v) == IF Usable(file[n]) /\ CompiledRules(file[n].rules) # <<>>
                           THEN Append(v, [host |-> file[n].host, rules |-> CompiledRules(file[n].rules)])
                         ELSE v
           turn == [x \in (1..N) \X V |-> Turn(x[1], x[2])]
           Solves(f) == f = [n \in 0..N |-> IF n = 0 THEN <<>> ELSE Turn(n, f[n-1])]
           loop == CHOOSE f : Solves(f)
<1>1. N \in Nat /\ start \in V
  OBVIOUS
<1>2. \A n \in 1..N, v \in V : Turn(n, v) \in V
  <2> SUFFICES ASSUME NEW n \in 1..N, NEW v \in V PROVE Turn(n, v) \in V
    OBVIOUS
  <2>1. file[n] \in Entries
    OBVIOUS
  <2>2. CompiledRules(file[n].rules) \in Seq(Rules)
    BY <2>1, CompiledRulesType DEF Entries
  <2>3. [host |-> file[n].host, rules |-> CompiledRules(file[n].rules)] \in Loaded
    BY <2>1, <2>2 DEF Entries, Loaded
  <2>4. QED
    BY <2>3
<1>3. NetworkPolicies(file) = loop[N]
  BY Zenon DEF NetworkPolicies
<1>4. \A n, v : Turn(n, v) = IF Usable(file[n]) /\ CompiledRules(file[n].rules) # <<>>
                           THEN Append(v, [host |-> file[n].host, rules |-> CompiledRules(file[n].rules)])
                         ELSE v
  OBVIOUS
<1> HIDE DEF V, N, Turn
<1>5. PICK g : IsLoop(g, V, start, N, turn)
  <2>1. turn \in [(1..N) \X V -> V]
    BY <1>2
  <2> HIDE DEF turn, start
  <2>2. QED
    BY <1>1, <2>1, LoopExists
<1>6. Solves(g)
  <2>1. ASSUME NEW n \in 0..N, n # 0 PROVE g[n] = Turn(n, g[n-1])
    <3>1. n \in 1..N /\ n - 1 \in 0..N
      BY <1>1, <2>1
    <3>2. QED
      BY <1>5, <3>1 DEF IsLoop
  <2>2. QED
    BY <1>5, <2>1 DEF IsLoop
<1>7. Solves(loop)
  BY <1>6, Zenon
<1> HIDE DEF loop
<1>8. loop[0] = <<>> /\ \A n \in 1..N : loop[n] = Turn(n, loop[n-1])
  BY <1>1, <1>7
<1>9. loop \in [0..N -> V]
  <2>1. loop[0] \in V /\ \A n \in 1..N : loop[n-1] \in V => loop[n] \in V
    BY <1>1, <1>2, <1>8
  <2>2. \A n \in 0..N : loop[n] \in V
    BY <1>1, <2>1, TurnsKeepType
  <2>3. QED
    BY <1>7, <2>2
<1>10. NetworkPoliciesTurns(loop, file)
  BY <1>3, <1>4, <1>8, <1>9 DEF NetworkPoliciesTurns, V, N
<1>11. QED
  BY <1>10

\* what a rule does, and what last_match is before any rule matched
Matches == {"none", "ALLOW", "DENY", "other"}

\* f[n] is the value of last_match after n turns of the inner loop of _check_policy
LastMatchTurns(f, rules, path, method, before) ==
  /\ f \in [0..Len(rules) -> Matches]
  /\ f[0] = before
  /\ \A n \in 1..Len(rules) :
       f[n] = IF Applies(rules[n], path, method) THEN rules[n].action ELSE f[n-1]
  /\ LastMatch(rules, path, method, before) = f[Len(rules)]

\* The inner loop of _check_policy has such values, and they are well typed.
LEMMA LastMatchLoop ==
  ASSUME NEW rules \in Seq(Rules), NEW path, NEW method, NEW before \in Matches
  PROVE  \E f : LastMatchTurns(f, rules, path, method, before)
<1> DEFINE V == Matches
           N == Len(rules)
           start == before
           Turn(n, v) == IF Applies(rules[n], path, method) THEN rules[n].action ELSE v
           turn == [x \in (1..N) \X V |-> Turn(x[1], x[2])]
           Solves(f) == f = [n \in 0..N |-> IF n = 0 THEN before ELSE Turn(n, f[n-1])]
           loop == CHOOSE f : Solves(f)
<1>1. N \in Nat /\ start \in V
  OBVIOUS
<1>2. \A n \in 1..N, v \in V : Turn(n, v) \in V
  <2> SUFFICES ASSUME NEW n \in 1..N, NEW v \in V PROVE Turn(n, v) \in V
    OBVIOUS
  <2>1. rules[n] \in Rules
    OBVIOUS
  <2>2. rules[n].action \in V
    BY <2>1 DEF Rules, Matches
  <2>3. QED
    BY <2>2
<1>3. LastMatch(rules, path, method, before) = loop[N]
  BY Zenon DEF LastMatch
<1>4. \A n, v : Turn(n, v) = IF Applies(rules[n], path, method) THEN rules[n].action ELSE v
  OBVIOUS
<1> HIDE DEF V, N, Turn
<1>5. PICK g : IsLoop(g, V, start, N, turn)
  <2>1. turn \in [(1..N) \X V -> V]
    BY <1>2
  <2> HIDE DEF turn, start
  <2>2. QED
    BY <1>1, <2>1, LoopExists
<1>6. Solves(g)
  <2>1. ASSUME NEW n \in 0..N, n # 0 PROVE g[n] = Turn(n, g[n-1])
    <3>1. n \in 1..N /\ n - 1 \in 0..N
      BY <1>1, <2>1
    <3>2. QED
      BY <1>5, <3>1 DEF IsLoop
  <2>2. QED
    BY <1>5, <2>1 DEF IsLoop
<1>7. Solves(loop)
  BY <1>6, Zenon
<1> HIDE DEF loop
<1>8. loop[0] = before /\ \A n \in 1..N : loop[n] = Turn(n, loop[n-1])
  BY <1>1, <1>7
<1>9. loop \in [0..N -> V]
  <2>1. loop[0] \in V /\ \A n \in 1..N : loop[n-1] \in V => loop[n] \in V
    BY <1>1, <1>2, <1>8
  <2>2. \A n \in 0..N : loop[n] \in V
    BY <1>1, <2>1, TurnsKeepType
  <2>3. QED
    BY <1>7, <2>2
<1>10. LastMatchTurns(loop, rules, path, method, before)
  BY <1>3, <1>4, <1>8, <1>9 DEF LastMatchTurns, V, N
<1>11. QED
  BY <1>10

\* last_match is an action or still "none", after the inner loop
LEMMA LastMatchType ==
  ASSUME NEW rules \in Seq(Rules), NEW path, NEW method, NEW before \in Matches
  PROVE  LastMatch(rules, path, method, before) \in Matches
<1>1. Len(rules) \in 0..Len(rules)
  OBVIOUS
<1>2. QED
  BY <1>1, LastMatchLoop DEF LastMatchTurns

\* f[n] is the value of last_match after n turns of the outer loop of _check_policy
CheckPolicyTurns(f, policies, host, path, method) ==
  /\ f \in [0..Len(policies) -> Matches]
  /\ f[0] = "none"
  /\ \A n \in 1..Len(policies) :
       f[n] = IF policies[n].host = host
                         THEN LastMatch(policies[n].rules, path, method, f[n-1])
                       ELSE f[n-1]
  /\ CheckPolicy(policies, host, path, method) = f[Len(policies)]

\* The outer loop of _check_policy has such values, and they are well typed.
LEMMA CheckPolicyLoop ==
  ASSUME NEW policies \in Seq(Loaded), NEW host, NEW path, NEW method
  PROVE  \E f : CheckPolicyTurns(f, policies, host, path, method)
<1> DEFINE V == Matches
           N == Len(policies)
           start == "none"
           Turn(n, v) == IF policies[n].host = host
                           THEN LastMatch(policies[n].rules, path, method, v)
                         ELSE v
           turn == [x \in (1..N) \X V |-> Turn(x[1], x[2])]
           Solves(f) == f = [n \in 0..N |-> IF n = 0 THEN "none" ELSE Turn(n, f[n-1])]
           loop == CHOOSE f : Solves(f)
<1>1. N \in Nat /\ start \in V
  BY DEF Matches
<1>2. \A n \in 1..N, v \in V : Turn(n, v) \in V
  <2> SUFFICES ASSUME NEW n \in 1..N, NEW v \in V PROVE Turn(n, v) \in V
    OBVIOUS
  <2>1. policies[n] \in Loaded
    OBVIOUS
  <2>2. policies[n].rules \in Seq(Rules)
    BY <2>1 DEF Loaded
  <2>3. QED
    BY <2>2, LastMatchType
<1>3. CheckPolicy(policies, host, path, method) = loop[N]
  BY Zenon DEF CheckPolicy
<1>4. \A n, v : Turn(n, v) = IF policies[n].host = host
                           THEN LastMatch(policies[n].rules, path, method, v)
                         ELSE v
  OBVIOUS
<1> HIDE DEF V, N, Turn
<1>5. PICK g : IsLoop(g, V, start, N, turn)
  <2>1. turn \in [(1..N) \X V -> V]
    BY <1>2
  <2> HIDE DEF turn, start
  <2>2. QED
    BY <1>1, <2>1, LoopExists
<1>6. Solves(g)
  <2>1. ASSUME NEW n \in 0..N, n # 0 PROVE g[n] = Turn(n, g[n-1])
    <3>1. n \in 1..N /\ n - 1 \in 0..N
      BY <1>1, <2>1
    <3>2. QED
      BY <1>5, <3>1 DEF IsLoop
  <2>2. QED
    BY <1>5, <2>1 DEF IsLoop
<1>7. Solves(loop)
  BY <1>6, Zenon
<1> HIDE DEF loop
<1>8. loop[0] = "none" /\ \A n \in 1..N : loop[n] = Turn(n, loop[n-1])
  BY <1>1, <1>7
<1>9. loop \in [0..N -> V]
  <2>1. loop[0] \in V /\ \A n \in 1..N : loop[n-1] \in V => loop[n] \in V
    BY <1>1, <1>2, <1>8
  <2>2. \A n \in 0..N : loop[n] \in V
    BY <1>1, <2>1, TurnsKeepType
  <2>3. QED
    BY <1>7, <2>2
<1>10. CheckPolicyTurns(loop, policies, host, path, method)
  BY <1>3, <1>4, <1>8, <1>9 DEF CheckPolicyTurns, V, N
<1>11. QED
  BY <1>10

\* and after the outer one.
LEMMA CheckPolicyType ==
  ASSUME NEW policies \in Seq(Loaded), NEW host, NEW path, NEW method
  PROVE  CheckPolicy(policies, host, path, method) \in Matches
<1>1. Len(policies) \in 0..Len(policies)
  OBVIOUS
<1>2. QED
  BY <1>1, CheckPolicyLoop DEF CheckPolicyTurns

-----------------------------------------------------------------------------
(***************************************************************************)
(* One more rule, one more entry                                           *)
(***************************************************************************)
\* No rule decides nothing; one more rule decides if it applies.
LEMMA LastMatchEmpty ==
  ASSUME NEW path, NEW method, NEW before \in Matches
  PROVE  LastMatch(<<>>, path, method, before) = before
<1>1. <<>> \in Seq(Rules) /\ Len(<<>>) = 0
  OBVIOUS
<1>2. PICK f : LastMatchTurns(f, <<>>, path, method, before)
  BY <1>1, LastMatchLoop
<1>3. QED
  BY <1>1, <1>2 DEF LastMatchTurns

LEMMA LastMatchAppend ==
  ASSUME NEW rules \in Seq(Rules), NEW rule \in Rules, NEW path, NEW method,
         NEW before \in Matches
  PROVE  LastMatch(Append(rules, rule), path, method, before) =
           IF Applies(rule, path, method) THEN rule.action
           ELSE LastMatch(rules, path, method, before)
<1> DEFINE longer == Append(rules, rule)
           N == Len(rules)
<1>1. /\ longer \in Seq(Rules) /\ N \in Nat /\ Len(longer) = N + 1
      /\ \A n \in 1..N : longer[n] = rules[n]
      /\ longer[N + 1] = rule
  BY AppendProperties
<1>2. PICK f : LastMatchTurns(f, rules, path, method, before)
  BY LastMatchLoop
<1> HIDE DEF longer
<1>3. PICK g : LastMatchTurns(g, longer, path, method, before)
  BY <1>1, LastMatchLoop
<1>4. /\ f[0] = g[0]
      /\ \A n \in 1..N : f[n] = IF Applies(rules[n], path, method) THEN rules[n].action ELSE f[n-1]
      /\ LastMatch(rules, path, method, before) = f[N]
  BY <1>2, <1>3 DEF LastMatchTurns
<1>5. /\ \A n \in 1..(N + 1) : g[n] = IF Applies(longer[n], path, method) THEN longer[n].action ELSE g[n-1]
      /\ LastMatch(longer, path, method, before) = g[N + 1]
  BY <1>1, <1>3 DEF LastMatchTurns
<1> HIDE DEF N
<1>6. \A n \in 0..N : f[n] = g[n]
  <2> DEFINE S == {n \in 0..N : f[n] = g[n]}
  <2>1. 0 \in S /\ \A n \in 1..N : n - 1 \in S => n \in S
    <3>1. ASSUME NEW n \in 1..N, f[n-1] = g[n-1] PROVE f[n] = g[n]
      <4>1. n \in 1..(N + 1) /\ longer[n] = rules[n]
        BY <1>1
      <4>2. QED
        BY <1>4, <1>5, <3>1, <4>1
    <3>2. QED
      BY <1>1, <1>4, <3>1
  <2>2. \A n \in 0..N : n \in S
    <3> HIDE DEF S
    <3>1. QED
      BY <1>1, <2>1, TurnInduction
  <2>3. QED
    BY <2>2
<1>7. N \in 0..N /\ N + 1 \in 1..(N + 1) /\ (N + 1) - 1 = N
  BY <1>1
<1>8. g[N + 1] = IF Applies(rule, path, method) THEN rule.action ELSE g[N]
  BY Zenon, <1>1, <1>5, <1>7
<1>9. QED
  BY <1>4, <1>5, <1>6, <1>7, <1>8 DEF longer

\* No entry decides nothing; one more entry decides if it is of the host.
LEMMA CheckPolicyEmpty ==
  ASSUME NEW host, NEW path, NEW method
  PROVE  CheckPolicy(<<>>, host, path, method) = "none"
<1>1. <<>> \in Seq(Loaded) /\ Len(<<>>) = 0
  OBVIOUS
<1>2. PICK f : CheckPolicyTurns(f, <<>>, host, path, method)
  BY <1>1, CheckPolicyLoop
<1>3. QED
  BY <1>1, <1>2 DEF CheckPolicyTurns

LEMMA CheckPolicyAppend ==
  ASSUME NEW policies \in Seq(Loaded), NEW np \in Loaded, NEW host, NEW path, NEW method
  PROVE  CheckPolicy(Append(policies, np), host, path, method) =
           IF np.host = host
             THEN LastMatch(np.rules, path, method, CheckPolicy(policies, host, path, method))
           ELSE CheckPolicy(policies, host, path, method)
<1> DEFINE longer == Append(policies, np)
           N == Len(policies)
<1>1. /\ longer \in Seq(Loaded) /\ N \in Nat /\ Len(longer) = N + 1
      /\ \A n \in 1..N : longer[n] = policies[n]
      /\ longer[N + 1] = np
  BY AppendProperties
<1>2. PICK f : CheckPolicyTurns(f, policies, host, path, method)
  BY CheckPolicyLoop
<1> HIDE DEF longer
<1>3. PICK g : CheckPolicyTurns(g, longer, host, path, method)
  BY <1>1, CheckPolicyLoop
<1>4. /\ f[0] = g[0]
      /\ \A n \in 1..N : f[n] = IF policies[n].host = host THEN LastMatch(policies[n].rules, path, method, f[n-1]) ELSE f[n-1]
      /\ CheckPolicy(policies, host, path, method) = f[N]
  BY <1>2, <1>3 DEF CheckPolicyTurns
<1>5. /\ \A n \in 1..(N + 1) : g[n] = IF longer[n].host = host THEN LastMatch(longer[n].rules, path, method, g[n-1]) ELSE g[n-1]
      /\ CheckPolicy(longer, host, path, method) = g[N + 1]
  BY <1>1, <1>3 DEF CheckPolicyTurns
<1> HIDE DEF N
<1>6. \A n \in 0..N : f[n] = g[n]
  <2> DEFINE S == {n \in 0..N : f[n] = g[n]}
  <2>1. 0 \in S /\ \A n \in 1..N : n - 1 \in S => n \in S
    <3>1. ASSUME NEW n \in 1..N, f[n-1] = g[n-1] PROVE f[n] = g[n]
      <4>1. n \in 1..(N + 1) /\ longer[n] = policies[n]
        BY <1>1
      <4>2. QED
        BY <1>4, <1>5, <3>1, <4>1
    <3>2. QED
      BY <1>1, <1>4, <3>1
  <2>2. \A n \in 0..N : n \in S
    <3> HIDE DEF S
    <3>1. QED
      BY <1>1, <2>1, TurnInduction
  <2>3. QED
    BY <2>2
<1>7. N \in 0..N /\ N + 1 \in 1..(N + 1) /\ (N + 1) - 1 = N
  BY <1>1
<1>8. g[N + 1] = IF np.host = host THEN LastMatch(np.rules, path, method, g[N]) ELSE g[N]
  BY Zenon, <1>1, <1>5, <1>7
<1>9. QED
  BY <1>4, <1>5, <1>6, <1>7, <1>8 DEF longer

-----------------------------------------------------------------------------
(***************************************************************************)
(* The last one that matches                                               *)
(***************************************************************************)
\* A set of turns that is not empty has a last one.
LEMMA GreatestElement ==
  ASSUME NEW N \in Nat, NEW T, T \subseteq 1..N, T # {}
  PROVE  \E x \in T : \A y \in T : y <= x
<1> DEFINE U == {N - x : x \in T}
<1>1. U \subseteq Nat /\ U # {}
  <2>1. PICK z : z \in T
    OBVIOUS
  <2>2. N - z \in U
    BY <2>1
  <2>3. \A x \in T : N - x \in Nat
    OBVIOUS
  <2>4. QED
    BY <2>2, <2>3
<1>2. PICK u \in U : \A z \in U : u <= z
  <2> HIDE DEF U
  <2>1. QED
    BY <1>1, LeastElement
<1>3. PICK x \in T : u = N - x
  OBVIOUS
<1>4. ASSUME NEW y \in T PROVE y <= x
  <2>1. N - x <= N - y
    BY <1>2, <1>3
  <2>2. x \in 1..N /\ y \in 1..N
    OBVIOUS
  <2>3. QED
    BY <2>1, <2>2
<1>5. QED
  BY <1>4

\* v ends with its value after the last of the turns in `hit`
EndsAfter(v, hit, N) ==
  /\ hit = {} => v[N] = v[0]
  /\ \A k \in hit : (\A j \in hit : j <= k) => v[N] = v[k]

\* A variable that no other turn changes ends so.
LEMMA LastOf ==
  ASSUME NEW N \in Nat, NEW v, NEW hit, hit \subseteq 1..N,
         \A n \in 1..N : n \notin hit => v[n] = v[n-1]
  PROVE  EndsAfter(v, hit, N)
<1>1. ASSUME NEW k \in 0..N, \A j \in hit : j <= k PROVE v[N] = v[k]
  <2> DEFINE S == {n \in 0..N : n <= k \/ v[n] = v[k]}
  <2>1. 0 \in S /\ \A n \in 1..N : n - 1 \in S => n \in S
    <3>1. ASSUME NEW n \in 1..N, n - 1 \in S PROVE n \in S
      <4>1. CASE n <= k
        BY <4>1
      <4>2. CASE n > k
        <5>1. v[n] = v[n-1]
          BY <1>1, <4>2
        <5>2. n - 1 = k \/ v[n-1] = v[k]
          BY <3>1, <4>2
        <5>3. v[n-1] = v[k]
          BY <5>2
        <5>4. QED
          BY <5>1, <5>3
      <4>3. QED
        BY <4>1, <4>2
    <3>2. QED
      BY <3>1
  <2>2. \A n \in 0..N : n \in S
    <3> HIDE DEF S
    <3>1. QED
      BY <2>1, TurnInduction
  <2>3. N = k \/ v[N] = v[k]
    BY <2>2
  <2>4. QED
    BY <2>3
<1>2. QED
  BY <1>1 DEF EndsAfter

\* a rule that is loaded and applies to the request
Hit(rule, path, method) == Compiled(rule) /\ Applies(rule, path, method)

\* those of an entry
RuleHits(rules, path, method) == {k \in 1..Len(rules) : Hit(rules[k], path, method)}

\* `match` is the action of the last rule in `hits`, `before` when there is none
ByLast(match, rules, hits, before) ==
  /\ hits = {} => match = before
  /\ \A k \in hits : (\A j \in hits : j <= k) => match = rules[k].action

\* One entry: last_match is the action of its last rule that applies.
LEMMA LastCompiledMatch ==
  ASSUME NEW rules \in Seq(Rules), NEW path, NEW method, NEW before \in Matches
  PROVE  ByLast(LastMatch(CompiledRules(rules), path, method, before), rules,
                RuleHits(rules, path, method), before)
<1> DEFINE N == Len(rules)
           hits == RuleHits(rules, path, method)
<1>1. PICK f : CompiledRulesTurns(f, rules)
  BY CompiledRulesLoop
<1>2. /\ N \in Nat
      /\ f \in [0..N -> Seq(Rules)]
      /\ f[0] = <<>>
      /\ \A n \in 1..N : f[n] = IF Compiled(rules[n]) THEN Append(f[n-1], rules[n]) ELSE f[n-1]
      /\ CompiledRules(rules) = f[N]
  BY <1>1 DEF CompiledRulesTurns
<1>3. \A n \in 1..N : rules[n] \in Rules
  OBVIOUS
<1> HIDE DEF N
<1> DEFINE v == [n \in 0..N |-> LastMatch(f[n], path, method, before)]
<1>4. v[0] = before
  BY <1>2, LastMatchEmpty
<1>5. \A n \in 1..N : v[n] = IF Hit(rules[n], path, method) THEN rules[n].action ELSE v[n-1]
  <2> SUFFICES ASSUME NEW n \in 1..N
               PROVE  v[n] = IF Hit(rules[n], path, method) THEN rules[n].action ELSE v[n-1]
    OBVIOUS
  <2>1. n - 1 \in 0..N /\ n \in 0..N /\ f[n-1] \in Seq(Rules)
    BY <1>2
  <2>2. v[n] = LastMatch(f[n], path, method, before) /\ v[n-1] = LastMatch(f[n-1], path, method, before)
    BY <2>1
  <2>3. CASE Compiled(rules[n])
    <3>1. f[n] = Append(f[n-1], rules[n])
      BY <1>2, <2>3
    <3>2. LastMatch(Append(f[n-1], rules[n]), path, method, before) =
            IF Applies(rules[n], path, method) THEN rules[n].action
            ELSE LastMatch(f[n-1], path, method, before)
      BY <1>3, <2>1, LastMatchAppend
    <3>3. QED
      BY Zenon, <2>2, <2>3, <3>1, <3>2 DEF Hit
  <2>4. CASE ~ Compiled(rules[n])
    <3>1. f[n] = f[n-1]
      BY <1>2, <2>4
    <3>2. QED
      BY Zenon, <2>2, <2>4, <3>1 DEF Hit
  <2>5. QED
    BY <2>3, <2>4
<1> HIDE DEF v
<1>6. hits \subseteq 1..N /\ \A n \in 1..N : n \in hits <=> Hit(rules[n], path, method)
  BY DEF N, RuleHits
<1> HIDE DEF hits
<1>7. \A n \in 1..N : n \notin hits => v[n] = v[n-1]
  BY <1>5, <1>6
<1>8. EndsAfter(v, hits, N)
  BY <1>2, <1>6, <1>7, LastOf
<1>9. \A k \in hits : v[k] = rules[k].action
  BY <1>5, <1>6
<1>10. LastMatch(CompiledRules(rules), path, method, before) = v[N]
  BY <1>2 DEF v
<1>11. QED
  BY <1>4, <1>8, <1>9, <1>10 DEF EndsAfter, ByLast, hits

\* the entries of the host that have one
EntryHits(file, host, path, method) ==
  {n \in 1..Len(file) : /\ Usable(file[n]) /\ file[n].host = host
                        /\ RuleHits(file[n].rules, path, method) # {}}

\* The whole file: the action of the last such rule of the last such entry.
LEMMA CheckPolicyLast ==
  ASSUME NEW file \in Seq(Entries), NEW host, NEW path, NEW method
  PROVE  LET match == CheckPolicy(NetworkPolicies(file), host, path, method)
             hits  == EntryHits(file, host, path, method)
         IN  /\ hits = {} => match = "none"
             /\ \A k \in hits : \A j \in RuleHits(file[k].rules, path, method) :
                  /\ \A i \in hits : i <= k
                  /\ \A i \in RuleHits(file[k].rules, path, method) : i <= j
                  => match = file[k].rules[j].action
<1> DEFINE N == Len(file)
           hits == EntryHits(file, host, path, method)
           entry(n) == [host |-> file[n].host, rules |-> CompiledRules(file[n].rules)]
<1>1. PICK f : NetworkPoliciesTurns(f, file)
  BY NetworkPoliciesLoop
<1>2. /\ N \in Nat
      /\ f \in [0..N -> Seq(Loaded)]
      /\ f[0] = <<>>
      /\ \A n \in 1..N : f[n] = IF Usable(file[n]) /\ CompiledRules(file[n].rules) # <<>>
                                  THEN Append(f[n-1], entry(n))
                                ELSE f[n-1]
      /\ NetworkPolicies(file) = f[N]
  BY <1>1 DEF NetworkPoliciesTurns
<1>3. ASSUME NEW n \in 1..N
      PROVE  /\ file[n].rules \in Seq(Rules)
             /\ CompiledRules(file[n].rules) \in Seq(Rules)
             /\ entry(n) \in Loaded
             /\ entry(n).host = file[n].host
             /\ entry(n).rules = CompiledRules(file[n].rules)
  <2>1. file[n] \in Entries
    OBVIOUS
  <2>2. file[n].rules \in Seq(Rules) /\ file[n].host \in Hosts \cup {"", Missing}
    BY <2>1 DEF Entries
  <2>3. CompiledRules(file[n].rules) \in Seq(Rules)
    BY <2>2, CompiledRulesType
  <2>4. QED
    BY <2>2, <2>3 DEF Loaded
<1>4. hits \subseteq 1..N
  BY DEF EntryHits
<1> HIDE DEF N, entry
<1> DEFINE v == [n \in 0..N |-> CheckPolicy(f[n], host, path, method)]
<1>5. v[0] = "none"
  BY <1>2, CheckPolicyEmpty
<1>6. ASSUME NEW n \in 1..N
      PROVE  /\ v[n-1] \in Matches
             /\ v[n] = IF Usable(file[n]) /\ file[n].host = host
                         THEN LastMatch(CompiledRules(file[n].rules), path, method, v[n-1])
                       ELSE v[n-1]
  <2>1. n - 1 \in 0..N /\ n \in 0..N /\ f[n-1] \in Seq(Loaded)
    BY <1>2
  <2>2. v[n] = CheckPolicy(f[n], host, path, method) /\ v[n-1] = CheckPolicy(f[n-1], host, path, method)
    BY <2>1
  <2>3. v[n-1] \in Matches
    BY <2>1, <2>2, CheckPolicyType
  <2> HIDE DEF v
  <2>4. CASE Usable(file[n]) /\ CompiledRules(file[n].rules) # <<>>
    <3>1. f[n] = Append(f[n-1], entry(n))
      BY <1>2, <2>4
    <3>2. CheckPolicy(Append(f[n-1], entry(n)), host, path, method) =
            IF entry(n).host = host
              THEN LastMatch(entry(n).rules, path, method, CheckPolicy(f[n-1], host, path, method))
            ELSE CheckPolicy(f[n-1], host, path, method)
      BY <1>3, <2>1, CheckPolicyAppend
    <3>3. v[n] = IF file[n].host = host
                   THEN LastMatch(CompiledRules(file[n].rules), path, method, v[n-1])
                 ELSE v[n-1]
      BY Zenon, <1>3, <2>2, <3>1, <3>2
    <3>4. QED
      BY Zenon, <2>3, <2>4, <3>3
  <2>5. CASE Usable(file[n]) /\ CompiledRules(file[n].rules) = <<>>
    <3>1. f[n] = f[n-1]
      BY <1>2, <2>5
    <3>2. LastMatch(<<>>, path, method, v[n-1]) = v[n-1]
      BY <2>3, LastMatchEmpty
    <3>3. QED
      BY Zenon, <2>2, <2>3, <2>5, <3>1, <3>2
  <2>6. CASE ~ Usable(file[n])
    <3>1. f[n] = f[n-1]
      BY <1>2, <2>6
    <3>2. QED
      BY Zenon, <2>2, <2>3, <2>6, <3>1
  <2>7. QED
    BY <2>4, <2>5, <2>6
<1>7. CheckPolicy(NetworkPolicies(file), host, path, method) = v[N]
  BY <1>2
<1> HIDE DEF v
<1>8. ASSUME NEW n \in 1..N, n \notin hits PROVE v[n] = v[n-1]
  <2>1. CASE Usable(file[n]) /\ file[n].host = host
    <3>1. RuleHits(file[n].rules, path, method) = {}
      BY <1>8, <2>1 DEF EntryHits, N
    <3>2. LastMatch(CompiledRules(file[n].rules), path, method, v[n-1]) = v[n-1]
      BY <1>3, <1>6, <3>1, LastCompiledMatch DEF ByLast
    <3>3. QED
      BY <1>6, <2>1, <3>2
  <2>2. CASE ~ (Usable(file[n]) /\ file[n].host = host)
    BY <1>6, <2>2
  <2>3. QED
    BY <2>1, <2>2
<1>9. ASSUME NEW n \in hits, NEW j \in RuleHits(file[n].rules, path, method),
             \A i \in RuleHits(file[n].rules, path, method) : i <= j
      PROVE  v[n] = file[n].rules[j].action
  <2>1. n \in 1..N /\ Usable(file[n]) /\ file[n].host = host
    BY DEF EntryHits, N
  <2>2. v[n] = LastMatch(CompiledRules(file[n].rules), path, method, v[n-1])
    BY <1>6, <2>1
  <2>3. LastMatch(CompiledRules(file[n].rules), path, method, v[n-1]) = file[n].rules[j].action
    BY <1>3, <1>6, <1>9, <2>1, LastCompiledMatch DEF ByLast
  <2>4. QED
    BY <2>2, <2>3
<1> HIDE DEF hits
<1>10. EndsAfter(v, hits, N)
  BY <1>2, <1>4, <1>8, LastOf
<1>11. ASSUME hits = {} PROVE v[N] = "none"
  BY <1>5, <1>10, <1>11 DEF EndsAfter
<1>12. ASSUME NEW k \in hits, NEW j \in RuleHits(file[k].rules, path, method),
              \A i \in hits : i <= k,
              \A i \in RuleHits(file[k].rules, path, method) : i <= j
       PROVE  v[N] = file[k].rules[j].action
  <2>1. v[N] = v[k]
    BY <1>10, <1>12 DEF EndsAfter
  <2>2. v[k] = file[k].rules[j].action
    BY <1>9, <1>12
  <2>3. QED
    BY <2>1, <2>2
<1>13. QED
  BY <1>7, <1>11, <1>12 DEF hits

\* The policy addon decides every request as the documentation says: by the
\* last rule of the host that applies, in declaration order over the whole
\* file, and DENY without one.
THEOREM CheckPolicyIsDocumented ==
  ASSUME NEW file \in Seq(Entries), NEW host, NEW path, NEW method
  PROVE  /\ Documented(file, host, path, method) \in {"ALLOW", "DENY"}
         /\ CheckPolicy(NetworkPolicies(file), host, path, method) =
              IF Matching(file, host, path, method) = {} THEN "none"
              ELSE Documented(file, host, path, method)
<1> DEFINE match == CheckPolicy(NetworkPolicies(file), host, path, method)
           hits == EntryHits(file, host, path, method)
           all == Matching(file, host, path, method)
           IsLast(at) == \A other \in all :
                           other[1] < at[1] \/ (other[1] = at[1] /\ other[2] <= at[2])
<1>1. /\ hits = {} => match = "none"
      /\ \A k \in hits : \A j \in RuleHits(file[k].rules, path, method) :
           /\ \A i \in hits : i <= k
           /\ \A i \in RuleHits(file[k].rules, path, method) : i <= j
           => match = file[k].rules[j].action
  BY CheckPolicyLast
<1>2. ASSUME NEW n \in 1..Len(file) PROVE DOMAIN file[n].rules = 1..Len(file[n].rules)
  <2>1. file[n] \in Entries
    OBVIOUS
  <2>2. file[n].rules \in Seq(Rules)
    BY <2>1 DEF Entries
  <2>3. QED
    BY <2>2
<1>3. DOMAIN file = 1..Len(file)
  OBVIOUS
<1>4. ASSUME NEW n \in hits, NEW j \in RuleHits(file[n].rules, path, method)
      PROVE  <<n, j>> \in all
  <2>1. /\ n \in DOMAIN file /\ Usable(file[n]) /\ file[n].host = host
        /\ j \in DOMAIN file[n].rules /\ Hit(file[n].rules[j], path, method)
    BY <1>2, <1>3 DEF EntryHits, RuleHits
  <2>2. <<n, j>> \in UNION {{i} \X DOMAIN file[i].rules : i \in DOMAIN file}
    BY <2>1
  <2>3. QED
    BY <2>1, <2>2 DEF Matching, Hit
<1>5. ASSUME NEW at \in all
      PROVE  at = <<at[1], at[2]>> /\ at[1] \in hits /\ at[2] \in RuleHits(file[at[1]].rules, path, method)
  <2>1. PICK i \in DOMAIN file : at \in {i} \X DOMAIN file[i].rules
    BY DEF Matching
  <2>2. at = <<at[1], at[2]>> /\ at[1] = i /\ at[2] \in DOMAIN file[i].rules
    BY <2>1
  <2>3. /\ file[at[1]].host = host /\ Usable(file[at[1]])
        /\ Hit(file[at[1]].rules[at[2]], path, method)
    BY DEF Matching, Hit
  <2>4. at[2] \in RuleHits(file[at[1]].rules, path, method)
    BY <1>2, <1>3, <2>2, <2>3 DEF RuleHits
  <2>5. QED
    BY <1>3, <2>2, <2>3, <2>4 DEF EntryHits
<1> HIDE DEF match
<1>6. CASE all = {}
  <2>1. hits = {}
    <3>1. ASSUME NEW n \in hits PROVE FALSE
      <4>1. PICK j : j \in RuleHits(file[n].rules, path, method)
        BY DEF EntryHits
      <4>2. QED
        BY <1>4, <1>6, <4>1
    <3>2. QED
      BY <3>1
  <2>2. QED
    BY <1>1, <1>6, <2>1 DEF Documented, match
<1>7. CASE all # {}
  <2>1. hits \subseteq 1..Len(file) /\ hits # {} /\ Len(file) \in Nat
    <3>1. hits # {}
      BY <1>5, <1>7
    <3>2. hits \subseteq 1..Len(file)
      BY DEF EntryHits
    <3>3. QED
      BY <3>1, <3>2
  <2>2. PICK k \in hits : \A i \in hits : i <= k
    <3> HIDE DEF hits
    <3>1. QED
      BY <2>1, GreatestElement
  <2>3. /\ Len(file[k].rules) \in Nat
        /\ RuleHits(file[k].rules, path, method) \subseteq 1..Len(file[k].rules)
        /\ RuleHits(file[k].rules, path, method) # {}
    <3>1. k \in 1..Len(file) /\ file[k] \in Entries
      BY DEF EntryHits
    <3>2. file[k].rules \in Seq(Rules)
      BY <3>1 DEF Entries
    <3>3. QED
      BY <3>2 DEF EntryHits, RuleHits
  <2>4. PICK j \in RuleHits(file[k].rules, path, method) :
          \A i \in RuleHits(file[k].rules, path, method) : i <= j
    BY <2>3, GreatestElement
  <2>5. match = file[k].rules[j].action
    BY <1>1, <2>2, <2>4 DEF match
  <2>6. k \in Nat /\ j \in Nat
    BY <2>1, <2>2, <2>3, <2>4
  <2>7. <<k, j>> \in all /\ IsLast(<<k, j>>)
    <3>1. <<k, j>> \in all
      BY <1>4
    <3>2. ASSUME NEW other \in all
          PROVE  other[1] < k \/ (other[1] = k /\ other[2] <= j)
      <4>1. other[1] \in hits /\ other[2] \in RuleHits(file[other[1]].rules, path, method)
        BY <1>5
      <4>2. other[1] <= k /\ other[1] \in Nat
        BY <2>1, <2>2, <4>1
      <4>3. other[1] = k => other[2] <= j
        BY <2>4, <4>1
      <4>4. QED
        BY <2>6, <4>2, <4>3
    <3>3. QED
      BY <3>1, <3>2
  <2> DEFINE last == CHOOSE at \in all : IsLast(at)
  <2>8. last \in all /\ IsLast(last)
    BY <2>7
  <2>9. last[1] = k /\ last[2] = j
    <3>1. last[1] \in Nat /\ last[2] \in Nat
      <4>1. last[1] \in hits /\ last[2] \in RuleHits(file[last[1]].rules, path, method)
        BY <1>5, <2>8
      <4>2. QED
        BY <4>1 DEF EntryHits, RuleHits
    <3>2. k < last[1] \/ (k = last[1] /\ j <= last[2])
      BY <2>7, <2>8
    <3>3. last[1] < k \/ (last[1] = k /\ last[2] <= j)
      BY <2>7, <2>8
    <3>4. QED
      BY <2>6, <3>1, <3>2, <3>3
  <2>10. Documented(file, host, path, method) = file[last[1]].rules[last[2]].action
    BY Zenon, <1>7 DEF Documented
  <2>11. file[k].rules[j].action \in {"ALLOW", "DENY"}
    BY <2>2, <2>4 DEF RuleHits, Hit, Compiled
  <2>12. QED
    BY <1>7, <2>5, <2>9, <2>10, <2>11 DEF match
<1>8. QED
  BY <1>6, <1>7
=============================================================================
