---------------------------- MODULE MCPolicyGate -----------------------------
(* Policy files for TLC: a rule after one of the other action that overlaps   *)
(* it, rules of one host in two entries, two hosts, entries and rules that    *)
(* the addon passes over, and files it rejects.                               *)
EXTENDS PolicyGate

CONSTANTS h1, h2, a, b, GET, POST

Rule(action, regex, paths, method) ==
  [action |-> action, regex |-> regex, paths |-> paths, method |-> method]

Entry(host, rules) == [host |-> host, list |-> TRUE, rules |-> rules]

AllowA   == Rule("ALLOW", "ok", {a}, "*")
DenyAll  == Rule("DENY", "ok", {a, b}, "*")
AllowGet == Rule("ALLOW", "ok", {a, b}, GET)
Unknown  == Rule("other", "ok", {a, b}, "*")

Pairs == {<<AllowA, DenyAll>>, <<DenyAll, AllowA>>, <<DenyAll, AllowGet>>}

MCFiles ==
  {<<Entry(h1, <<p[1], p[2]>>)>> : p \in Pairs}
    \cup {<<Entry(h1, <<AllowA>>), Entry(h2, <<AllowA>>)>>,
          <<Entry(h1, <<DenyAll>>), Entry(h1, <<AllowA>>)>>,
          <<Entry(h1, <<AllowGet>>), Entry(h1, <<DenyAll, Unknown>>)>>,
          <<[host |-> h1, list |-> FALSE, rules |-> <<>>], Entry("", <<AllowA>>)>>,
          <<Entry(Missing, <<>>)>>,
          <<Entry(h1, <<Rule("ALLOW", "invalid", {}, "*")>>)>>}
=============================================================================
