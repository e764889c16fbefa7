------------------------------- MODULE Policy --------------------------------
(***************************************************************************)
(* What proxy/policy.py makes of a policy file, and how it decides a       *)
(* request.  A file is the sequence of its entries, an entry has a host    *)
(* and a sequence of rules.  A regular expression is the set of paths it   *)
(* matches in full.                                                        *)
(***************************************************************************)
EXTENDS Naturals, Sequences

CONSTANTS
  Hosts, Paths, Methods,   \* what a request can name
  Missing                  \* the host of an entry that has no such key

(***************************************************************************)
(* regex: "ok", "empty" (no path given) or "invalid" (does not compile)    *)
(* list:  the entry's policies are a list                                  *)
(***************************************************************************)
Rules ==
  [action : {"ALLOW", "DENY", "other"}, regex : {"ok", "empty", "invalid"},
   paths : SUBSET Paths, method : Methods \cup {"*", ""}]

Entries == [host : Hosts \cup {"", Missing}, list : BOOLEAN, rules : Seq(Rules)]

-----------------------------------------------------------------------------
(***************************************************************************)
(* _load_policy.  A loop over a sequence is the function of the values its *)
(* variable has after n turns.                                             *)
(***************************************************************************)
\* entries without a host or without a list of rules are passed over
Usable(entry) == entry.host \notin {"", Missing} /\ entry.list

\* and so are rules with an unknown action, no path or no method
Compiled(rule) ==
  rule.action \in {"ALLOW", "DENY"} /\ rule.regex # "empty" /\ rule.method # ""

\* a regular expression that does not compile is logged as an error, the missing
\* host raises: mitmdump ends when its start-up logs an error
Rejected(file) ==
  \E i \in DOMAIN file :
    \/ file[i].host = Missing
    \/ /\ Usable(file[i])
       /\ \E j \in DOMAIN file[i].rules :
            Compiled(file[i].rules[j]) /\ file[i].rules[j].regex = "invalid"

\* the inner loop: compiled_rules
CompiledRules(rules) ==
  LET compiled[n \in 0..Len(rules)] ==
        IF n = 0 THEN <<>>
        ELSE IF Compiled(rules[n]) THEN Append(compiled[n-1], rules[n])
        ELSE compiled[n-1]
  IN  compiled[Len(rules)]

\* the outer loop: self.network_policies, without the hosts no rule is left of
NetworkPolicies(file) ==
  LET loaded[n \in 0..Len(file)] ==
        IF n = 0 THEN <<>>
        ELSE IF Usable(file[n]) /\ CompiledRules(file[n].rules) # <<>>
          THEN Append(loaded[n-1], [host |-> file[n].host, rules |-> CompiledRules(file[n].rules)])
        ELSE loaded[n-1]
  IN  loaded[Len(file)]

\* Mutant: the set is overwritten by every entry instead of collected.
AllowedHostsOverwritten(file) ==
  IF file = <<>> THEN {} ELSE {file[Len(file)].host}

\* self._allowed_hosts: the hosts of all entries, also of those passed over
AllowedHosts(file) == {file[i].host : i \in DOMAIN file}

-----------------------------------------------------------------------------
(***************************************************************************)
(* _check_policy                                                           *)
(***************************************************************************)
Applies(rule, path, method) == rule.method \in {"*", method} /\ path \in rule.paths

\* Mutant: the first rule that matches wins.
FirstMatch(rules, path, method, before) ==
  LET last[n \in 0..Len(rules)] ==
        IF n = 0 THEN before
        ELSE IF last[n-1] = "none" /\ Applies(rules[n], path, method) THEN rules[n].action
        ELSE last[n-1]
  IN  last[Len(rules)]

\* the inner loop: last_match, which was `before` when it began
LastMatch(rules, path, method, before) ==
  LET last[n \in 0..Len(rules)] ==
        IF n = 0 THEN before
        ELSE IF Applies(rules[n], path, method) THEN rules[n].action
        ELSE last[n-1]
  IN  last[Len(rules)]

\* the outer loop: several entries may name the same host
CheckPolicy(policies, host, path, method) ==
  LET last[n \in 0..Len(policies)] ==
        IF n = 0 THEN "none"
        ELSE IF policies[n].host = host THEN LastMatch(policies[n].rules, path, method, last[n-1])
        ELSE last[n-1]
  IN  last[Len(policies)]

-----------------------------------------------------------------------------
(***************************************************************************)
(* The documented semantics (docs/egress-control.md 83-90): of all rules   *)
(* of the host that match, in declaration order over the whole file, the   *)
(* last one; without any, DENY.                                            *)
(***************************************************************************)
Matching(file, host, path, method) ==
  {at \in UNION {{i} \X DOMAIN file[i].rules : i \in DOMAIN file} :
     LET entry == file[at[1]]
         rule  == entry.rules[at[2]]
     IN  /\ entry.host = host /\ Usable(entry)
         /\ Compiled(rule) /\ Applies(rule, path, method)}

Documented(file, host, path, method) ==
  LET hits == Matching(file, host, path, method)
      last == CHOOSE at \in hits : \A other \in hits :
                other[1] < at[1] \/ (other[1] = at[1] /\ other[2] <= at[2])
  IN  IF hits = {} THEN "DENY" ELSE file[last[1]].rules[last[2]].action
=============================================================================
