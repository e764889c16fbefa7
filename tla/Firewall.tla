------------------------------ MODULE Firewall ------------------------------
(***************************************************************************)
(* The iptables commands of proxy/setup_iptables.py and what the chains    *)
(* they build do to a packet that a process in the network namespace       *)
(* sends.  A packet is the little the rules look at; Documented is the     *)
(* fate the module's design notes promise it, and Excepted names the       *)
(* packets to which the rules do something else.                           *)
(***************************************************************************)
EXTENDS Integers, Sequences

-----------------------------------------------------------------------------
(***************************************************************************)
(* Packets.  "http" and "https" are TCP 80 and 443, "dns" is UDP 53,       *)
(* "proxyPort" and "dnsPort" the ports mitmdump and the DNS interceptor    *)
(* listen on, "other" any other protocol or port.                          *)
(***************************************************************************)
Kinds == {"http", "https", "dns", "proxyPort", "dnsPort", "other"}

\* v6: an IPv6 packet; root: sent by root; lo: sent to the loopback interface
Packets == [v6 : BOOLEAN, root : BOOLEAN, kind : Kinds, lo : BOOLEAN]

\* the port a NAT rule redirects to
RedirectOf(kind) == IF kind = "dns" THEN "dnsPort" ELSE "proxyPort"

-----------------------------------------------------------------------------
(***************************************************************************)
(* Chains.  A SANDBOXED_PI chain has rules and may be wired into OUTPUT.   *)
(***************************************************************************)
Tables == {"nat", "filter", "ip6"}

Rules == {"http", "https", "dns", "root", "lo", "proxyPort", "dnsPort", "drop"}

NoChain == [exists |-> FALSE, wired |-> FALSE, rules |-> <<>>]

NoRules == [t \in Tables |-> NoChain]

\* the commands; `checked` ones end the entrypoint when they fail
Command(op, table, rule, checked) ==
  [op |-> op, table |-> table, rule |-> rule, checked |-> checked]

New(t)       == Command("new", t, "none", FALSE)
Flush(t)     == Command("flush", t, "none", TRUE)
Wire(t)      == Command("wire", t, "none", TRUE)
Rule(t, r)   == Command("append", t, r, TRUE)

\* Mutant: the rules that let redirected packets pass come after the DROP.
SetupDropsFirst == <<
  New("nat"), Flush("nat"), Wire("nat"),
  Rule("nat", "http"), Rule("nat", "https"), Rule("nat", "dns"),
  New("filter"), Flush("filter"), Wire("filter"),
  Rule("filter", "root"), Rule("filter", "lo"), Rule("filter", "drop"),
  Rule("filter", "proxyPort"), Rule("filter", "dnsPort"),
  New("ip6"), Flush("ip6"), Wire("ip6"),
  Rule("ip6", "root"), Rule("ip6", "lo"), Rule("ip6", "drop") >>

Setup == <<
  New("nat"), Flush("nat"), Wire("nat"),
  Rule("nat", "http"), Rule("nat", "https"), Rule("nat", "dns"),
  New("filter"), Flush("filter"), Wire("filter"),
  Rule("filter", "root"), Rule("filter", "lo"),
  Rule("filter", "proxyPort"), Rule("filter", "dnsPort"), Rule("filter", "drop"),
  New("ip6"), Flush("ip6"), Wire("ip6"),
  Rule("ip6", "root"), Rule("ip6", "lo"), Rule("ip6", "drop") >>

Unchecked(op, t) == Command(op, t, "none", FALSE)

\* Mutant: the redirections are left behind.
TeardownKeepsNat ==
  << Unchecked("unwire", "filter"), Unchecked("flush", "filter"), Unchecked("delete", "filter"),
     Unchecked("unwire", "ip6"), Unchecked("flush", "ip6"), Unchecked("delete", "ip6") >>

\* the nat chain stays, empty and wired into OUTPUT
Teardown == <<
  Unchecked("flush", "nat"),
  Unchecked("unwire", "filter"), Unchecked("flush", "filter"), Unchecked("delete", "filter"),
  Unchecked("unwire", "ip6"), Unchecked("flush", "ip6"), Unchecked("delete", "ip6") >>

\* a command on a chain that does not exist fails, and so does removing a jump
\* that is not there or a chain in use
Possible(fw, cmd) ==
  /\ cmd.op # "new" => fw[cmd.table].exists
  /\ cmd.op = "unwire" => fw[cmd.table].wired
  /\ cmd.op = "delete" => fw[cmd.table].rules = <<>> /\ ~fw[cmd.table].wired

\* what a command that succeeds does to the tables
Apply(fw, cmd) ==
  [fw EXCEPT ![cmd.table] =
     CASE cmd.op = "new"    -> [@ EXCEPT !.exists = TRUE]
       [] cmd.op = "flush"  -> [@ EXCEPT !.rules = <<>>]
       [] cmd.op = "wire"   -> [@ EXCEPT !.wired = TRUE]
       [] cmd.op = "append" -> [@ EXCEPT !.rules = Append(@, cmd.rule)]
       [] cmd.op = "unwire" -> [@ EXCEPT !.wired = FALSE]
       [] cmd.op = "delete" -> NoChain]

-----------------------------------------------------------------------------
(***************************************************************************)
(* The fate of a packet: "out" (sent as it is), "drop", or redirected to   *)
(* the listener on "proxyPort" or "dnsPort".                               *)
(***************************************************************************)
\* here: the destination is 127.0.0.1
Matches(rule, pkt, here) ==
  CASE rule \in {"http", "https", "dns"}  -> pkt.kind = rule /\ ~pkt.root
    [] rule = "root"                      -> pkt.root
    [] rule = "lo"                        -> pkt.lo
    [] rule \in {"proxyPort", "dnsPort"}  -> pkt.kind = rule /\ here
    [] rule = "drop"                      -> TRUE

\* the first rule of a wired chain that matches, or "none" when none does
FirstMatch(chain, pkt, here) ==
  LET hits == {i \in DOMAIN chain.rules : Matches(chain.rules[i], pkt, here)}
  IN  IF ~chain.wired \/ hits = {}
        THEN "none"
        ELSE chain.rules[CHOOSE i \in hits : \A j \in hits : i <= j]

\* A redirected packet has a new port and the destination 127.0.0.1 when the
\* filter table sees it, but not yet the loopback interface.
Verdict(fw, pkt) ==
  IF pkt.v6
    THEN IF FirstMatch(fw["ip6"], pkt, FALSE) = "drop" THEN "drop" ELSE "out"
    ELSE LET redirected == FirstMatch(fw["nat"], pkt, pkt.lo) # "none"
             port == IF redirected THEN RedirectOf(pkt.kind) ELSE pkt.kind
             seen == [pkt EXCEPT !.kind = port]
         IN  IF FirstMatch(fw["filter"], seen, redirected \/ pkt.lo) = "drop"
               THEN "drop"
               ELSE IF redirected THEN port ELSE "out"

-----------------------------------------------------------------------------
(***************************************************************************)
(* What the design notes promise (setup_iptables.py 9-17)                  *)
(***************************************************************************)
Documented(pkt) ==
  CASE pkt.v6                                                -> "drop"
    [] ~pkt.v6 /\ pkt.root                                   -> "out"
    [] ~pkt.v6 /\ ~pkt.root /\ pkt.kind \in {"http", "https"} -> "proxyPort"
    [] ~pkt.v6 /\ ~pkt.root /\ pkt.kind = "dns"              -> "dnsPort"
    [] ~pkt.v6 /\ ~pkt.root /\ pkt.kind \notin {"http", "https", "dns"} -> "drop"

\* The packets that the rules let out against the notes: IPv6 of root, which note 17
\* blocks ("All IPv6 is blocked"), and loopback traffic of everybody else that no
\* rule redirects, which notes 15-17 drop (the rules of lines 84-85 and 100-101).
Excepted(pkt) ==
  \/ pkt.v6 /\ pkt.root
  \/ ~pkt.root /\ pkt.lo /\ (pkt.v6 \/ pkt.kind \notin {"http", "https", "dns"})

\* the rules of a namespace do to every packet what the notes promise, and let out
\* exactly the excepted ones beyond that
MeansPolicy(fw) ==
  \A pkt \in Packets :
    Verdict(fw, pkt) = IF Excepted(pkt) THEN "out" ELSE Documented(pkt)

\* no packet of the workload leaves the namespace past the proxy
NoEscape(fw) == \A pkt \in Packets : ~pkt.root /\ ~pkt.lo => Verdict(fw, pkt) # "out"
=============================================================================
