--------------------------- MODULE RulesetProofs ----------------------------
(***************************************************************************)
(* What becomes of a packet, for any settings: FilterDecides replaces the  *)
(* first match in the list of rules by a decision, PacketInv says what the *)
(* chains before the filter have made of the packet, and the properties of *)
(* Ruleset follow from the two.                                            *)
(***************************************************************************)
EXTENDS Ruleset, WellFoundedInduction, SequenceTheorems, TLAPS

RuleLists == Seq([match : BOOLEAN, verdict : Verdicts])

\* Some rule of the list decides.
Hit(rules) == \E i \in DOMAIN rules : rules[i].match

-----------------------------------------------------------------------------
(* The first match in a list. *)

Less == {ss \in Nat \X Nat : ss[1] < ss[2]}

LEMMA SmallestIsFirst ==
    ASSUME NEW S \in SUBSET Nat, S # {}
    PROVE  Min(S) \in S /\ \A n \in S : Min(S) <= n
<1>1. OpToRel(<, Nat) = Less
  BY DEF OpToRel, Less
<1>2. IsWellFoundedOn(Less, Nat)
  BY <1>1, NatLessThanWellFounded
<1>3. PICK n \in S : \A o \in S : ~(<<o, n>> \in Less)
  BY <1>2, WFMin
<1>4. \A x, y \in Nat : x < y => <<x, y>> \in Less
  BY DEF Less
<1>5. \A o \in S : o \in Nat /\ n \in Nat /\ ~(o < n)
  BY <1>3, <1>4
<1>6. \A o \in S : n <= o
  BY <1>5
<1> QED BY <1>6 DEF Min

LEMMA FirstOne ==
    ASSUME NEW s \in RuleLists
    PROVE  /\ ~Hit(s) => FirstMatch(s) = "accept"
           /\ Hit(s) => \E n \in DOMAIN s :
                 /\ s[n].match /\ FirstMatch(s) = s[n].verdict
                 /\ \A m \in DOMAIN s : s[m].match => n <= m
<1> DEFINE hits == {i \in DOMAIN s : s[i].match}
<1>1. hits \in SUBSET Nat /\ (Hit(s) <=> hits # {})
  BY DEF Hit, RuleLists
<1>2. FirstMatch(s) = IF hits = {} THEN "accept" ELSE s[Min(hits)].verdict
  BY DEF FirstMatch
<1>3. hits # {} => Min(hits) \in hits /\ \A n \in hits : Min(hits) <= n
  BY <1>1, SmallestIsFirst
<1> QED BY <1>1, <1>2, <1>3

\* The first match is determined by where it is.
LEMMA TheFirst ==
    ASSUME NEW s \in RuleLists, NEW n \in DOMAIN s, s[n].match,
           \A m \in DOMAIN s : s[m].match => n <= m
    PROVE  Hit(s) /\ FirstMatch(s) = s[n].verdict
<1>1. Hit(s)
  BY DEF Hit
<1>2. PICK k \in DOMAIN s : /\ s[k].match /\ FirstMatch(s) = s[k].verdict
                            /\ \A m \in DOMAIN s : s[m].match => k <= m
  BY <1>1, FirstOne
<1>3. n <= k /\ k <= n /\ n \in Nat /\ k \in Nat
  BY <1>2 DEF RuleLists
<1>4. n = k
  BY <1>3
<1> QED BY <1>1, <1>2, <1>4

-----------------------------------------------------------------------------
(* Rule, If and concatenation. *)

LEMMA OneRule ==
    ASSUME NEW m \in BOOLEAN, NEW v \in Verdicts
    PROVE  /\ Rule(m, v) \in RuleLists
           /\ Hit(Rule(m, v)) <=> m
           /\ m => FirstMatch(Rule(m, v)) = v
<1> DEFINE r == [match |-> m, verdict |-> v]
           s == <<r>>
<1>1. Rule(m, v) = s
  BY DEF Rule
<1>2. s \in RuleLists /\ DOMAIN s = {1} /\ s[1] = r
  BY DEF RuleLists
<1>3. r.match = m /\ r.verdict = v
  OBVIOUS
<1>4. Hit(s) <=> m
  BY <1>2, <1>3 DEF Hit
<1>5. m => FirstMatch(s) = v
  BY <1>2, <1>3, TheFirst
<1> QED BY <1>1, <1>2, <1>4, <1>5

LEMMA Conditional ==
    ASSUME NEW b \in BOOLEAN, NEW s \in RuleLists
    PROVE  /\ If(b, s) \in RuleLists
           /\ Hit(If(b, s)) <=> b /\ Hit(s)
           /\ b => FirstMatch(If(b, s)) = FirstMatch(s)
<1>1. <<>> \in RuleLists /\ ~Hit(<<>>)
  BY DEF RuleLists, Hit
<1> QED BY <1>1 DEF If

LEMMA OneAfterTheOther ==
    ASSUME NEW s \in RuleLists, NEW t \in RuleLists
    PROVE  /\ s \o t \in RuleLists
           /\ Hit(s \o t) <=> Hit(s) \/ Hit(t)
           /\ FirstMatch(s \o t) = IF Hit(s) THEN FirstMatch(s) ELSE FirstMatch(t)
<1>1. /\ s \o t \in RuleLists /\ Len(s) \in Nat /\ Len(t) \in Nat
      /\ DOMAIN s = 1 .. Len(s) /\ DOMAIN t = 1 .. Len(t)
      /\ DOMAIN (s \o t) = 1 .. Len(s) + Len(t)
      /\ \A i \in DOMAIN s : i \in DOMAIN (s \o t) /\ (s \o t)[i] = s[i]
      /\ \A i \in DOMAIN t : Len(s) + i \in DOMAIN (s \o t) /\ (s \o t)[Len(s) + i] = t[i]
      /\ \A i \in DOMAIN (s \o t) : i \in DOMAIN s \/ i - Len(s) \in DOMAIN t
  BY DEF RuleLists
<1>2. Hit(s \o t) <=> Hit(s) \/ Hit(t)
  <2>1. Hit(s) \/ Hit(t) => Hit(s \o t)
    BY <1>1 DEF Hit
  <2>2. ASSUME NEW i \in DOMAIN (s \o t), (s \o t)[i].match PROVE Hit(s) \/ Hit(t)
    <3>1. CASE i \in DOMAIN s
      BY <1>1, <2>2, <3>1 DEF Hit
    <3>2. CASE i - Len(s) \in DOMAIN t
      <4>1. i = Len(s) + (i - Len(s))
        BY <1>1
      <4> QED BY <1>1, <2>2, <3>2, <4>1 DEF Hit
    <3> QED BY <1>1, <3>1, <3>2
  <2> QED BY <2>1, <2>2 DEF Hit
<1>3. CASE Hit(s)
  <2>1. PICK n \in DOMAIN s : /\ s[n].match /\ FirstMatch(s) = s[n].verdict
                              /\ \A m \in DOMAIN s : s[m].match => n <= m
    BY <1>3, FirstOne
  <2>2. ASSUME NEW m \in DOMAIN (s \o t), (s \o t)[m].match PROVE n <= m
    BY <1>1, <2>1, <2>2
  <2>3. FirstMatch(s \o t) = (s \o t)[n].verdict
    BY <1>1, <2>1, <2>2, TheFirst
  <2> QED BY <1>1, <1>2, <1>3, <2>1, <2>3
<1>4. CASE ~Hit(s) /\ Hit(t)
  <2>1. PICK n \in DOMAIN t : /\ t[n].match /\ FirstMatch(t) = t[n].verdict
                              /\ \A m \in DOMAIN t : t[m].match => n <= m
    BY <1>4, FirstOne
  <2>2. ASSUME NEW m \in DOMAIN (s \o t), (s \o t)[m].match PROVE Len(s) + n <= m
    <3>1. m \notin DOMAIN s
      BY <1>1, <1>4, <2>2 DEF Hit
    <3>2. m - Len(s) \in DOMAIN t /\ m = Len(s) + (m - Len(s))
      BY <1>1, <3>1
    <3>3. t[m - Len(s)].match
      BY <1>1, <2>2, <3>2
    <3> QED BY <1>1, <2>1, <3>2, <3>3
  <2>3. FirstMatch(s \o t) = (s \o t)[Len(s) + n].verdict
    BY <1>1, <2>1, <2>2, TheFirst
  <2> QED BY <1>1, <1>2, <1>4, <2>1, <2>3
<1>5. CASE ~Hit(s) /\ ~Hit(t)
  BY <1>1, <1>2, <1>5, FirstOne
<1> QED BY <1>3, <1>4, <1>5

-----------------------------------------------------------------------------
(* The chain output as a decision, block by block. *)

Blocks ==
    /\ p \in Params /\ pkt \in Packets /\ mark \in BOOLEAN
    /\ oif \in {"lo", "tun", "wifi"}

\* The guards of the rules, in the order of the code.
PlainQuery6 == p.dns_proxied /\ oif # "lo" /\ pkt.family = 6 /\ Udp("dns")
Renewal     == Wifi /\ Udp("dhcp")
Forwarded   == p.dns_proxied /\ pkt.family = 4 /\ pkt.to = "tun" /\ Udp("forwarder")
RefusedUdp  == pkt.proto = "udp" /\ (p.udp = "block" \/ (p.udp = "direct" /\ pkt.family = 6))
DirectUdp   == p.udp = "direct" /\ Wifi /\ pkt.proto = "udp" /\ mark
ProxyTraffic ==
    /\ Wifi /\ pkt.toProxy
    /\ \/ pkt.proto = "tcp" /\ pkt.dport = "proxy"
       \/ pkt.proto = "udp" /\ p.udp = "proxy"
LocalTraffic == Wifi /\ Local
Guarded6 == ~p.ipv6 /\ Wifi /\ pkt.family = 6 /\ pkt.to \notin {"subnet", "multicast"}

\* What becomes of the packet.
Decision ==
    IF PlainQuery6 THEN "drop"
    ELSE IF oif = "lo" \/ Renewal \/ Forwarded THEN "accept"
    ELSE IF RefusedUdp THEN "reject"
    ELSE IF DirectUdp \/ oif = "tun" \/ ProxyTraffic THEN "accept"
    ELSE IF LocalTraffic /\ p.local = "block" THEN "drop"
    ELSE IF LocalTraffic /\ p.local = "direct" THEN "accept"
    ELSE IF Guarded6 \/ (p.kill_switch /\ Wifi) THEN "drop"
    ELSE "accept"

\* The rules of s that match, if any, give the verdict v, and g says when one does.
Decides(s, g, v) == s \in RuleLists /\ (Hit(s) <=> g) /\ (g => FirstMatch(s) = v)

LEMMA RuleDecides ==
    ASSUME NEW m \in BOOLEAN, NEW v \in Verdicts
    PROVE  Decides(Rule(m, v), m, v)
BY OneRule DEF Decides

LEMMA IfDecides ==
    ASSUME NEW b \in BOOLEAN, NEW m \in BOOLEAN, NEW v \in Verdicts
    PROVE  Decides(If(b, Rule(m, v)), b /\ m, v)
<1>1. Decides(Rule(m, v), m, v)
  BY RuleDecides
<1> DEFINE s == Rule(m, v)
<1> HIDE DEF s
<1>2. s \in RuleLists /\ (Hit(s) <=> m) /\ (m => FirstMatch(s) = v)
  BY <1>1 DEF Decides, s
<1>3. /\ If(b, s) \in RuleLists /\ (Hit(If(b, s)) <=> b /\ Hit(s))
      /\ b => FirstMatch(If(b, s)) = FirstMatch(s)
  BY <1>2, Conditional
<1> QED BY <1>2, <1>3 DEF Decides, s

LEMMA DnsGuardDecides ==
    ASSUME Blocks
    PROVE  Decides(DnsGuard, PlainQuery6, "drop")
<1> DEFINE m == oif # "lo" /\ pkt.family = 6 /\ Udp("dns")
<1>1. m \in BOOLEAN /\ p.dns_proxied \in BOOLEAN /\ "drop" \in Verdicts
  BY DEF Blocks, Params, Verdicts
<1>2. Decides(If(p.dns_proxied, Rule(m, "drop")), p.dns_proxied /\ m, "drop")
  <2> HIDE DEF m
  <2> QED BY <1>1, IfDecides
<1> QED BY <1>2 DEF DnsGuard, PlainQuery6, Decides

LEMMA PrologueDecides ==
    ASSUME Blocks
    PROVE  Decides(Prologue, oif = "lo" \/ Renewal \/ Forwarded, "accept")
<1> DEFINE a == oif = "lo"
           b == Wifi /\ Udp("dhcp")
           c == pkt.family = 4 /\ pkt.to = "tun" /\ Udp("forwarder")
           A == Rule(a, "accept")
           B == Rule(b, "accept")
           C == If(p.dns_proxied, Rule(c, "accept"))
<1>1. /\ a \in BOOLEAN /\ b \in BOOLEAN /\ c \in BOOLEAN /\ p.dns_proxied \in BOOLEAN
      /\ "accept" \in Verdicts
  BY DEF Blocks, Params, Verdicts
<1>2. Prologue = (A \o B) \o C
  BY DEF Prologue
<1>3. /\ Decides(A, a, "accept") /\ Decides(B, b, "accept")
      /\ Decides(C, p.dns_proxied /\ c, "accept")
  <2> HIDE DEF a, b, c
  <2> QED BY <1>1, RuleDecides, IfDecides
<1> HIDE DEF A, B, C
<1>4. Decides(A \o B, a \/ b, "accept")
  BY <1>3, OneAfterTheOther DEF Decides
<1>5. Decides((A \o B) \o C, a \/ b \/ (p.dns_proxied /\ c), "accept")
  BY <1>3, <1>4, OneAfterTheOther DEF Decides
<1> QED BY <1>2, <1>5 DEF Renewal, Forwarded, Decides

\* First what is refused, then what goes around the tunnel.
LEMMA UdpRulesDecide ==
    ASSUME Blocks
    PROVE  /\ UdpRules \in RuleLists /\ (Hit(UdpRules) <=> RefusedUdp \/ DirectUdp)
           /\ RefusedUdp => FirstMatch(UdpRules) = "reject"
           /\ ~RefusedUdp /\ DirectUdp => FirstMatch(UdpRules) = "accept"
<1> DEFINE a == pkt.proto = "udp"
           b == pkt.family = 6 /\ pkt.proto = "udp"
           c == Wifi /\ pkt.proto = "udp" /\ mark
           A == If(p.udp = "block", Rule(a, "reject"))
           B == Rule(b, "reject")
           C == Rule(c, "accept")
           D == If(p.udp = "direct", B \o C)
<1>1. /\ a \in BOOLEAN /\ b \in BOOLEAN /\ c \in BOOLEAN
      /\ (p.udp = "block") \in BOOLEAN /\ (p.udp = "direct") \in BOOLEAN
      /\ "accept" \in Verdicts /\ "reject" \in Verdicts
  BY DEF Blocks, Verdicts
<1>2. UdpRules = A \o D
  BY DEF UdpRules
<1>3. /\ Decides(A, p.udp = "block" /\ a, "reject")
      /\ Decides(B, b, "reject") /\ Decides(C, c, "accept")
  <2> HIDE DEF a, b, c
  <2> QED BY <1>1, RuleDecides, IfDecides
<1> HIDE DEF A, B, C
<1>4. /\ B \o C \in RuleLists /\ (Hit(B \o C) <=> b \/ c)
      /\ FirstMatch(B \o C) = IF b THEN "reject" ELSE FirstMatch(C)
  BY <1>3, OneAfterTheOther DEF Decides
<1>5. /\ D \in RuleLists /\ (Hit(D) <=> p.udp = "direct" /\ (b \/ c))
      /\ p.udp = "direct" => FirstMatch(D) = FirstMatch(B \o C)
  BY <1>4, Conditional
<1> HIDE DEF D
<1>6. /\ A \o D \in RuleLists /\ (Hit(A \o D) <=> Hit(A) \/ Hit(D))
      /\ FirstMatch(A \o D) = IF Hit(A) THEN FirstMatch(A) ELSE FirstMatch(D)
  BY <1>3, <1>5, OneAfterTheOther DEF Decides
<1> QED BY <1>2, <1>3, <1>4, <1>5, <1>6 DEF Decides, RefusedUdp, DirectUdp

LEMMA ProxyRulesDecide ==
    ASSUME Blocks
    PROVE  Decides(ProxyRules, oif = "tun" \/ ProxyTraffic, "accept")
<1> DEFINE a == oif = "tun"
           b == Wifi /\ pkt.toProxy /\ pkt.proto = "tcp" /\ pkt.dport = "proxy"
           c == Wifi /\ pkt.toProxy /\ pkt.proto = "udp"
           A == Rule(a, "accept")
           B == Rule(b, "accept")
           C == If(p.udp = "proxy", Rule(c, "accept"))
<1>1. /\ a \in BOOLEAN /\ b \in BOOLEAN /\ c \in BOOLEAN /\ (p.udp = "proxy") \in BOOLEAN
      /\ "accept" \in Verdicts
  BY DEF Blocks, Verdicts
<1>2. ProxyRules = (A \o B) \o C
  BY DEF ProxyRules
<1>3. /\ Decides(A, a, "accept") /\ Decides(B, b, "accept")
      /\ Decides(C, p.udp = "proxy" /\ c, "accept")
  <2> HIDE DEF a, b, c
  <2> QED BY <1>1, RuleDecides, IfDecides
<1> HIDE DEF A, B, C
<1>4. Decides(A \o B, a \/ b, "accept")
  BY <1>3, OneAfterTheOther DEF Decides
<1>5. Decides((A \o B) \o C, a \/ b \/ (p.udp = "proxy" /\ c), "accept")
  BY <1>3, <1>4, OneAfterTheOther DEF Decides
<1> QED BY <1>2, <1>5 DEF ProxyTraffic, Decides

LEMMA LocalRulesDecide ==
    ASSUME Blocks
    PROVE  /\ LocalRules \in RuleLists
           /\ Hit(LocalRules) <=> LocalTraffic /\ p.local \in {"block", "direct"}
           /\ LocalTraffic /\ p.local = "block" => FirstMatch(LocalRules) = "drop"
           /\ LocalTraffic /\ p.local = "direct" => FirstMatch(LocalRules) = "accept"
<1> DEFINE m == Wifi /\ Local
           A == If(p.local = "block", Rule(m, "drop"))
           B == If(p.local = "direct", Rule(m, "accept"))
<1>1. /\ m \in BOOLEAN /\ (p.local = "block") \in BOOLEAN /\ (p.local = "direct") \in BOOLEAN
      /\ "accept" \in Verdicts /\ "drop" \in Verdicts
  BY DEF Blocks, Verdicts
<1>2. LocalRules = A \o B
  BY DEF LocalRules
<1>3. Decides(A, p.local = "block" /\ m, "drop") /\ Decides(B, p.local = "direct" /\ m, "accept")
  <2> HIDE DEF m
  <2> QED BY <1>1, IfDecides
<1> HIDE DEF A, B
<1>4. /\ A \o B \in RuleLists /\ (Hit(A \o B) <=> Hit(A) \/ Hit(B))
      /\ FirstMatch(A \o B) = IF Hit(A) THEN FirstMatch(A) ELSE FirstMatch(B)
  BY <1>3, OneAfterTheOther DEF Decides
<1> QED BY <1>2, <1>3, <1>4 DEF Decides, LocalTraffic

LEMMA LastRulesDecide ==
    ASSUME Blocks
    PROVE  /\ Decides(Ipv6Guard, Guarded6, "drop")
           /\ Decides(KillSwitch, p.kill_switch /\ Wifi, "drop")
<1> DEFINE m == Wifi /\ pkt.family = 6 /\ pkt.to \notin {"subnet", "multicast"}
           k == Wifi
<1>1. /\ m \in BOOLEAN /\ k \in BOOLEAN /\ (~p.ipv6) \in BOOLEAN /\ p.kill_switch \in BOOLEAN
      /\ "drop" \in Verdicts
  BY DEF Blocks, Params, Verdicts, Wifi
<1>2. /\ Decides(If(~p.ipv6, Rule(m, "drop")), ~p.ipv6 /\ m, "drop")
      /\ Decides(If(p.kill_switch, Rule(k, "drop")), p.kill_switch /\ k, "drop")
  <2> HIDE DEF m, k
  <2> QED BY <1>1, IfDecides
<1> QED BY <1>2 DEF Ipv6Guard, KillSwitch, Guarded6, Decides

\* The list of rules comes to the decision, for every packet and under all settings.
LEMMA FilterDecides ==
    ASSUME Blocks
    PROVE  FirstMatch(Rules) = Decision
<1> DEFINE R2 == DnsGuard \o Prologue
           R3 == R2 \o UdpRules
           R4 == R3 \o ProxyRules
           R5 == R4 \o LocalRules
           R6 == R5 \o Ipv6Guard
<1>1. Rules = R6 \o KillSwitch
  BY DEF Rules
<1>2. /\ Decides(DnsGuard, PlainQuery6, "drop")
      /\ Decides(Prologue, oif = "lo" \/ Renewal \/ Forwarded, "accept")
      /\ Decides(ProxyRules, oif = "tun" \/ ProxyTraffic, "accept")
      /\ Decides(Ipv6Guard, Guarded6, "drop") /\ Decides(KillSwitch, p.kill_switch /\ Wifi, "drop")
  BY DnsGuardDecides, PrologueDecides, ProxyRulesDecide, LastRulesDecide
<1>3. /\ R2 \in RuleLists /\ (Hit(R2) <=> Hit(DnsGuard) \/ Hit(Prologue))
      /\ FirstMatch(R2) = IF Hit(DnsGuard) THEN FirstMatch(DnsGuard) ELSE FirstMatch(Prologue)
  BY <1>2, OneAfterTheOther DEF Decides
<1> HIDE DEF R2
<1>4. /\ R3 \in RuleLists /\ (Hit(R3) <=> Hit(R2) \/ Hit(UdpRules))
      /\ FirstMatch(R3) = IF Hit(R2) THEN FirstMatch(R2) ELSE FirstMatch(UdpRules)
  BY <1>3, UdpRulesDecide, OneAfterTheOther
<1> HIDE DEF R3
<1>5. /\ R4 \in RuleLists /\ (Hit(R4) <=> Hit(R3) \/ Hit(ProxyRules))
      /\ FirstMatch(R4) = IF Hit(R3) THEN FirstMatch(R3) ELSE FirstMatch(ProxyRules)
  BY <1>2, <1>4, OneAfterTheOther DEF Decides
<1> HIDE DEF R4
<1>6. /\ R5 \in RuleLists /\ (Hit(R5) <=> Hit(R4) \/ Hit(LocalRules))
      /\ FirstMatch(R5) = IF Hit(R4) THEN FirstMatch(R4) ELSE FirstMatch(LocalRules)
  BY <1>5, LocalRulesDecide, OneAfterTheOther
<1> HIDE DEF R5
<1>7. /\ R6 \in RuleLists /\ (Hit(R6) <=> Hit(R5) \/ Hit(Ipv6Guard))
      /\ FirstMatch(R6) = IF Hit(R5) THEN FirstMatch(R5) ELSE FirstMatch(Ipv6Guard)
  BY <1>2, <1>6, OneAfterTheOther DEF Decides
<1> HIDE DEF R6
<1>8. /\ R6 \o KillSwitch \in RuleLists /\ (Hit(R6 \o KillSwitch) <=> Hit(R6) \/ Hit(KillSwitch))
      /\ FirstMatch(R6 \o KillSwitch) = IF Hit(R6) THEN FirstMatch(R6) ELSE FirstMatch(KillSwitch)
  BY <1>2, <1>7, OneAfterTheOther DEF Decides
<1>9. ~Hit(R6 \o KillSwitch) => FirstMatch(R6 \o KillSwitch) = "accept"
  BY <1>8, FirstOne
<1> QED
  BY <1>1, <1>2, <1>3, <1>4, <1>5, <1>6, <1>7, <1>8, <1>9, UdpRulesDecide, LocalRulesDecide
     DEF Decides, Decision

-----------------------------------------------------------------------------
(* What the chains before the filter have made of the packet. *)

\* Marked by udp_direct.
Direct(q) ==
    /\ p.udp = "direct"
    /\ q.family = 4 /\ q.proto = "udp" /\ q.to \notin {"subnet", "lan"}
    /\ p.dns_proxied => q.dport # "dns"

\* Redirected by dns; what leaves the machine, as routed by the mark it carries.
Taken(q) ==
    /\ p.dns_proxied /\ RouteOf(q, mark) # "lo"
    /\ q.family = 4 /\ q.proto = "udp" /\ q.dport = "dns"

AsSent == pkt = sent

PacketInv ==
    /\ TypeOK
    /\ Sensible(sent)
    /\ oif = RouteOf(pkt, mark)
    /\ stage = "mark" => AsSent /\ ~mark
    /\ stage # "mark" => (mark <=> Direct(sent))
    /\ stage = "redirect" => AsSent
    /\ stage \in {"filter"} \cup Verdicts =>
          IF Taken(sent)
          THEN pkt = [sent EXCEPT !.to = "tun", !.toProxy = FALSE, !.dport = "forwarder"]
          ELSE AsSent
    /\ stage \in Verdicts => stage = Decision

\* Every packet has a route.
LEMMA RouteType == ASSUME NEW q, NEW m PROVE RouteOf(q, m) \in {"lo", "tun", "wifi"}
BY DEF RouteOf

LEMMA InBlocks == TypeOK => Blocks
BY ParamsAssumption DEF TypeOK, Blocks

LEMMA InitHolds == Init => PacketInv
<1>1. SUFFICES ASSUME Init PROVE PacketInv
  OBVIOUS
<1>2. sent \in Packets /\ Sensible(sent) /\ pkt = sent /\ mark = FALSE /\ stage = "mark"
      /\ oif = RouteOf(sent, FALSE) /\ p \in ParamChoices /\ up \in BOOLEAN
  BY <1>1 DEF Init
<1>3. pkt.to = "tun" => pkt.family = 4
  BY <1>2 DEF Sensible
<1>4. TypeOK
  BY <1>2, <1>3, RouteType DEF TypeOK
<1> QED BY <1>2, <1>4 DEF PacketInv, AsSent, Verdicts

LEMMA MarkKeeps ==
    ASSUME PacketInv, Mark
    PROVE  PacketInv'
<1>1. /\ stage = "mark" /\ stage' = "redirect" /\ UNCHANGED <<p, up, sent, pkt>>
      /\ AsSent /\ Sensible(sent) /\ TypeOK
      /\ oif' = RouteOf(pkt, mark')
  BY DEF Mark, PacketInv
<1>2. mark' \in BOOLEAN /\ (mark' <=> Direct(sent))
  BY <1>1 DEF Mark, Local, Direct, AsSent
<1>3. Direct(sent)' <=> Direct(sent)
  BY <1>1 DEF Direct
<1>4. oif' = RouteOf(pkt, mark)'
  BY <1>1 DEF RouteOf
<1>5. TypeOK'
  BY <1>1, <1>2, RouteType DEF TypeOK
<1>6. Sensible(sent)' /\ AsSent'
  BY <1>1 DEF Sensible, AsSent
<1> QED BY <1>1, <1>2, <1>3, <1>4, <1>5, <1>6 DEF PacketInv, Verdicts

LEMMA RedirectKeeps ==
    ASSUME PacketInv, Redirect
    PROVE  PacketInv'
<1>1. /\ stage = "redirect" /\ stage' = "filter" /\ UNCHANGED <<p, up, sent, mark>>
      /\ pkt = sent /\ Sensible(sent) /\ TypeOK /\ (mark <=> Direct(sent))
      /\ oif = RouteOf(sent, mark) /\ oif' = RouteOf(pkt', mark)
  BY DEF Redirect, PacketInv, AsSent
<1>2. Redirected <=> Taken(sent)
  BY <1>1 DEF Redirected, Taken, Udp
<1>3. Direct(sent)' <=> Direct(sent)
  BY <1>1 DEF Direct
<1>4. Taken(sent)' <=> Taken(sent)
  BY <1>1 DEF Taken, RouteOf
<1>5. IF Taken(sent)
      THEN pkt' = [sent EXCEPT !.to = "tun", !.toProxy = FALSE, !.dport = "forwarder"]
      ELSE pkt' = sent
  BY <1>1, <1>2 DEF Redirect
<1>6. pkt' \in Packets /\ (pkt'.to = "tun" => pkt'.family = 4)
  BY <1>1, <1>5 DEF TypeOK, Packets, Regions, Taken
<1>7. oif' = RouteOf(pkt, mark)'
  BY <1>1 DEF RouteOf
<1>8. TypeOK'
  BY <1>1, <1>6, RouteType DEF TypeOK
<1>9. Sensible(sent)'
  BY <1>1 DEF Sensible
<1> QED BY <1>1, <1>3, <1>4, <1>5, <1>7, <1>8, <1>9 DEF PacketInv, AsSent, Verdicts

LEMMA FilterKeeps ==
    ASSUME PacketInv, Filter
    PROVE  PacketInv'
<1>1. stage = "filter" /\ UNCHANGED <<p, up, sent, pkt, mark, oif>>
  BY DEF Filter
<1>2. TypeOK
  BY DEF PacketInv
<1>3. stage' = Decision
  BY <1>2, InBlocks, FilterDecides DEF Filter
<1>4. Decision \in Verdicts
  BY DEF Decision, Verdicts
<1>5. Decision' = Decision
  BY <1>1 DEF Decision, PlainQuery6, Renewal, Forwarded, RefusedUdp, DirectUdp, ProxyTraffic,
     LocalTraffic, Guarded6, Wifi, Udp, Local
<1>6. TypeOK'
  BY <1>1, <1>2, <1>3, <1>4 DEF TypeOK
<1>7. /\ Sensible(sent)' /\ oif' = RouteOf(pkt, mark)' /\ (mark' <=> Direct(sent)')
      /\ IF Taken(sent)'
         THEN pkt' = [sent' EXCEPT !.to = "tun", !.toProxy = FALSE, !.dport = "forwarder"]
         ELSE AsSent'
  BY <1>1 DEF PacketInv, Sensible, RouteOf, Direct, Taken, AsSent
<1> QED BY <1>3, <1>4, <1>5, <1>6, <1>7 DEF PacketInv, Verdicts

\* What a verdict rests on, for any packet and any settings.
THEOREM PacketInvariance == Spec => []PacketInv
<1>1. PacketInv /\ [Next]_vars => PacketInv'
  <2>1. ASSUME PacketInv, UNCHANGED vars PROVE PacketInv'
    BY <2>1 DEF vars, PacketInv, TypeOK, Sensible, RouteOf, Direct, Taken, AsSent, Decision,
       PlainQuery6, Renewal, Forwarded, RefusedUdp, DirectUdp, ProxyTraffic, LocalTraffic,
       Guarded6, Wifi, Udp, Local
  <2> QED BY <2>1, MarkKeeps, RedirectKeeps, FilterKeeps DEF Next
<1> QED BY <1>1, InitHolds, PTL DEF Spec

-----------------------------------------------------------------------------
(* Theorems. *)

\* A redirected query, and any other packet, at its verdict.
LEMMA AtVerdict ==
    ASSUME PacketInv, stage \in Verdicts
    PROVE  /\ Blocks /\ sent \in Packets /\ Sensible(sent)
           /\ stage = Decision /\ oif = RouteOf(pkt, mark) /\ (mark <=> Direct(sent))
           /\ Taken(sent) => /\ pkt.to = "tun" /\ pkt.dport = "forwarder" /\ ~pkt.toProxy
                             /\ pkt.family = 4 /\ pkt.proto = "udp" /\ pkt.from = sent.from
           /\ ~Taken(sent) => pkt = sent
<1>1. TypeOK
  BY DEF PacketInv
<1>2. Blocks /\ sent \in Packets
  BY <1>1, InBlocks DEF TypeOK
<1>3. /\ Taken(sent) =>
           pkt = [sent EXCEPT !.to = "tun", !.toProxy = FALSE, !.dport = "forwarder"]
      /\ ~Taken(sent) => pkt = sent
  BY DEF PacketInv, AsSent
<1>4. Taken(sent) =>
        /\ pkt.to = "tun" /\ pkt.dport = "forwarder" /\ ~pkt.toProxy
        /\ pkt.family = 4 /\ pkt.proto = "udp" /\ pkt.from = sent.from
  BY <1>2, <1>3 DEF Packets, Taken
<1>5. /\ Sensible(sent) /\ stage = Decision /\ oif = RouteOf(pkt, mark)
      /\ mark <=> Direct(sent)
  BY DEF PacketInv, Verdicts
<1> QED BY <1>2, <1>3, <1>4, <1>5

LEMMA Closed == PacketInv => KillSwitchCloses
<1>1. SUFFICES ASSUME PacketInv, p.kill_switch, sent.from = "app", Leaves("wifi"),
                      ~(p.dns_proxied /\ ToForwarder)
               PROVE  \/ Lease \/ ToProxy \/ ToLocal
                      \/ /\ p.udp = "direct" /\ sent.proto = "udp" /\ sent.family = 4
                         /\ sent.to \notin {"subnet", "lan"} /\ ~(Query /\ p.dns_proxied)
  BY DEF KillSwitchCloses
<1>2. Wifi /\ Decision = "accept" /\ (mark <=> Direct(sent))
  BY <1>1, AtVerdict DEF Leaves, Verdicts, Wifi
<1>3. pkt = sent
  <2>1. Taken(sent) => p.dns_proxied /\ ToForwarder
    BY <1>1, AtVerdict DEF Leaves, Verdicts, Taken, ToForwarder
  <2> QED BY <1>1, <2>1, AtVerdict DEF Leaves, Verdicts
<1>4. ~Forwarded
  BY <1>1 DEF Forwarded, ToForwarder, Udp
<1>5. Renewal \/ DirectUdp \/ ProxyTraffic \/ (LocalTraffic /\ p.local = "direct")
  BY <1>1, <1>2, <1>4 DEF Decision, Wifi
<1> QED BY <1>2, <1>3, <1>5 DEF Renewal, Udp, Lease, DirectUdp, Direct, Query, ProxyTraffic,
        ToProxy, LocalTraffic, Local, ToLocal

LEMMA Forwards ==
    ASSUME PacketInv, p.dns_proxied, up, Query, sent.from = "app", stage \in Verdicts
    PROVE  IF sent.family = 4 THEN Leaves("lo") /\ ToForwarder ELSE stage # "accept"
<1>1. RouteOf(sent, mark) # "lo"
  BY DEF Query, RouteOf
<1>2. CASE sent.family = 4
  <2>1. Taken(sent)
    BY <1>1, <1>2 DEF Taken, Query
  <2>2. ToForwarder /\ pkt.family = 4 /\ oif = "lo"
    BY <2>1, AtVerdict DEF RouteOf, ToForwarder
  <2>3. stage = "accept"
    BY <2>2, AtVerdict DEF Decision, PlainQuery6
  <2> QED BY <1>2, <2>2, <2>3 DEF Leaves
<1>3. CASE sent.family # 4
  <2>1. pkt = sent /\ sent.family = 6 /\ oif # "lo"
    BY <1>1, <1>3, AtVerdict DEF Taken, Packets
  <2>2. PlainQuery6
    BY <2>1 DEF PlainQuery6, Query, Udp
  <2>3. stage = "drop"
    BY <2>2, AtVerdict DEF Decision
  <2> QED BY <1>3, <2>3
<1> QED BY <1>2, <1>3

LEMMA Guarded == PacketInv => Ipv6DoesNotLeak
<1>1. SUFFICES ASSUME PacketInv, ~p.ipv6, sent.family = 6,
                      sent.to \notin {"lo", "subnet", "multicast"}
               PROVE  ~Leaves("tun") /\ (Leaves("wifi") => Lease \/ ToProxy \/ ToLocal)
  BY DEF Ipv6DoesNotLeak
<1>2. SUFFICES ASSUME stage = "accept", oif \in {"tun", "wifi"}
               PROVE  oif = "wifi" /\ (Lease \/ ToProxy \/ ToLocal)
  BY DEF Leaves
<1>3. pkt = sent /\ Decision = "accept" /\ oif = RouteOf(pkt, mark) /\ Sensible(sent)
  BY <1>1, <1>2, AtVerdict DEF Taken, Verdicts
<1>4. oif = "wifi"
  BY <1>1, <1>2, <1>3 DEF RouteOf, Sensible
<1>5. Guarded6
  BY <1>1, <1>3, <1>4 DEF Guarded6, Wifi
<1>6. (~DirectUdp /\ ~Forwarded) \/ RefusedUdp
  BY <1>1, <1>3 DEF DirectUdp, RefusedUdp, Forwarded
<1>7. Renewal \/ ProxyTraffic \/ (LocalTraffic /\ p.local = "direct")
  BY <1>1, <1>3, <1>4, <1>5, <1>6 DEF Decision, Forwarded, Renewal
<1> QED BY <1>3, <1>4, <1>7 DEF Renewal, Udp, Lease, ProxyTraffic, ToProxy, LocalTraffic, Local,
        ToLocal

LEMMA EngineLeaves == PacketInv => EngineReachesProxy
<1>1. SUFFICES ASSUME PacketInv, sent.from = "engine", stage \in Verdicts PROVE Leaves("wifi")
  BY DEF EngineReachesProxy
<1>2. /\ Sensible(sent) /\ Blocks /\ stage = Decision /\ oif = RouteOf(pkt, mark)
      /\ sent \in Packets
  BY <1>1, AtVerdict
<1>3. /\ sent.toProxy /\ sent.family = p.family /\ sent.to \in {"subnet", "lan", "public"}
      /\ \/ sent.proto = "tcp" /\ sent.dport = "proxy"
         \/ sent.proto = "udp" /\ sent.dport = "other" /\ p.udp = "proxy"
  BY <1>1, <1>2 DEF Sensible, Blocks, Params
<1>4. ~Taken(sent) /\ pkt = sent
  BY <1>1, <1>3, AtVerdict DEF Taken
<1>5. oif = "wifi"
  BY <1>1, <1>2, <1>3, <1>4 DEF RouteOf
<1>6. ProxyTraffic /\ ~PlainQuery6 /\ ~RefusedUdp
  BY <1>3, <1>4, <1>5 DEF ProxyTraffic, PlainQuery6, RefusedUdp, Udp, Wifi
<1> QED BY <1>2, <1>5, <1>6 DEF Decision, Leaves

LEMMA Refused == PacketInv => BlockedUdpIsRejected
<1>1. SUFFICES ASSUME PacketInv, p.udp = "block" \/ (p.udp = "direct" /\ sent.family = 6),
                      sent.proto = "udp", stage \in Verdicts, oif # "lo",
                      ~(Lease /\ oif = "wifi"),
                      ~(p.dns_proxied /\ (ToForwarder \/ (Query /\ sent.family = 6)))
               PROVE  stage = "reject"
  BY DEF BlockedUdpIsRejected
<1>2. /\ stage = Decision /\ oif = RouteOf(pkt, mark) /\ Sensible(sent) /\ sent \in Packets
      /\ Taken(sent) => p.dns_proxied /\ ToForwarder
      /\ ~Taken(sent) => pkt = sent
  BY <1>1, AtVerdict DEF Taken, ToForwarder
<1>3. pkt = sent
  BY <1>1, <1>2
<1>4. RefusedUdp /\ ~Renewal /\ ~Forwarded
  BY <1>1, <1>3 DEF RefusedUdp, Renewal, Forwarded, ToForwarder, Udp, Lease, Wifi
<1>5. ~PlainQuery6
  <2>1. sent.family = 6 => sent.to \notin {"lo", "tun"}
    BY <1>1, <1>2, <1>3 DEF RouteOf, Sensible
  <2> QED BY <1>1, <1>3, <2>1 DEF PlainQuery6, Query, Udp
<1> QED BY <1>1, <1>2, <1>4, <1>5 DEF Decision

\* The variables keep their types; a redirected packet is still one.
THEOREM TypeCorrect == Spec => []TypeOK
<1>1. PacketInv => TypeOK
  BY DEF PacketInv
<1> QED BY <1>1, PacketInvariance, PTL

\* Nothing but what the settings exempt leaves by the Wi-Fi.
THEOREM KillSwitchCorrect == Spec => []KillSwitchCloses
BY Closed, PacketInvariance, PTL

\* With the tunnel up a proxied query ends at the forwarder or nowhere.
THEOREM QueriesCorrect == Spec => []QueriesGoToForwarder
<1>1. PacketInv => QueriesGoToForwarder
  BY Forwards DEF QueriesGoToForwarder
<1> QED BY <1>1, PacketInvariance, PTL

\* What dns.rs:5-7 says holds as long as the tunnel is up, kill switch or not.
THEOREM QueriesStayWithTheTunnel == Spec => [](up /\ p.dns_proxied /\ Query => ~Leaves("wifi"))
<1>1. ASSUME PacketInv, up, p.dns_proxied, Query, Leaves("wifi") PROVE FALSE
  <2>1. stage \in Verdicts /\ stage = "accept" /\ oif = "wifi"
    BY <1>1 DEF Leaves, Verdicts
  <2>2. sent.from = "app"
    BY <1>1, <2>1, AtVerdict DEF Sensible, Query, Packets
  <2> QED BY <1>1, <2>1, <2>2, Forwards DEF Leaves
<1>2. PacketInv => (up /\ p.dns_proxied /\ Query => ~Leaves("wifi"))
  BY <1>1
<1> QED BY <1>2, PacketInvariance, PTL

\* Guarded IPv6 goes nowhere but where it is allowed.
THEOREM Ipv6Correct == Spec => []Ipv6DoesNotLeak
BY Guarded, PacketInvariance, PTL

\* No setting cuts the engine off its proxy.
THEOREM EngineCorrect == Spec => []EngineReachesProxy
BY EngineLeaves, PacketInvariance, PTL

\* Blocked UDP, and IPv6 UDP where only IPv4 UDP is direct, gets its answer, whichever
\* rules come before.
THEOREM BlockedUdpCorrect == Spec => []BlockedUdpIsRejected
BY Refused, PacketInvariance, PTL
=============================================================================
