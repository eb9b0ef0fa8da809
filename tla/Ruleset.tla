------------------------------ MODULE Ruleset ------------------------------
(***************************************************************************)
(* What the kernel does with one outgoing packet under the rules that      *)
(* render_ruleset writes (proxywifi-daemon/src/dataplane.rs) and the       *)
(* routes that TunEngine::bring_up adds, with the tunnel up or gone.       *)
(*                                                                         *)
(* A packet is routed, may be marked by the chain udp_direct, may be       *)
(* redirected by the chain dns (after either it is routed again), and      *)
(* then meets the filter chain, whose first matching rule decides.         *)
(* Addresses are reduced to the classes the rules and the routes tell      *)
(* apart.  The machine has one uplink, the Wi-Fi interface.                *)
(***************************************************************************)
EXTENDS Integers, Sequences, FiniteSetsExt

CONSTANT ParamChoices  \* the settings a profile may have (records of Params)

\* "subnet" is on link (fe80::/10 for IPv6), "lan" the rest of LOCAL_V4 and LOCAL_V6,
\* "tun" the forwarder's address on the tunnel.
Regions == {"lo", "tun", "subnet", "lan", "multicast", "public"}

\* RulesetParams; `at` and `family` say where the proxy is.
Params == [at : {"subnet", "lan", "public"}, family : {4, 6},
           local : {"proxy", "direct", "block"}, udp : {"proxy", "block", "direct"},
           ipv6 : BOOLEAN, kill_switch : BOOLEAN, dns_proxied : BOOLEAN]

ASSUME ParamsAssumption == ParamChoices \subseteq Params

\* `toProxy` holds of the proxy's own address; ports are named for what they serve.
Packets == [family : {4, 6}, proto : {"tcp", "udp", "icmp"}, to : Regions,
            toProxy : BOOLEAN, dport : {"dhcp", "dns", "proxy", "forwarder", "other"},
            from : {"app", "engine"}]

VARIABLES
    p,      \* the parameters of the loaded table
    up,     \* the tunnel device and its routes exist
    sent,   \* the packet as it was sent
    pkt,    \* the packet now
    mark,   \* DIRECT_MARK is set on it
    oif,    \* the interface it is routed to: lo, tun, wifi
    stage   \* the next chain, or the verdict

vars == <<p, up, sent, pkt, mark, oif, stage>>

Verdicts == {"accept", "drop", "reject"}

TypeOK ==
    /\ p \in ParamChoices /\ up \in BOOLEAN
    /\ sent \in Packets /\ pkt \in Packets
    /\ pkt.to = "tun" => pkt.family = 4
    /\ mark \in BOOLEAN
    /\ oif \in {"lo", "tun", "wifi"}
    /\ stage \in {"mark", "redirect", "filter"} \cup Verdicts

\* Own addresses come first, then the rule for marked packets, then the routes: on
\* link, multicast, the two halves of the address space through the tunnel, and the
\* default route by the Wi-Fi.  The engine's sockets are bound to the Wi-Fi.
RouteOf(q, m) ==
    IF q.to = "lo" \/ (q.to = "tun" /\ up) THEN "lo"
    ELSE IF \/ q.from = "engine" \/ m
            \/ q.to = "subnet"
            \/ q.family = 6 /\ (q.to = "multicast" \/ ~p.ipv6)
            \/ ~up
         THEN "wifi"
    ELSE "tun"

\* The engine talks to the proxy only: TCP, and UDP to the relay in udp = proxy mode.
Sensible(q) ==
    /\ q.to = "tun" => q.family = 4
    /\ q.toProxy => q.family = p.family /\ q.to = p.at
    /\ q.from = "engine" =>
           /\ up /\ q.toProxy
           /\ \/ q.proto = "tcp" /\ q.dport = "proxy"
              \/ q.proto = "udp" /\ q.dport = "other" /\ p.udp = "proxy"
    /\ q.proto = "icmp" => q.dport = "other"

Init ==
    /\ p \in ParamChoices
    /\ up \in BOOLEAN
    /\ sent \in {q \in Packets : Sensible(q)}
    /\ pkt = sent
    /\ mark = FALSE
    /\ oif = RouteOf(sent, FALSE)
    /\ stage = "mark"

-----------------------------------------------------------------------------
(* The chains udp_direct and dns. *)

Udp(port) == pkt.proto = "udp" /\ pkt.dport = port

Local == pkt.to \in {"subnet", "lan"}  \* LOCAL_V4, LOCAL_V6

Mark ==
    /\ stage = "mark"
    /\ mark' = /\ p.udp = "direct"
               /\ pkt.family = 4 /\ pkt.proto = "udp" /\ ~Local
               /\ p.dns_proxied => pkt.dport # "dns"
    /\ oif' = RouteOf(pkt, mark')
    /\ stage' = "redirect"
    /\ UNCHANGED <<p, up, sent, pkt>>

\* Mutant: IPv6 queries are redirected to the IPv4 address, too.
MutRedirected == p.dns_proxied /\ oif # "lo" /\ Udp("dns")

Redirected == p.dns_proxied /\ oif # "lo" /\ pkt.family = 4 /\ Udp("dns")

Redirect ==
    /\ stage = "redirect"
    /\ pkt' = IF Redirected THEN [pkt EXCEPT !.to = "tun", !.toProxy = FALSE, !.dport = "forwarder"]
              ELSE pkt
    /\ oif' = RouteOf(pkt', mark)
    /\ stage' = "filter"
    /\ UNCHANGED <<p, up, sent, mark>>

-----------------------------------------------------------------------------
(* The chain output, rule by rule. *)

Rule(match, verdict) == <<[match |-> match, verdict |-> verdict]>>

If(setting, rules) == IF setting THEN rules ELSE <<>>

Wifi == oif = "wifi"

\* Plain IPv6 DNS cannot be redirected; inserted at the front.
DnsGuard == If(p.dns_proxied, Rule(oif # "lo" /\ pkt.family = 6 /\ Udp("dns"), "drop"))

\* Mutant: the rule for the redirected query leaves its destination open.
MutPrologue ==
    Rule(oif = "lo", "accept")
    \o Rule(Wifi /\ Udp("dhcp"), "accept")
    \o If(p.dns_proxied, Rule(Udp("forwarder"), "accept"))

\* Loopback, lease renewal, the redirected query.
Prologue ==
    Rule(oif = "lo", "accept")
    \o Rule(Wifi /\ Udp("dhcp"), "accept")
    \o If(p.dns_proxied, Rule(pkt.family = 4 /\ pkt.to = "tun" /\ Udp("forwarder"), "accept"))

\* Mutant: blocked UDP is dropped in silence.
MutUdpRules ==
    If(p.udp = "block", Rule(pkt.proto = "udp", "drop"))
    \o If(p.udp = "direct",
          Rule(pkt.family = 6 /\ pkt.proto = "udp", "reject")
          \o Rule(Wifi /\ pkt.proto = "udp" /\ mark, "accept"))

UdpRules ==
    If(p.udp = "block", Rule(pkt.proto = "udp", "reject"))
    \o If(p.udp = "direct",
          Rule(pkt.family = 6 /\ pkt.proto = "udp", "reject")
          \o Rule(Wifi /\ pkt.proto = "udp" /\ mark, "accept"))

ProxyRules ==
    Rule(oif = "tun", "accept")
    \o Rule(Wifi /\ pkt.toProxy /\ pkt.proto = "tcp" /\ pkt.dport = "proxy", "accept")
    \o If(p.udp = "proxy", Rule(Wifi /\ pkt.toProxy /\ pkt.proto = "udp", "accept"))

LocalRules ==
    If(p.local = "block", Rule(Wifi /\ Local, "drop"))
    \o If(p.local = "direct", Rule(Wifi /\ Local, "accept"))

\* Mutant: the guard comes with the kill switch.
MutIpv6Guard ==
    If(~p.ipv6 /\ p.kill_switch,
       Rule(Wifi /\ pkt.family = 6 /\ pkt.to \notin {"subnet", "multicast"}, "drop"))

Ipv6Guard ==
    If(~p.ipv6, Rule(Wifi /\ pkt.family = 6 /\ pkt.to \notin {"subnet", "multicast"}, "drop"))

KillSwitch == If(p.kill_switch, Rule(Wifi, "drop"))

\* Mutant: the local networks come before the proxy.
MutRulesLocalFirst ==
    DnsGuard \o Prologue \o UdpRules \o LocalRules \o ProxyRules \o Ipv6Guard \o KillSwitch

\* Mutant: the IPv6 DNS rule is pushed like the others.
MutRulesGuardLast ==
    Prologue \o UdpRules \o ProxyRules \o LocalRules \o Ipv6Guard \o KillSwitch \o DnsGuard

Rules ==
    DnsGuard \o Prologue \o UdpRules \o ProxyRules \o LocalRules \o Ipv6Guard \o KillSwitch

\* policy accept.
FirstMatch(rules) ==
    LET hits == {i \in DOMAIN rules : rules[i].match}
    IN  IF hits = {} THEN "accept" ELSE rules[Min(hits)].verdict

Filter ==
    /\ stage = "filter"
    /\ stage' = FirstMatch(Rules)
    /\ UNCHANGED <<p, up, sent, pkt, mark, oif>>

Next == Mark \/ Redirect \/ Filter

Spec == Init /\ [][Next]_vars

-----------------------------------------------------------------------------
(* Properties. *)

Leaves(i) == stage = "accept" /\ oif = i

Lease == sent.proto = "udp" /\ sent.dport = "dhcp"
ToProxy == /\ sent.toProxy
           /\ \/ sent.proto = "tcp" /\ sent.dport = "proxy"
              \/ sent.proto = "udp" /\ p.udp = "proxy"
ToLocal == p.local = "direct" /\ sent.to \in {"subnet", "lan"}
Query == sent.proto = "udp" /\ sent.dport = "dns" /\ sent.to \notin {"lo", "tun"}

\* Addressed to the forwarder, redirected or from the start.
ToForwarder == pkt.family = 4 /\ pkt.proto = "udp" /\ pkt.to = "tun" /\ pkt.dport = "forwarder"

\* With the kill switch on nothing an application sends leaves by the Wi-Fi, with the
\* tunnel up or gone, but what the settings exempt: the lease, the proxy, the local
\* networks when they are direct, IPv4 UDP to any other when it is direct
\* (dataplane.rs:14-16), and, where there is a forwarder, what is addressed to it (see QueriesStayOffTheWifi).
KillSwitchCloses ==
    p.kill_switch /\ sent.from = "app" /\ Leaves("wifi") =>
        \/ Lease \/ ToProxy \/ ToLocal
        \/ p.dns_proxied /\ ToForwarder
        \/ /\ p.udp = "direct" /\ sent.proto = "udp" /\ sent.family = 4
           /\ sent.to \notin {"subnet", "lan"} /\ ~(Query /\ p.dns_proxied)

\* While the tunnel is up, a proxied query goes to the forwarder over IPv4 and
\* nowhere over IPv6, whatever the resolver it was meant for, the UDP mode and the
\* treatment of local networks (dns.rs:5-7, README.md "DNS").
QueriesGoToForwarder ==
    p.dns_proxied /\ up /\ Query /\ sent.from = "app" /\ stage \in Verdicts =>
        IF sent.family = 4 THEN Leaves("lo") /\ ToForwarder
        ELSE stage # "accept"

\* Without the ipv6 setting no IPv6 gets past the link, kill switch or not, but to the
\* proxy, to direct local networks and for the lease (README.md "--ipv6").
Ipv6DoesNotLeak ==
    ~p.ipv6 /\ sent.family = 6 /\ sent.to \notin {"lo", "subnet", "multicast"} =>
        ~Leaves("tun") /\ (Leaves("wifi") => Lease \/ ToProxy \/ ToLocal)

\* The engine reaches its proxy under every setting, also a proxy on a blocked local
\* network and one reached over guarded IPv6 (dataplane.rs:148).
EngineReachesProxy == sent.from = "engine" /\ stage \in Verdicts => Leaves("wifi")

\* UDP that is blocked, and IPv6 UDP where only IPv4 UDP is direct, is rejected and not
\* dropped in silence, in the tunnel too, so that QUIC falls back to TCP at once.  The
\* rest is what stays on the machine, the lease by the Wi-Fi, what is addressed to the
\* forwarder, and IPv6 queries, of which QueriesGoToForwarder speaks (dataplane.rs:134,
\* README.md "--udp block").
BlockedUdpIsRejected ==
    /\ p.udp = "block" \/ (p.udp = "direct" /\ sent.family = 6)
    /\ sent.proto = "udp" /\ stage \in Verdicts /\ oif # "lo"
    /\ ~(Lease /\ oif = "wifi")
    /\ ~(p.dns_proxied /\ (ToForwarder \/ (Query /\ sent.family = 6)))
    => stage = "reject"

-----------------------------------------------------------------------------
(* What the repository says and the code does not do. *)

\* dns.rs:5-7: "resolution never touches the local network".
QueriesStayOffTheWifi ==
    p.dns_proxied /\ p.kill_switch /\ Query => ~Leaves("wifi")
=============================================================================
