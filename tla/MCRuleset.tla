----------------------------- MODULE MCRuleset -----------------------------
(* Ruleset over the settings a profile may have. *)
EXTENDS Ruleset

AllParams == Params

\* The defaults of a new profile (models.rs) with the proxy on the Internet.
DefaultParams == {[at |-> "public", family |-> 4, local |-> "direct", udp |-> "proxy",
                   ipv6 |-> FALSE, kill_switch |-> TRUE, dns_proxied |-> TRUE]}
=============================================================================
