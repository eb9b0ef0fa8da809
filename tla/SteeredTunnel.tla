--------------------------- MODULE SteeredTunnel ---------------------------
(***************************************************************************)
(* What the data plane promises, whatever the state machine above it does: *)
(* a tunnel is launched only for the network the loaded rules steer, and   *)
(* the rules go away only when no tunnel is left (service.rs, start_proxy  *)
(* "firewall first", stop_proxy, and main's clean-up at start).            *)
(***************************************************************************)
CONSTANTS Conns, NoConn

VARIABLES
    rules,  \* the network the loaded table is for, or NoConn
    tunnel  \* the network a live tunnel is for, or NoConn

vars == <<rules, tunnel>>

TypeOK == rules \in Conns \cup {NoConn} /\ tunnel \in Conns \cup {NoConn}

Init == rules = NoConn /\ tunnel = NoConn

\* Rules may be replaced under a tunnel that is about to be replaced too.
Steer(u) == rules' = u /\ UNCHANGED tunnel

Launch(u) == rules = u /\ tunnel' = u /\ UNCHANGED rules

\* Stopped, or died.
Halt == tunnel' = NoConn /\ UNCHANGED rules

Open == tunnel = NoConn /\ rules' = NoConn /\ UNCHANGED tunnel

Next == (\E u \in Conns : Steer(u) \/ Launch(u)) \/ Halt \/ Open

Spec == Init /\ [][Next]_vars

\* No tunnel carries traffic that no rule steers.
NeverUnsteered == tunnel # NoConn => rules # NoConn
=============================================================================
