---------------------------- MODULE MCTunEngine -----------------------------
(* The engine with a forwarder for two queries at a time and a permit for one of them. *)
EXTENDS TunEngine
=============================================================================
