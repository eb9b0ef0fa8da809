----------------------------- MODULE MCClients -----------------------------
(* Two connections that may share credentials, and ids for all that is on disk. *)
EXTENDS Clients, TLC

Symmetry == Permutations(Conns) \cup Permutations(Ids)
=============================================================================
