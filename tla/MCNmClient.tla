----------------------------- MODULE MCNmClient -----------------------------
(* NmClient over interchangeable objects. *)
EXTENDS NmClient, TLC

Symmetry == Permutations(Conns) \cup Permutations(Ssids) \cup Permutations(Paths)
=============================================================================
