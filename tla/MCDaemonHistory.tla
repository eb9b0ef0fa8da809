-------------------------- MODULE MCDaemonHistory --------------------------
(* Small instances of DaemonHistory. *)
EXTENDS DaemonHistory, TLC

AutoKill == [enabled |-> TRUE, auto |-> TRUE, kill |-> TRUE]

Auto     == [enabled |-> TRUE, auto |-> TRUE,  kill |-> FALSE]
Kill     == [enabled |-> TRUE, auto |-> FALSE, kill |-> TRUE]

OnlyAutoKill == {AutoKill}
KillProfiles == {AutoKill, Auto, Kill}

FaultEvents == {"start", "stop", "edit", "engineDies", "engineStart", "resolve",
                "nftLoad", "nftDelete"}
RoamEvents  == {"start", "stop", "roam"}

Symmetry == Permutations(Clients)
=============================================================================
