--------------------------- MODULE MCProxyDaemon ---------------------------
(* Small instances of ProxyDaemon: profiles a client may write, events allowed. *)
EXTENDS DaemonInvariant, TLC

AutoKill == [enabled |-> TRUE, auto |-> TRUE,  kill |-> TRUE]
Auto     == [enabled |-> TRUE, auto |-> TRUE,  kill |-> FALSE]
Kill     == [enabled |-> TRUE, auto |-> FALSE, kill |-> TRUE]

OnlyAutoKill  == {AutoKill}
KillProfiles  == {AutoKill, Auto, Kill}

\* Passing runs.
LifecycleEvents == {"roam", "edit", "start", "stop", "shutdown", "crash",
                    "engineDies", "resolve", "nftLoad", "nftDelete"}
LivenessEvents  == {"roam", "edit", "start", "stop", "shutdown", "engineDies", "engineStart"}

\* Runs that find a disagreement.
RetryEvents  == {"engineDies", "engineStart"}
SignalEvents == {"start", "shutdown"}

Symmetry == Permutations(Conns) \cup Permutations(Clients)
=============================================================================
