---------------------------- MODULE AtomicStore ----------------------------
(***************************************************************************)
(* What the profile store promises its callers, whatever happens to the    *)
(* process or the machine: a save that was reported as done is the only    *)
(* thing a restart can come back with, and one that was not has happened   *)
(* entirely or not at all (profiles.rs, save).                             *)
(***************************************************************************)
CONSTANTS Sets, Empty  \* the sets of profiles; the one without any

VARIABLES
    value,   \* the set the daemon works with and hands out
    stable,  \* the sets a restart may come back with
    reply    \* of the last save: none yet, done, or failed

vars == <<value, stable, reply>>

TypeOK ==
    /\ value \in Sets
    /\ stable \in (SUBSET Sets) \ {{}}
    /\ reply \in {"none", "ok", "error"}

Init == value = Empty /\ stable = {Empty} /\ reply = "none"

\* The set in memory is replaced at once, also when the save fails later.
Begin == value' \in Sets /\ reply' = "none" /\ UNCHANGED stable

Publish == stable' = stable \cup {value} /\ UNCHANGED <<value, reply>>

Succeed == stable' = {value} /\ reply' = "ok" /\ UNCHANGED value

Fail == reply' = "error" /\ UNCHANGED <<value, stable>>

\* A power cut decides between sets that were possible.
Lose ==
    /\ stable' \in (SUBSET stable) \ {{}}
    /\ reply' = "none"
    /\ UNCHANGED value

Restart == value' \in stable /\ reply' = "none" /\ UNCHANGED stable

\* The user writes the file while the daemon is down.
Edit ==
    /\ \E s \in Sets : stable' = stable \cup {s}
    /\ reply' = "none"
    /\ UNCHANGED value

Next == Begin \/ Publish \/ Succeed \/ Fail \/ Lose \/ Restart \/ Edit

Spec == Init /\ [][Next]_vars

\* A save that was reported as done cannot be lost.
DoneIsStable == reply = "ok" => stable = {value}
=============================================================================
