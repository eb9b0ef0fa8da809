---------------------------- MODULE ProfileStore ----------------------------
(***************************************************************************)
(* The profile store on disk (proxywifi-core/src/profiles.rs): the steps   *)
(* of a save, each of which may fail or be the last before a crash, the    *)
(* load at start-up, and the quarantine of a file that cannot be parsed.   *)
(*                                                                         *)
(* The disk is a journalling file system: a rename is atomic, changes of   *)
(* the directory reach the disk in order, and what a file holds is only    *)
(* certain to survive a power cut once it was synced.  `durable' has every *)
(* state of the directory a power cut may leave.                           *)
(***************************************************************************)
EXTENDS Integers, FiniteSets

CONSTANTS
    Sets, Empty,  \* the sets of profiles a client may write; the one without any
    Garbage,      \* texts of a hand-edited file that do not parse
    Binary,       \* those among them that are not UTF-8
    NoFile,
    MAX_BACKUP_ATTEMPTS,
    MaxUnsynced   \* bound: states of the directory that may be pending

Texts == Sets \cup Garbage \cup {"torn", "blank"}

\* 0400 and 0600 are the owner's; "wide" is anything more.
Modes == {"0400", "0600", "wide"}

Files == [text : Texts, mode : Modes, synced : BOOLEAN]

ASSUME SetsAssumption == Empty \in Sets
ASSUME TextsAssumption ==
    /\ Sets \cap Garbage = {} /\ Binary \subseteq Garbage
    /\ {"torn", "blank"} \cap (Sets \cup Garbage) = {}
    /\ NoFile \notin Texts \cup Files
ASSUME AttemptsAssumption == MAX_BACKUP_ATTEMPTS \in Nat

VARIABLES
    up,       \* the daemon has loaded the store
    profiles, \* the set in memory
    step,     \* the next step of the save in progress, or "idle"
    mode,     \* the permissions that save gives the file
    reply,    \* what the last save returned
    store,    \* the file profiles.json
    tmp,      \* the file profiles.json.tmp.<pid>
    backups,  \* what .corrupt (0) and .corrupt.<n> hold
    durable

vars == <<up, profiles, step, mode, reply, store, tmp, backups, durable>>
memory == <<up, profiles, step, mode, reply>>
disk == <<store, tmp, backups, durable>>

Names == 0 .. MAX_BACKUP_ATTEMPTS

Steps == {"idle", "open", "write", "sync", "rename", "syncDir"}

TypeOK ==
    /\ up \in BOOLEAN
    /\ profiles \in Sets
    /\ step \in Steps /\ (~up => step = "idle")
    /\ mode \in Modes \ {"wide"}
    /\ reply \in {"none", "ok", "error"}
    /\ store \in Files \cup {NoFile}
    /\ tmp \in Files \cup {NoFile}
    /\ backups \in [Names -> Texts \cup {NoFile}]
    /\ [store |-> store, backups |-> backups] \in durable

Here == [store |-> store, backups |-> backups]

Init ==
    /\ up = FALSE /\ profiles = Empty /\ step = "idle"
    /\ mode = "0600" /\ reply = "none"
    /\ store = NoFile /\ tmp = NoFile
    /\ backups = [n \in Names |-> NoFile]
    /\ durable = {Here}

-----------------------------------------------------------------------------
(* Saving.  set_profiles holds the lock of the store, so saves do not overlap. *)

\* A missing file is as good as a blank one.
Text(file) == IF file = NoFile THEN "blank" ELSE file.text

Parses(file) == Text(file) \in Sets \cup {"blank"}

\* What a load of a file that parses returns.
Parsed(file) == IF Text(file) \in Sets THEN Text(file) ELSE Empty

\* The user's mode is kept if it is the owner's alone.
StoreMode == IF store # NoFile /\ store.mode # "wide" THEN store.mode ELSE "0600"

ReplaceAll(new) ==
    /\ up /\ step = "idle"
    /\ profiles' = new
    /\ mode' = StoreMode
    /\ step' = "open"
    /\ reply' = "none"
    /\ UNCHANGED <<up, disk>>

SaveStep(from, to) == step = from /\ step' = to /\ UNCHANGED <<up, profiles, mode>>

\* Mutant: a stale file is truncated, not removed.
MutCreated ==
    [text |-> "blank", mode |-> IF tmp = NoFile THEN mode ELSE tmp.mode, synced |-> FALSE]

\* A file of an earlier run is removed first: the mode applies at creation only.
Created == [text |-> "blank", mode |-> mode, synced |-> FALSE]

Open ==
    /\ SaveStep("open", "write")
    /\ tmp' = Created
    /\ UNCHANGED <<reply, store, backups, durable>>

Write ==
    /\ SaveStep("write", "sync")
    /\ tmp' = [tmp EXCEPT !.text = profiles]
    /\ UNCHANGED <<reply, store, backups, durable>>

Sync ==
    /\ SaveStep("sync", "rename")
    /\ tmp' = [tmp EXCEPT !.synced = TRUE]
    /\ UNCHANGED <<reply, store, backups, durable>>

Rename ==
    /\ SaveStep("rename", "syncDir")
    /\ store' = tmp
    /\ tmp' = NoFile
    /\ UNCHANGED <<reply, backups>>
    /\ durable' = durable \cup {Here'}

\* Mutant: the rename itself is left to the kernel.
MutSyncDir ==
    /\ SaveStep("syncDir", "idle")
    /\ reply' = "ok"
    /\ UNCHANGED disk

SyncDir ==
    /\ SaveStep("syncDir", "idle")
    /\ durable' = {Here}
    /\ reply' = "ok"
    /\ UNCHANGED <<store, tmp, backups>>

\* Any step may fail, the write also half-way; what was done before stays.
SaveFails ==
    /\ step # "idle"
    /\ step' = "idle"
    /\ reply' = "error"
    /\ tmp' \in {tmp} \cup
          (CASE step = "open"  -> {NoFile}
             [] step = "write" -> {[tmp EXCEPT !.text = "torn"]}
             [] OTHER          -> {})
    /\ UNCHANGED <<up, profiles, mode, store, backups, durable>>

-----------------------------------------------------------------------------
(* Loading, once at start-up. *)

Free == {n \in Names : backups[n] = NoFile}

\* Mutant: the plain name is always used.
MutNextBackup == 0

\* The first free name; the plain one again when every name is taken.
NextBackup ==
    IF Free = {} THEN 0 ELSE CHOOSE n \in Free : \A o \in Free : n <= o

Load ==
    /\ ~up /\ Parses(store)
    /\ up' = TRUE
    /\ profiles' = Parsed(store)
    /\ reply' = "none"
    /\ UNCHANGED <<step, mode, disk>>

\* Mutant: a load fails and leaves the file where it is when every name is taken.
MutQuarantine ==
    /\ ~up /\ ~Parses(store) /\ Text(store) \notin Binary
    /\ Free # {}
    /\ backups' = [backups EXCEPT ![NextBackup] = store.text]
    /\ store' = NoFile
    /\ UNCHANGED <<memory, tmp>>
    /\ durable' = durable \cup {Here'}

\* The load fails and the process ends; systemd starts it again.  A file that cannot
\* even be read as text is left where it is.
Quarantine ==
    /\ ~up /\ ~Parses(store) /\ Text(store) \notin Binary
    /\ backups' = [backups EXCEPT ![NextBackup] = store.text]
    /\ store' = NoFile
    /\ UNCHANGED <<memory, tmp>>
    /\ durable' = durable \cup {Here'}

-----------------------------------------------------------------------------
(* The environment. *)

Down == up' = FALSE /\ step' = "idle" /\ reply' = "none" /\ UNCHANGED <<profiles, mode>>

\* The process ends: the page cache survives it.
Crash == up /\ Down /\ UNCHANGED disk

\* What is left of a file: all of it if it was synced, else anything.
Remains(file) ==
    IF file = NoFile THEN {NoFile}
    ELSE IF file.synced THEN {file}
    ELSE {[text |-> t, mode |-> file.mode, synced |-> TRUE] : t \in {file.text, "torn", "blank"}}

\* The directory is found as it was at some time since it was last certain.  The
\* temporary file may be there or not.
PowerCut ==
    /\ Down
    /\ \E d \in durable : store' \in Remains(d.store) /\ backups' = d.backups
    /\ tmp' \in Remains(tmp) \cup {NoFile}
    /\ durable' = {Here'}

\* The user edits the file while the daemon is down.
HandEdit ==
    /\ ~up /\ Cardinality(durable) < MaxUnsynced
    /\ \E t \in Sets \cup Garbage \cup {"blank"} :
          store' = [text |-> t, synced |-> TRUE,
                    mode |-> IF store = NoFile THEN "wide" ELSE store.mode]
    /\ reply' = "none"
    /\ UNCHANGED <<up, profiles, step, mode, tmp, backups>>
    /\ durable' = durable \cup {Here'}

\* The user changes the permissions, not in the middle of a save.
Chmod ==
    /\ store # NoFile /\ step = "idle" /\ Cardinality(durable) < MaxUnsynced
    /\ \E m \in Modes \ {store.mode} : store' = [store EXCEPT !.mode = m]
    /\ UNCHANGED <<memory, tmp, backups>>
    /\ durable' = durable \cup {Here'}

-----------------------------------------------------------------------------

Save ==
    \/ \E new \in Sets : ReplaceAll(new)
    \/ Open \/ Write \/ Sync \/ Rename \/ SyncDir \/ SaveFails

Start == Load \/ Quarantine

Next == Save \/ Start \/ Crash \/ PowerCut \/ HandEdit \/ Chmod

Spec == Init /\ [][Next]_vars

\* systemd starts the daemon again after a load that failed (Restart=on-failure).
FairSpec == Spec /\ WF_vars(Start)

-----------------------------------------------------------------------------
(* Properties. *)

\* A reported save is what every restart comes back with, and one that was not
\* reported has happened entirely or not at all, over failures of any step, crashes
\* and power cuts (profiles.rs:93-112).
Promised == INSTANCE AtomicStore WITH
    value <- profiles, stable <- {Parsed(d.store) : d \in durable}

ImplementsAtomicStore == Promised!Spec

\* Bytes the program cannot parse are never thrown away while there is a name left
\* for them, not by a load, a later quarantine or a later save (profiles.rs:175-238).
Kept(text) ==
    \/ Text(store) = text
    \/ \E n \in Names : backups[n] = text

QuarantineKeepsBytes ==
    [][\A t \in Garbage :
          Kept(t) /\ Free # {} /\ (Save \/ Start) => Kept(t)']_vars

\* A save never gives the file more permissions than the user left it
\* (profiles.rs:96-98), also when an earlier run left its temporary file behind.
SaveNeverWidens ==
    [][Rename => \/ store' = NoFile \/ store = NoFile
                 \/ store'.mode = store.mode \/ store.mode = "wide"]_vars

\* Once nobody edits the file and the power stays on, a daemon that is down comes up,
\* whatever text the file holds and however many names are taken (profiles.rs:235-237).
StoreLoads == <>[][~(HandEdit \/ PowerCut)]_vars =>
    (~up ~> up \/ Text(store) \in Binary)
=============================================================================
