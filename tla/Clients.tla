------------------------------ MODULE Clients ------------------------------
(***************************************************************************)
(* The credentials of profiles: the daemon's secrets file (secrets.rs),    *)
(* the D-Bus methods that change secrets and profiles (dbus_server.rs),    *)
(* and the clients that fetch the whole set of profiles, edit their copy   *)
(* and push it back: one command of the CLI or one save of the GUI at a    *)
(* time.  Every call may fail, the client may die between two calls, and   *)
(* the daemon or the machine at any time.                                  *)
(*                                                                         *)
(* A profile is reduced to the id of its credentials: a connection without *)
(* a profile looks like one whose profile has none.  Both files are in one *)
(* directory, whose changes reach the disk in order (see ProfileStore);    *)
(* saving the secrets does not sync it, saving the profiles does.          *)
(***************************************************************************)
EXTENDS Integers

CONSTANTS
    Conns,
    Ids,                \* ids of credentials
    NoCred,             \* no profile, or one without credentials
    MaxFaults           \* bound on failures in a behaviour

ASSUME IdsAssumption == NoCred \notin Ids /\ MaxFaults \in Nat

VARIABLES
    up,         \* the daemon runs
    profiles,   \* its profile store, in memory
    secrets,    \* FileSecrets.entries
    disk,       \* both files: [profiles, secrets]
    durable,    \* what a power cut may leave of them
    client,     \* the command in progress, or the last one
    faults,     \* how many commands or calls failed, and how often somebody died
    guiDropped  \* a save of the GUI has deleted credentials at some time

vars == <<up, profiles, secrets, disk, durable, client, faults, guiDropped>>
daemon == <<up, profiles, secrets, disk, durable>>

Sets == [Conns -> Ids \cup {NoCred}]
Disks == [profiles : Sets, secrets : SUBSET Ids]

\* `add' and the GUI's save store credentials; `clear' is a removal or an `add' without
\* any; `edit' is a save of the GUI that leaves them alone.
Kinds == {"add", "clear", "assign", "save", "edit"}
Credentialed == {"add", "save"}
Gui == {"save", "edit"}

Refs(set) == {set[c] : c \in Conns} \cap Ids

Commands == [step : {"idle", "store", "dropPrev", "push", "drop"}, kind : Kinds \cup {"none"},
             conn : Conns, copy : Sets, before : SUBSET Ids, cred : Ids \cup {NoCred},
             todo : SUBSET Ids]

TypeOK ==
    /\ up \in BOOLEAN /\ faults \in 0..MaxFaults /\ guiDropped \in BOOLEAN
    /\ profiles \in Sets
    /\ secrets \subseteq Ids
    /\ disk \in Disks
    /\ disk \in durable /\ durable \subseteq Disks
    /\ client \in Commands /\ client.todo \subseteq client.before

NoSet == [c \in Conns |-> NoCred]

\* No command in progress; `cred' is what the last one has stored for `conn'.
Idle(c, cred) == [step |-> "idle", kind |-> "none", conn |-> c, copy |-> NoSet,
                  before |-> {}, cred |-> cred, todo |-> {}]

Fault == faults < MaxFaults /\ faults' = faults + 1

Failed == IF client.step = "idle" THEN client ELSE Idle(client.conn, NoCred)

Init ==
    /\ up = TRUE /\ faults = 0 /\ guiDropped = FALSE
    /\ profiles = NoSet
    /\ secrets = {}
    /\ disk = [profiles |-> NoSet, secrets |-> {}]
    /\ durable = {disk}
    /\ \E c \in Conns : client = Idle(c, NoCred)

-----------------------------------------------------------------------------
(* The daemon's side: both files are replaced by a rename. *)

SaveSecrets ==
    /\ disk' = [disk EXCEPT !.secrets = secrets']
    /\ durable' = durable \cup {disk'}

\* Mutant: the rename of the profiles is not synced.
MutSaveProfiles ==
    /\ disk' = [disk EXCEPT !.profiles = profiles']
    /\ durable' = durable \cup {disk'}

SaveProfiles ==
    /\ disk' = [disk EXCEPT !.profiles = profiles']
    /\ durable' = {disk'}

\* delete_secret: unknown ids are not an error.
DeleteSecret(id) ==
    /\ secrets' = secrets \ {id}
    /\ IF id \in secrets THEN SaveSecrets ELSE UNCHANGED <<disk, durable>>
    /\ UNCHANGED <<up, profiles>>

\* The call fails: nobody answers, or the entry is gone and the file was not written.
DeleteFails(id) ==
    /\ secrets' \in {secrets} \cup (IF up THEN {secrets \ {id}} ELSE {})
    /\ UNCHANGED <<up, profiles, disk, durable>>

-----------------------------------------------------------------------------
(* The client's side. *)

\* Mutant: `assign' shares ids, and the others' are not looked at.
MutUnused(before, copy) == before \ {copy[client.conn]}

\* Mutant: nothing is cleaned up.
MutUnusedNone(before, copy) == {}

\* What the CLI drops after the push: credentials no profile refers to any more.
Unused(before, copy) == before \ Refs(copy)

\* The credentials of the edited profile, as far as they are known at once.
Edited(kind, set, c, from) ==
    CASE kind = "clear"  -> NoCred
      [] kind = "assign" -> set[from]
      [] OTHER           -> set[c]

\* Ids are 128 random bits: never one that is in use anywhere.  (Bound: a command that needs
\* one starts only while one is left.)
Fresh == Ids \ (secrets \cup Refs(profiles) \cup client.before
                \cup UNION {d.secrets \cup Refs(d.profiles) : d \in durable})

\* GetProxyProfiles, and the edit.
Fetch(kind, c, from) ==
    /\ up /\ client.step = "idle"
    /\ kind # "assign" => from = c
    /\ kind \in Credentialed => Fresh # {}
    /\ client' = [step   |-> IF kind \in Credentialed THEN "store" ELSE "push",
                  kind   |-> kind, conn |-> c,
                  copy   |-> [profiles EXCEPT ![c] = Edited(kind, profiles, c, from)],
                  before |-> Refs(profiles), cred |-> NoCred, todo |-> {}]
    /\ UNCHANGED <<daemon, faults, guiDropped>>

\* store_secret; the GUI then drops what the profile had before.
StoreSecret ==
    /\ up /\ client.step = "store"
    /\ \E id \in Fresh :
          /\ secrets' = secrets \cup {id}
          /\ client' = [client EXCEPT
                !.step = IF client.kind \in Gui /\ client.copy[client.conn] \in Ids
                         THEN "dropPrev" ELSE "push",
                !.cred = id]
    /\ SaveSecrets
    /\ UNCHANGED <<up, profiles, faults, guiDropped>>

DropPrev ==
    /\ client.step = "dropPrev"
    /\ client' = [client EXCEPT !.step = "push"]
    /\ guiDropped' = TRUE
    /\ \/ up /\ DeleteSecret(client.copy[client.conn]) /\ UNCHANGED faults
       \/ DeleteFails(client.copy[client.conn]) /\ Fault

Pushed ==
    IF client.kind \in Credentialed THEN [client.copy EXCEPT ![client.conn] = client.cred]
    ELSE client.copy

\* SetProxyProfiles.  The GUI is done; the CLI drops what is no longer used.
Push ==
    /\ up /\ client.step = "push"
    /\ profiles' = Pushed
    /\ client' = IF client.kind \in Gui THEN Idle(client.conn, client.cred)
                 ELSE [client EXCEPT !.step = "drop", !.copy = Pushed,
                                     !.todo = Unused(client.before, Pushed)]
    /\ SaveProfiles
    /\ UNCHANGED <<up, secrets, faults, guiDropped>>

\* The save failed before the rename or after it; memory was replaced before.
PushFails ==
    /\ up /\ client.step = "push"
    /\ profiles' = Pushed
    /\ disk' \in {disk, [disk EXCEPT !.profiles = Pushed]}
    /\ durable' = durable \cup {disk'}
    /\ client' = Failed
    /\ Fault
    /\ UNCHANGED <<up, secrets, guiDropped>>

\* One call for each; errors are ignored.
Drop(id) ==
    /\ client.step = "drop" /\ id \in client.todo
    /\ client' = [client EXCEPT !.todo = @ \ {id}]
    /\ \/ up /\ DeleteSecret(id) /\ UNCHANGED faults
       \/ DeleteFails(id) /\ Fault
    /\ UNCHANGED guiDropped

Done ==
    /\ client.step = "drop" /\ client.todo = {}
    /\ client' = Idle(client.conn, client.cred)
    /\ UNCHANGED <<daemon, faults, guiDropped>>

\* A call failed or its answer is lost, the client was killed, or `add' does not like
\* its other arguments, which it looks at when the credentials are already stored.
GiveUp ==
    /\ client.step # "idle"
    /\ client' = Failed
    /\ Fault
    /\ UNCHANGED <<daemon, guiDropped>>

-----------------------------------------------------------------------------
(* The daemon's life. *)

Crash ==
    /\ up /\ up' = FALSE
    /\ Fault
    /\ UNCHANGED <<profiles, secrets, disk, durable, client, guiDropped>>

\* The client does not survive it either.
PowerCut ==
    /\ up' = FALSE
    /\ disk' \in durable
    /\ durable' = {disk'}
    /\ client' = Failed
    /\ Fault
    /\ UNCHANGED <<profiles, secrets, guiDropped>>

\* Both files are read at start-up.
Restart ==
    /\ ~up /\ up' = TRUE
    /\ profiles' = disk.profiles
    /\ secrets' = disk.secrets
    /\ UNCHANGED <<disk, durable, client, faults, guiDropped>>

-----------------------------------------------------------------------------

Command ==
    \/ \E kind \in Kinds, c, from \in Conns : Fetch(kind, c, from)
    \/ StoreSecret \/ DropPrev \/ Push \/ PushFails
    \/ \E id \in Ids : Drop(id)
    \/ Done \/ GiveUp

Next == Command \/ Crash \/ PowerCut \/ Restart

Spec == Init /\ [][Next]_vars

-----------------------------------------------------------------------------
(* Properties. *)

\* No command of the CLI leaves a profile whose credentials are gone, wherever it
\* or the daemon stops, and whatever a power cut leaves of the two files (cli main.rs
\* 492-508).  Only the GUI, which deletes first and does not ask who else refers to
\* the id, can.
CliKeepsReferences ==
    ~guiDropped =>
        /\ up => Refs(profiles) \subseteq secrets
        /\ \A d \in durable : Refs(d.profiles) \subseteq d.secrets

\* Credentials whose save was reported as done survive a power cut together with the
\* profile that names them, although the secrets file itself is never synced into its
\* directory (secrets.rs:134-143).
SavedIsUsable ==
    client.step = "idle" /\ client.cred # NoCred =>
        \A d \in durable :
            d.profiles[client.conn] = client.cred /\ client.cred \in d.secrets

\* As long as no command ended in an error and nobody died, no password is kept that no profile
\* uses, whichever client replaced or removed it (cli main.rs:501-508, gui main.rs:152-157).
NoOrphans ==
    faults = 0 /\ client.step = "idle" => secrets \subseteq Refs(profiles)
=============================================================================
