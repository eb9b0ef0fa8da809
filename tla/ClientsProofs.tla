--------------------------- MODULE ClientsProofs ----------------------------
(***************************************************************************)
(* No command of the CLI breaks a reference, what was reported as stored   *)
(* survives, and nothing is left behind: for any number of connections and *)
(* ids and any number of failures.  CredentialsInv says what a command in  *)
(* progress may rely on; one lemma per call and per way to die keeps it.   *)
(***************************************************************************)
EXTENDS Clients, TLAPS

\* The locals of a command.  What it has stored is new; `add' and the GUI leave the others'.
LocalsInv ==
    /\ client.step = "store" => client.kind \in Credentialed /\ client.cred = NoCred
    /\ client.step = "dropPrev" => client.kind = "save" /\ client.copy[client.conn] \in Ids
    /\ client.step \in {"store", "dropPrev", "push"} =>
         /\ Refs(client.copy) \subseteq client.before
         /\ client.kind \in {"add", "save", "edit"} => client.before \subseteq Refs(client.copy)
    /\ client.step \in {"dropPrev", "push", "drop"} =>
         /\ client.kind \in Credentialed => client.cred \in Ids
         /\ client.kind \notin Credentialed => client.cred = NoCred
         /\ client.cred \notin client.before
    /\ client.step = "drop" => client.kind \notin Gui

\* What the file lacks the memory lacks.
FileInv == up => secrets \subseteq disk.secrets

\* Credentials the command has stored are there until its profile is.
StoredInv ==
    client.step \in {"dropPrev", "push", "drop"} /\ client.cred \in Ids =>
        /\ client.cred \in disk.secrets
        /\ up => client.cred \in secrets
        /\ client.step = "drop" =>
             \A d \in durable : d.profiles[client.conn] = client.cred /\ client.cred \in d.secrets

\* While the CLI drops, the daemon has the set that was pushed, on the disk too.
DropInv ==
    client.step = "drop" =>
        /\ disk.profiles = client.copy
        /\ up => profiles = client.copy
        /\ client.todo \cap Refs(client.copy) = {}

\* What a command read is still there when it pushes.
ReferencesInv ==
    ~guiDropped =>
        /\ up => Refs(disk.profiles) \subseteq secrets
        /\ client.step \in {"store", "dropPrev", "push"} =>
             /\ client.before \subseteq disk.secrets
             /\ up => client.before \subseteq secrets

\* What may become an orphan is what the command has yet to drop.
OrphansInv ==
    faults = 0 =>
        /\ up
        /\ client.step = "idle"     => secrets \subseteq Refs(profiles)
        /\ client.step = "store"    => secrets \subseteq client.before
        /\ client.step = "dropPrev" => secrets \subseteq client.before \cup {client.cred}
        /\ client.step = "push"     =>
             secrets \subseteq (IF client.kind \in Gui THEN Refs(Pushed)
                                ELSE client.before \cup {client.cred})
        /\ client.step = "drop"     => secrets \subseteq Refs(client.copy) \cup client.todo

CredentialsInv ==
    /\ TypeOK /\ LocalsInv
    /\ FileInv /\ StoredInv /\ DropInv /\ ReferencesInv /\ OrphansInv
    /\ CliKeepsReferences /\ SavedIsUsable /\ NoOrphans

-----------------------------------------------------------------------------
(* The ids a set of profiles refers to. *)

LEMMA RefsAreIds == \A set : Refs(set) \subseteq Ids
BY DEF Refs

LEMMA RefsOfEdit ==
    ASSUME NEW set \in Sets, NEW c \in Conns, NEW v \in Ids \cup {NoCred},
           NEW new, new = [set EXCEPT ![c] = v]
    PROVE  /\ new \in Sets /\ new[c] = v
           /\ Refs(new) \subseteq Refs(set) \cup {v}
           /\ Refs(set) \subseteq Refs(new) \cup {set[c]}
           /\ v \in Ids => v \in Refs(new)
           /\ v = NoCred => Refs(new) \subseteq Refs(set)
           /\ set[c] \notin Ids => Refs(set) \subseteq Refs(new)
           /\ v = set[c] => new = set
BY IdsAssumption DEF Sets, Refs

\* What the client pushes: its copy, with what it has stored if it has stored something.
LEMMA PushedSet ==
    ASSUME TypeOK, LocalsInv, client.step \in {"dropPrev", "push"}
    PROVE  /\ Pushed \in Sets
           /\ Refs(Pushed) \subseteq client.before \cup {client.cred}
           /\ client.kind \notin Credentialed => Pushed = client.copy
           /\ client.kind \in Credentialed =>
                /\ Pushed[client.conn] = client.cred
                /\ client.cred \in Ids /\ client.cred \in Refs(Pushed)
                /\ Refs(client.copy) \subseteq Refs(Pushed) \cup {client.copy[client.conn]}
<1>1. client \in Commands
  BY DEF TypeOK
<1>2. client.copy \in Sets /\ client.conn \in Conns /\ client.cred \in Ids \cup {NoCred}
  BY <1>1 DEF Commands
<1>3. /\ Refs(client.copy) \subseteq client.before
      /\ client.kind \in Credentialed => client.cred \in Ids
  BY DEF LocalsInv
<1>4. CASE client.kind \in Credentialed
  <2>1. Pushed = [client.copy EXCEPT ![client.conn] = client.cred]
    BY <1>4 DEF Pushed
  <2>2. /\ Pushed \in Sets /\ Pushed[client.conn] = client.cred
        /\ Refs(Pushed) \subseteq Refs(client.copy) \cup {client.cred}
        /\ Refs(client.copy) \subseteq Refs(Pushed) \cup {client.copy[client.conn]}
        /\ client.cred \in Ids => client.cred \in Refs(Pushed)
    BY <1>2, <2>1, IdsAssumption DEF Sets, Refs
  <2> QED BY <1>3, <1>4, <2>2
<1>5. CASE client.kind \notin Credentialed
  BY <1>2, <1>3, <1>5 DEF Pushed
<1> QED BY <1>4, <1>5

-----------------------------------------------------------------------------
(* The end of a command. *)

LEMMA IdleClient ==
    ASSUME NEW c \in Conns, NEW cred \in Ids \cup {NoCred}
    PROVE  /\ Idle(c, cred) \in Commands /\ Idle(c, cred).todo \subseteq Idle(c, cred).before
           /\ Idle(c, cred).step = "idle" /\ Idle(c, cred).conn = c /\ Idle(c, cred).cred = cred
BY DEF Idle, Commands, Sets, NoSet

LEMMA FailedClient ==
    ASSUME TypeOK
    PROVE  /\ Failed \in Commands /\ Failed.todo \subseteq Failed.before /\ Failed.step = "idle"
           /\ Failed = client \/ Failed.cred = NoCred
<1>1. CASE client.step = "idle"
  BY <1>1 DEF Failed, TypeOK
<1>2. CASE client.step # "idle"
  <2>1. Failed = Idle(client.conn, NoCred) /\ client.conn \in Conns
    BY <1>2 DEF Failed, TypeOK, Commands
  <2> QED BY <2>1, IdleClient
<1> QED BY <1>1, <1>2

LEMMA AFault ==
    ASSUME TypeOK, Fault
    PROVE  faults' \in 0..MaxFaults /\ faults' # 0
BY IdsAssumption DEF TypeOK, Fault

\* What CredentialsInv comes to when no command is in progress.
LEMMA WhenIdle ==
    ASSUME TypeOK', client'.step = "idle", FileInv', CliKeepsReferences', OrphansInv',
           SavedIsUsable',
           ~guiDropped' /\ up' => Refs(disk'.profiles) \subseteq secrets'
    PROVE  CredentialsInv'
BY DEF CredentialsInv, LocalsInv, StoredInv, DropInv, ReferencesInv, OrphansInv, NoOrphans

LEMMA GiveUpKeeps ==
    ASSUME CredentialsInv, GiveUp
    PROVE  CredentialsInv'
<1>1. /\ client' = Failed /\ client.step # "idle" /\ up' = up /\ profiles' = profiles
      /\ secrets' = secrets /\ disk' = disk /\ durable' = durable /\ guiDropped' = guiDropped
  BY DEF GiveUp, daemon
<1>2. faults' \in 0..MaxFaults /\ faults' # 0
  BY AFault DEF GiveUp, CredentialsInv
<1>3. client' \in Commands /\ client'.todo \subseteq client'.before /\ client'.step = "idle"
      /\ client'.cred = NoCred
  <2>1. client.conn \in Conns /\ client' = Idle(client.conn, NoCred)
    BY <1>1 DEF Failed, CredentialsInv, TypeOK, Commands
  <2> QED BY <2>1, IdleClient
<1>4. TypeOK'
  BY <1>1, <1>2, <1>3 DEF CredentialsInv, TypeOK
<1>5. FileInv' /\ CliKeepsReferences' /\ OrphansInv' /\ SavedIsUsable'
  BY <1>1, <1>2, <1>3 DEF CredentialsInv, FileInv, CliKeepsReferences, OrphansInv,
     SavedIsUsable, Refs
<1>6. ~guiDropped' /\ up' => Refs(disk'.profiles) \subseteq secrets'
  BY <1>1 DEF CredentialsInv, ReferencesInv
<1> QED BY <1>3, <1>4, <1>5, <1>6, WhenIdle

LEMMA DoneKeeps ==
    ASSUME CredentialsInv, Done
    PROVE  CredentialsInv'
<1>1. /\ client' = Idle(client.conn, client.cred) /\ client.step = "drop" /\ client.todo = {}
      /\ up' = up /\ profiles' = profiles /\ secrets' = secrets /\ disk' = disk
      /\ durable' = durable /\ guiDropped' = guiDropped /\ faults' = faults
  BY DEF Done, daemon
<1>2. client.conn \in Conns /\ client.cred \in Ids \cup {NoCred}
  BY DEF CredentialsInv, TypeOK, Commands
<1>3. client' \in Commands /\ client'.todo \subseteq client'.before /\ client'.step = "idle"
      /\ client'.conn = client.conn /\ client'.cred = client.cred
  BY <1>1, <1>2, IdleClient
<1>4. TypeOK'
  BY <1>1, <1>3 DEF CredentialsInv, TypeOK
<1>5. FileInv' /\ CliKeepsReferences'
  BY <1>1 DEF CredentialsInv, FileInv, CliKeepsReferences, Refs
<1>6. SavedIsUsable'
  BY <1>1, <1>2, <1>3 DEF CredentialsInv, StoredInv, SavedIsUsable
<1>7. OrphansInv'
  BY <1>1, <1>3 DEF CredentialsInv, DropInv, OrphansInv, Refs
<1>8. ~guiDropped' /\ up' => Refs(disk'.profiles) \subseteq secrets'
  BY <1>1 DEF CredentialsInv, ReferencesInv
<1> QED BY <1>3, <1>4, <1>5, <1>6, <1>7, <1>8, WhenIdle

-----------------------------------------------------------------------------
(* A command. *)

\* The copy refers to what the daemon's profiles refer to, and that is there.
LEMMA FetchKeeps ==
    ASSUME CredentialsInv, NEW kind \in Kinds, NEW c \in Conns, NEW from \in Conns,
           Fetch(kind, c, from)
    PROVE  CredentialsInv'
<1> DEFINE copy == [profiles EXCEPT ![c] = Edited(kind, profiles, c, from)]
           step == IF kind \in Credentialed THEN "store" ELSE "push"
<1>1. /\ up /\ client.step = "idle"
      /\ client' = [step |-> step, kind |-> kind, conn |-> c, copy |-> copy,
                    before |-> Refs(profiles), cred |-> NoCred, todo |-> {}]
      /\ up' = up /\ profiles' = profiles /\ secrets' = secrets /\ disk' = disk
      /\ durable' = durable /\ guiDropped' = guiDropped /\ faults' = faults
  BY DEF Fetch, daemon
<1>2. profiles \in Sets /\ profiles[c] \in Ids \cup {NoCred} /\ profiles[from] \in Ids \cup {NoCred}
  BY DEF CredentialsInv, TypeOK, Sets
<1>3. /\ copy \in Sets /\ Refs(copy) \subseteq Refs(profiles)
      /\ kind \in {"add", "save", "edit"} => copy = profiles
  <2>1. CASE kind = "clear"
    <3>1. Edited(kind, profiles, c, from) = NoCred
      BY <2>1 DEF Edited
    <3> QED BY <1>2, <2>1, <3>1, IdsAssumption DEF Sets, Refs
  <2>2. CASE kind = "assign"
    <3>1. Edited(kind, profiles, c, from) = profiles[from]
      BY <2>2 DEF Edited
    <3> QED BY <1>2, <2>2, <3>1 DEF Sets, Refs
  <2>3. CASE kind \notin {"clear", "assign"}
    <3>1. Edited(kind, profiles, c, from) = profiles[c]
      BY <2>3 DEF Edited
    <3> QED BY <1>2, <3>1 DEF Sets, Refs
  <2> QED BY <2>1, <2>2, <2>3
<1> HIDE DEF copy
<1>4. /\ client'.step = step /\ client'.kind = kind /\ client'.copy = copy /\ client'.cred = NoCred
      /\ client'.before = Refs(profiles)
  BY <1>1
<1>5. TypeOK'
  <2>1. client' \in Commands /\ client'.todo \subseteq client'.before
    BY <1>1, <1>3, RefsAreIds DEF Commands
  <2> QED BY <1>1, <2>1 DEF CredentialsInv, TypeOK
<1>6. LocalsInv'
  BY <1>3, <1>4, RefsAreIds, IdsAssumption DEF LocalsInv, Credentialed
<1>7. FileInv' /\ StoredInv' /\ DropInv' /\ CliKeepsReferences' /\ SavedIsUsable' /\ NoOrphans'
  BY <1>1, <1>4, IdsAssumption DEF CredentialsInv, FileInv, StoredInv, DropInv, CliKeepsReferences,
     SavedIsUsable, NoOrphans, Refs
<1>8. ReferencesInv'
  <2>1. ~guiDropped => Refs(profiles) \subseteq secrets /\ secrets \subseteq disk.secrets
    BY <1>1 DEF CredentialsInv, CliKeepsReferences, FileInv
  <2> QED
    BY <1>1, <1>4, <2>1 DEF CredentialsInv, ReferencesInv
<1>9. OrphansInv'
  <2>1. faults = 0 => secrets \subseteq Refs(profiles)
    BY <1>1 DEF CredentialsInv, OrphansInv
  <2>2. kind \notin Credentialed => Pushed' = copy
    BY <1>4 DEF Pushed
  <2>3. kind \in Gui => copy = profiles
    BY <1>3 DEF Gui
  <2> QED
    BY <1>1, <1>4, <2>1, <2>2, <2>3 DEF OrphansInv
<1> QED BY <1>5, <1>6, <1>7, <1>8, <1>9 DEF CredentialsInv

\* What is stored is new, so that nothing that is dropped later is what was stored.
LEMMA StoreSecretKeeps ==
    ASSUME CredentialsInv, StoreSecret
    PROVE  CredentialsInv'
<1>1. PICK id \in Fresh :
        /\ secrets' = secrets \cup {id}
        /\ client' = [client EXCEPT
              !.step = IF client.kind \in Gui /\ client.copy[client.conn] \in Ids
                       THEN "dropPrev" ELSE "push",
              !.cred = id]
  BY DEF StoreSecret
<1>2. /\ up /\ client.step = "store" /\ client \in Commands
      /\ disk' = [disk EXCEPT !.secrets = secrets'] /\ durable' = durable \cup {disk'}
      /\ up' = up /\ profiles' = profiles /\ faults' = faults /\ guiDropped' = guiDropped
  BY DEF StoreSecret, SaveSecrets, CredentialsInv, TypeOK
<1>3. id \in Ids /\ id \notin client.before
  BY DEF Fresh
<1>4. disk \in Disks /\ disk'.profiles = disk.profiles /\ disk'.secrets = secrets \cup {id}
  BY <1>1, <1>2 DEF CredentialsInv, TypeOK, Disks
<1>5. /\ client'.kind = client.kind /\ client'.conn = client.conn /\ client'.copy = client.copy
      /\ client'.before = client.before /\ client'.todo = client.todo /\ client'.cred = id
      /\ client'.step \in {"dropPrev", "push"}
      /\ client'.step = "dropPrev" <=> client.kind \in Gui /\ client.copy[client.conn] \in Ids
  BY <1>1, <1>2 DEF Commands
<1>6. client.kind \in Credentialed /\ Refs(client.copy) \subseteq client.before
      /\ client.before \subseteq Refs(client.copy)
  BY <1>2 DEF CredentialsInv, LocalsInv, Credentialed
<1>7. TypeOK'
  <2>1. client' \in Commands /\ client'.todo \subseteq client'.before
    BY <1>1, <1>2, <1>3, <1>5 DEF Commands, CredentialsInv, TypeOK
  <2>2. secrets' \subseteq Ids /\ disk' \in Disks
    BY <1>1, <1>2, <1>3, <1>4 DEF CredentialsInv, TypeOK, Disks
  <2> QED BY <1>2, <2>1, <2>2 DEF CredentialsInv, TypeOK
<1>8. LocalsInv'
  BY <1>3, <1>5, <1>6 DEF LocalsInv, Credentialed, Gui, Refs
<1>9. FileInv' /\ StoredInv' /\ DropInv' /\ SavedIsUsable' /\ NoOrphans'
  BY <1>1, <1>4, <1>5 DEF FileInv, StoredInv, DropInv, SavedIsUsable, NoOrphans
<1>10. ReferencesInv'
  BY <1>1, <1>2, <1>4, <1>5 DEF CredentialsInv, ReferencesInv, Refs
<1>11. CliKeepsReferences'
  <2>1. ASSUME ~guiDropped PROVE Refs(disk.profiles) \subseteq secrets
    BY <1>2, <2>1 DEF CredentialsInv, ReferencesInv
  <2>2. Refs(disk'.profiles) = Refs(disk.profiles)
    BY <1>4
  <2>3. ~guiDropped => /\ Refs(profiles) \subseteq secrets
                       /\ \A d \in durable : Refs(d.profiles) \subseteq d.secrets
    BY <1>2 DEF CredentialsInv, CliKeepsReferences
  <2>4. ~guiDropped => \A d \in durable' : Refs(d.profiles) \subseteq d.secrets
    BY <1>2, <1>4, <2>1, <2>2, <2>3
  <2> QED
    BY <1>1, <1>2, <2>3, <2>4 DEF CliKeepsReferences
<1>12. OrphansInv'
  <2>1. faults = 0 => secrets \subseteq client.before
    BY <1>2 DEF CredentialsInv, OrphansInv
  <2>2. client.copy \in Sets /\ client.conn \in Conns
    BY <1>2 DEF Commands
  <2>3. Pushed' = [client.copy EXCEPT ![client.conn] = id]
    BY <1>5, <1>6 DEF Pushed
  <2>4. id \in Refs(Pushed')
        /\ (client.copy[client.conn] \notin Ids => Refs(client.copy) \subseteq Refs(Pushed'))
    BY <1>3, <2>2, <2>3 DEF Sets, Refs
  <2>5. Refs(Pushed)' = Refs(Pushed')
    BY DEF Refs
  <2> QED
    BY <1>1, <1>2, <1>5, <1>6, <2>1, <2>4, <2>5 DEF CredentialsInv, OrphansInv
<1> QED BY <1>7, <1>8, <1>9, <1>10, <1>11, <1>12 DEF CredentialsInv

\* What delete_secret may do, whether its answer arrives or not.
LEMMA DeleteEffect ==
    ASSUME CredentialsInv, NEW id \in Ids,
           (up /\ DeleteSecret(id) /\ UNCHANGED faults) \/ (DeleteFails(id) /\ Fault)
    PROVE  /\ up' = up /\ profiles' = profiles
           /\ secrets' \subseteq secrets /\ secrets \ {id} \subseteq secrets'
           /\ disk' \in Disks /\ disk'.profiles = disk.profiles
           /\ disk' = disk \/ (up /\ disk'.secrets = secrets')
           /\ durable' = durable \cup {disk'}
           /\ faults' \in 0..MaxFaults
           /\ faults' = 0 => faults = 0 /\ secrets' = secrets \ {id}
           /\ FileInv'
<1>1. disk \in Disks /\ disk \in durable /\ secrets \subseteq Ids /\ faults \in 0..MaxFaults
      /\ (up => secrets \subseteq disk.secrets)
  BY DEF CredentialsInv, TypeOK, FileInv
<1>2. CASE up /\ DeleteSecret(id) /\ UNCHANGED faults
  <2>1. secrets' = secrets \ {id} /\ up' = up /\ profiles' = profiles /\ faults' = faults
    BY <1>2 DEF DeleteSecret
  <2>2. CASE id \in secrets
    <3>1. disk' = [disk EXCEPT !.secrets = secrets'] /\ durable' = durable \cup {disk'}
      BY <1>2, <2>2 DEF DeleteSecret, SaveSecrets
    <3>2. disk' \in Disks /\ disk'.profiles = disk.profiles /\ disk'.secrets = secrets'
      BY <1>1, <2>1, <3>1 DEF Disks
    <3> QED BY <1>1, <1>2, <2>1, <3>1, <3>2 DEF FileInv
  <2>3. CASE id \notin secrets
    <3>1. disk' = disk /\ durable' = durable
      BY <1>2, <2>3 DEF DeleteSecret
    <3> QED BY <1>1, <1>2, <2>1, <2>3, <3>1 DEF FileInv
  <2> QED BY <2>2, <2>3
<1>3. CASE DeleteFails(id) /\ Fault
  <2>1. faults' \in 0..MaxFaults /\ faults' # 0
    BY <1>3, AFault DEF CredentialsInv
  <2>2. /\ up' = up /\ profiles' = profiles /\ disk' = disk /\ durable' = durable
        /\ secrets' = secrets \/ secrets' = secrets \ {id}
    BY <1>3 DEF DeleteFails
  <2> QED BY <1>1, <2>1, <2>2 DEF FileInv
<1> QED BY <1>2, <1>3

LEMMA DropPrevKeeps ==
    ASSUME CredentialsInv, DropPrev
    PROVE  CredentialsInv'
<1> DEFINE prev == client.copy[client.conn]
<1>1. /\ client.step = "dropPrev" /\ client' = [client EXCEPT !.step = "push"]
      /\ guiDropped' = TRUE /\ client \in Commands
      /\ client.kind = "save" /\ prev \in Ids
      /\ Refs(client.copy) \subseteq client.before /\ client.before \subseteq Refs(client.copy)
      /\ client.cred \in Ids /\ client.cred \notin client.before
  BY DEF DropPrev, CredentialsInv, TypeOK, LocalsInv, Credentialed
<1>2. /\ client'.step = "push" /\ client'.kind = client.kind /\ client'.conn = client.conn
      /\ client'.copy = client.copy /\ client'.before = client.before
      /\ client'.cred = client.cred /\ client'.todo = client.todo
  BY <1>1 DEF Commands
<1>3. /\ up' = up /\ profiles' = profiles
      /\ secrets' \subseteq secrets /\ secrets \ {prev} \subseteq secrets'
      /\ disk' \in Disks /\ disk'.profiles = disk.profiles
      /\ disk' = disk \/ (up /\ disk'.secrets = secrets')
      /\ durable' = durable \cup {disk'}
      /\ faults' \in 0..MaxFaults
      /\ faults' = 0 => faults = 0 /\ secrets' = secrets \ {prev}
      /\ FileInv'
  BY <1>1, DeleteEffect DEF DropPrev
<1>4. prev \in Refs(client.copy)
  BY <1>1 DEF Refs, Commands
<1>5. TypeOK'
  BY <1>1, <1>2, <1>3 DEF CredentialsInv, TypeOK, Commands
<1>6. LocalsInv'
  BY <1>1, <1>2 DEF LocalsInv, Credentialed, Refs
<1>7. StoredInv'
  BY <1>1, <1>2, <1>3, <1>4 DEF CredentialsInv, StoredInv
<1>8. DropInv' /\ ReferencesInv' /\ CliKeepsReferences' /\ SavedIsUsable' /\ NoOrphans'
  BY <1>1, <1>2 DEF DropInv, ReferencesInv, CliKeepsReferences, SavedIsUsable, NoOrphans
<1>9. OrphansInv'
  <2>1. faults = 0 => up /\ secrets \subseteq client.before \cup {client.cred}
    BY <1>1 DEF CredentialsInv, OrphansInv
  <2>2. client.cred \in Refs(Pushed) /\ Refs(client.copy) \subseteq Refs(Pushed) \cup {prev}
    BY <1>1, PushedSet DEF CredentialsInv, Credentialed
  <2>3. Pushed' = Pushed
    BY <1>2 DEF Pushed
  <2>4. Refs(Pushed)' = Refs(Pushed)
    BY <2>3 DEF Refs
  <2> QED
    BY <1>1, <1>2, <1>3, <2>1, <2>2, <2>4 DEF OrphansInv, Gui
<1> QED BY <1>3, <1>5, <1>6, <1>7, <1>8, <1>9 DEF CredentialsInv

\* Only what the daemon's profiles no longer refer to is dropped.
LEMMA DropKeeps ==
    ASSUME CredentialsInv, NEW id \in Ids, Drop(id)
    PROVE  CredentialsInv'
<1>1. /\ client.step = "drop" /\ id \in client.todo /\ client' = [client EXCEPT !.todo = @ \ {id}]
      /\ guiDropped' = guiDropped /\ client \in Commands /\ client.todo \subseteq client.before
      /\ client.cred \notin client.before
  BY DEF Drop, CredentialsInv, TypeOK, LocalsInv
<1>2. /\ client'.step = "drop" /\ client'.kind = client.kind /\ client'.conn = client.conn
      /\ client'.copy = client.copy /\ client'.before = client.before
      /\ client'.cred = client.cred /\ client'.todo = client.todo \ {id}
  BY <1>1 DEF Commands
<1>3. /\ up' = up /\ profiles' = profiles
      /\ secrets' \subseteq secrets /\ secrets \ {id} \subseteq secrets'
      /\ disk' \in Disks /\ disk'.profiles = disk.profiles
      /\ disk' = disk \/ (up /\ disk'.secrets = secrets')
      /\ durable' = durable \cup {disk'}
      /\ faults' \in 0..MaxFaults
      /\ faults' = 0 => faults = 0 /\ secrets' = secrets \ {id}
      /\ FileInv'
  BY DeleteEffect DEF Drop
<1>4. /\ disk.profiles = client.copy /\ (up => profiles = client.copy)
      /\ client.todo \cap Refs(client.copy) = {}
  BY <1>1 DEF CredentialsInv, DropInv
<1>5. TypeOK'
  BY <1>1, <1>2, <1>3 DEF CredentialsInv, TypeOK, Commands
<1>6. LocalsInv'
  BY <1>1, <1>2 DEF CredentialsInv, LocalsInv
<1>7. StoredInv'
  BY <1>1, <1>2, <1>3 DEF CredentialsInv, StoredInv, TypeOK
<1>8. DropInv'
  <2>1. Refs(client.copy)' = Refs(client.copy)
    BY <1>2 DEF Refs
  <2> QED BY <1>2, <1>3, <1>4, <2>1 DEF DropInv
<1>9. ASSUME ~guiDropped
      PROVE /\ up => Refs(client.copy) \subseteq secrets'
            /\ Refs(client.copy) \subseteq disk'.secrets
            /\ \A d \in durable : Refs(d.profiles) \subseteq d.secrets
  <2>1. /\ up => Refs(disk.profiles) \subseteq secrets
        /\ \A d \in durable : Refs(d.profiles) \subseteq d.secrets
        /\ disk \in durable
    BY <1>9 DEF CredentialsInv, ReferencesInv, CliKeepsReferences, TypeOK
  <2> QED BY <1>1, <1>3, <1>4, <2>1
<1>10. Refs(profiles)' = Refs(profiles) /\ Refs(disk'.profiles) = Refs(client.copy)
  BY <1>3, <1>4 DEF Refs
<1>11. ReferencesInv' /\ CliKeepsReferences'
  BY <1>1, <1>2, <1>3, <1>4, <1>9, <1>10 DEF ReferencesInv, CliKeepsReferences
<1>12. OrphansInv'
  <2>1. faults = 0 => up /\ secrets \subseteq Refs(client.copy) \cup client.todo
    BY <1>1 DEF CredentialsInv, OrphansInv
  <2>2. Refs(client.copy)' = Refs(client.copy)
    BY <1>2 DEF Refs
  <2> QED BY <1>2, <1>3, <2>1, <2>2 DEF OrphansInv
<1>13. SavedIsUsable' /\ NoOrphans'
  BY <1>2 DEF SavedIsUsable, NoOrphans
<1> QED
  BY <1>3, <1>5, <1>6, <1>7, <1>8, <1>11, <1>12, <1>13 DEF CredentialsInv

\* What is pushed refers to what was there before, and to what the command has stored.
LEMMA PushedIsThere ==
    ASSUME CredentialsInv, client.step = "push", ~guiDropped
    PROVE  Refs(Pushed) \subseteq disk.secrets /\ (up => Refs(Pushed) \subseteq secrets)
<1>1. /\ client.before \subseteq disk.secrets /\ (up => client.before \subseteq secrets)
      /\ client.cred \in Ids => client.cred \in disk.secrets /\ (up => client.cred \in secrets)
  BY DEF CredentialsInv, ReferencesInv, StoredInv
<1>2. Refs(Pushed) \subseteq client.before \cup {client.cred} /\ Refs(Pushed) \subseteq Ids
  BY PushedSet, RefsAreIds DEF CredentialsInv
<1> QED BY <1>1, <1>2

LEMMA PushKeeps ==
    ASSUME CredentialsInv, Push
    PROVE  CredentialsInv'
<1>1. /\ up /\ client.step = "push" /\ client \in Commands
      /\ profiles' = Pushed /\ disk' = [disk EXCEPT !.profiles = Pushed] /\ durable' = {disk'}
      /\ up' = up /\ secrets' = secrets /\ faults' = faults /\ guiDropped' = guiDropped
  BY DEF Push, SaveProfiles, CredentialsInv, TypeOK
<1>2. /\ Pushed \in Sets
      /\ client.kind \in Credentialed =>
           Pushed[client.conn] = client.cred /\ client.cred \in Refs(Pushed)
  BY <1>1, PushedSet DEF CredentialsInv
<1>3. /\ client.kind \in Credentialed => client.cred \in Ids
      /\ client.kind \notin Credentialed => client.cred = NoCred
      /\ client.cred \notin client.before
      /\ client.conn \in Conns /\ client.cred \in Ids \cup {NoCred}
  BY <1>1 DEF CredentialsInv, LocalsInv, Commands
<1>4. disk' \in Disks /\ disk'.profiles = Pushed /\ disk'.secrets = disk.secrets
  BY <1>1, <1>2 DEF CredentialsInv, TypeOK, Disks
<1>5. FileInv'
  BY <1>1, <1>4 DEF CredentialsInv, FileInv
<1>6. Refs(profiles)' = Refs(Pushed) /\ Refs(disk'.profiles) = Refs(Pushed)
  BY <1>1, <1>4 DEF Refs
<1>7. ~guiDropped => Refs(Pushed) \subseteq disk.secrets /\ Refs(Pushed) \subseteq secrets
  BY <1>1, PushedIsThere
<1>8. CliKeepsReferences' /\ (~guiDropped' /\ up' => Refs(disk'.profiles) \subseteq secrets')
  BY <1>1, <1>4, <1>6, <1>7 DEF CliKeepsReferences
<1>9. client.cred \in Ids => /\ Pushed[client.conn] = client.cred /\ client.cred \in disk.secrets
                             /\ client.cred \in secrets
  BY <1>1, <1>2, <1>3, IdsAssumption DEF CredentialsInv, StoredInv
<1>10. CASE client.kind \in Gui
  <2>1. client' = Idle(client.conn, client.cred)
    BY <1>10 DEF Push
  <2>2. client' \in Commands /\ client'.todo \subseteq client'.before /\ client'.step = "idle"
        /\ client'.conn = client.conn /\ client'.cred = client.cred
    BY <1>3, <2>1, IdleClient
  <2>3. TypeOK'
    BY <1>1, <1>2, <1>4, <2>2 DEF CredentialsInv, TypeOK
  <2>4. SavedIsUsable'
    BY <1>1, <1>3, <1>4, <1>9, <2>2 DEF SavedIsUsable
  <2>5. OrphansInv'
    BY <1>1, <1>6, <1>10, <2>2 DEF CredentialsInv, OrphansInv
  <2> QED BY <1>5, <1>8, <2>2, <2>3, <2>4, <2>5, WhenIdle
<1>11. CASE client.kind \notin Gui
  <2>1. client' = [client EXCEPT !.step = "drop", !.copy = Pushed,
                                 !.todo = Unused(client.before, Pushed)]
    BY <1>11 DEF Push
  <2>2. /\ client'.step = "drop" /\ client'.kind = client.kind /\ client'.conn = client.conn
        /\ client'.copy = Pushed /\ client'.before = client.before
        /\ client'.cred = client.cred /\ client'.todo = client.before \ Refs(Pushed)
    BY <1>1, <2>1 DEF Commands, Unused
  <2>3. TypeOK'
    <3>1. client' \in Commands
      BY <1>1, <1>2, <2>1 DEF Commands, Unused
    <3> QED BY <1>1, <1>2, <1>4, <2>2, <3>1 DEF CredentialsInv, TypeOK
  <2>4. LocalsInv'
    BY <1>3, <1>11, <2>2 DEF LocalsInv
  <2>5. StoredInv'
    BY <1>1, <1>4, <1>9, <2>2 DEF StoredInv
  <2>6. Refs(client.copy)' = Refs(Pushed)
    BY <2>2 DEF Refs
  <2>7. DropInv'
    BY <1>1, <1>4, <2>2, <2>6 DEF DropInv
  <2>8. ReferencesInv'
    BY <1>8, <2>2 DEF ReferencesInv
  <2>9. OrphansInv'
    <3>1. faults = 0 => secrets \subseteq client.before \cup {client.cred}
      BY <1>1, <1>11 DEF CredentialsInv, OrphansInv
    <3>2. client.cred \in Refs(Pushed) \/ client.cred = NoCred
      BY <1>2, <1>3
    <3>3. NoCred \notin secrets
      BY IdsAssumption DEF CredentialsInv, TypeOK
    <3> QED BY <1>1, <2>2, <2>6, <3>1, <3>2, <3>3 DEF OrphansInv
  <2>10. SavedIsUsable' /\ NoOrphans'
    BY <2>2 DEF SavedIsUsable, NoOrphans
  <2> QED
    BY <1>5, <1>8, <2>3, <2>4, <2>5, <2>7, <2>8, <2>9, <2>10 DEF CredentialsInv
<1> QED BY <1>10, <1>11

\* The daemon has the new set in memory, and the old or the new one on the disk.
LEMMA PushFailsKeeps ==
    ASSUME CredentialsInv, PushFails
    PROVE  CredentialsInv'
<1>1. /\ up /\ client.step = "push" /\ client' = Failed
      /\ profiles' = Pushed /\ disk' \in {disk, [disk EXCEPT !.profiles = Pushed]}
      /\ durable' = durable \cup {disk'}
      /\ up' = up /\ secrets' = secrets /\ guiDropped' = guiDropped
  BY DEF PushFails
<1>2. faults' \in 0..MaxFaults /\ faults' # 0
  BY AFault DEF PushFails, CredentialsInv
<1>3. Pushed \in Sets
  BY <1>1, PushedSet DEF CredentialsInv
<1>4. client' \in Commands /\ client'.todo \subseteq client'.before /\ client'.step = "idle"
      /\ client'.cred = NoCred
  <2>1. client.conn \in Conns /\ client' = Idle(client.conn, NoCred)
    BY <1>1 DEF Failed, CredentialsInv, TypeOK, Commands
  <2> QED BY <2>1, IdleClient
<1>5. /\ disk' \in Disks /\ disk'.secrets = disk.secrets
      /\ disk'.profiles = disk.profiles \/ disk'.profiles = Pushed
  BY <1>1, <1>3 DEF CredentialsInv, TypeOK, Disks
<1>6. TypeOK'
  BY <1>1, <1>2, <1>3, <1>4, <1>5 DEF CredentialsInv, TypeOK
<1>7. Refs(profiles)' = Refs(Pushed)
      /\ (Refs(disk'.profiles) = Refs(disk.profiles) \/ Refs(disk'.profiles) = Refs(Pushed))
  BY <1>1, <1>5 DEF Refs
<1>8. ~guiDropped => /\ Refs(Pushed) \subseteq disk.secrets /\ Refs(Pushed) \subseteq secrets
                     /\ Refs(disk.profiles) \subseteq secrets
                     /\ \A d \in durable : Refs(d.profiles) \subseteq d.secrets
                     /\ disk \in durable
  BY <1>1, PushedIsThere DEF CredentialsInv, ReferencesInv, CliKeepsReferences, TypeOK
<1>9. CliKeepsReferences' /\ (~guiDropped' /\ up' => Refs(disk'.profiles) \subseteq secrets')
  BY <1>1, <1>5, <1>7, <1>8 DEF CliKeepsReferences
<1>10. FileInv' /\ OrphansInv' /\ SavedIsUsable'
  BY <1>1, <1>2, <1>4, <1>5 DEF CredentialsInv, FileInv, OrphansInv, SavedIsUsable
<1> QED BY <1>4, <1>6, <1>9, <1>10, WhenIdle

-----------------------------------------------------------------------------
(* The daemon's life. *)

LEMMA CrashKeeps ==
    ASSUME CredentialsInv, Crash
    PROVE  CredentialsInv'
<1>1. /\ up' = FALSE /\ profiles' = profiles /\ secrets' = secrets /\ disk' = disk
      /\ durable' = durable /\ client' = client /\ guiDropped' = guiDropped
  BY DEF Crash
<1>2. faults' \in 0..MaxFaults /\ faults' # 0
  BY AFault DEF Crash, CredentialsInv
<1>3. TypeOK' /\ LocalsInv' /\ FileInv' /\ StoredInv' /\ DropInv'
  BY <1>1, <1>2 DEF CredentialsInv, TypeOK, LocalsInv, FileInv, StoredInv, DropInv, Refs
<1>4. ReferencesInv' /\ OrphansInv' /\ CliKeepsReferences' /\ SavedIsUsable' /\ NoOrphans'
  BY <1>1, <1>2 DEF CredentialsInv, ReferencesInv, OrphansInv, CliKeepsReferences, SavedIsUsable,
     NoOrphans, Refs
<1> QED BY <1>3, <1>4 DEF CredentialsInv

\* One of the states the disk may be in becomes the only one.
LEMMA PowerCutKeeps ==
    ASSUME CredentialsInv, PowerCut
    PROVE  CredentialsInv'
<1>1. /\ up' = FALSE /\ disk' \in durable /\ durable' = {disk'} /\ client' = Failed
      /\ profiles' = profiles /\ secrets' = secrets /\ guiDropped' = guiDropped
  BY DEF PowerCut
<1>2. faults' \in 0..MaxFaults /\ faults' # 0
  BY AFault DEF PowerCut, CredentialsInv
<1>3. client' \in Commands /\ client'.todo \subseteq client'.before /\ client'.step = "idle"
      /\ (client' = client \/ client'.cred = NoCred)
  BY <1>1, FailedClient DEF CredentialsInv
<1>4. TypeOK'
  BY <1>1, <1>2, <1>3 DEF CredentialsInv, TypeOK
<1>5. FileInv' /\ OrphansInv' /\ CliKeepsReferences'
  BY <1>1, <1>2 DEF CredentialsInv, FileInv, OrphansInv, CliKeepsReferences
<1>6. SavedIsUsable'
  BY <1>1, <1>3 DEF CredentialsInv, SavedIsUsable
<1> QED BY <1>1, <1>3, <1>4, <1>5, <1>6, WhenIdle

\* The daemon comes back with what the files say; a command that survived goes on.
LEMMA RestartKeeps ==
    ASSUME CredentialsInv, Restart
    PROVE  CredentialsInv'
<1>1. /\ ~up /\ up' = TRUE /\ profiles' = disk.profiles /\ secrets' = disk.secrets
      /\ disk' = disk /\ durable' = durable /\ client' = client /\ faults' = faults
      /\ guiDropped' = guiDropped
  BY DEF Restart
<1>2. faults # 0 /\ disk \in durable /\ disk \in Disks
  BY <1>1 DEF CredentialsInv, OrphansInv, TypeOK
<1>3. TypeOK' /\ LocalsInv' /\ FileInv'
  BY <1>1, <1>2 DEF CredentialsInv, TypeOK, LocalsInv, FileInv, Disks, Refs
<1>4. StoredInv' /\ DropInv'
  BY <1>1 DEF CredentialsInv, StoredInv, DropInv, Refs
<1>5. Refs(profiles)' = Refs(disk.profiles)
  BY <1>1 DEF Refs
<1>6. ~guiDropped => \A d \in durable : Refs(d.profiles) \subseteq d.secrets
  BY DEF CredentialsInv, CliKeepsReferences
<1>7. ReferencesInv' /\ CliKeepsReferences'
  BY <1>1, <1>2, <1>5, <1>6 DEF CredentialsInv, ReferencesInv, CliKeepsReferences
<1>8. OrphansInv' /\ SavedIsUsable' /\ NoOrphans'
  BY <1>1, <1>2 DEF CredentialsInv, OrphansInv, SavedIsUsable, NoOrphans
<1> QED BY <1>3, <1>4, <1>7, <1>8 DEF CredentialsInv

-----------------------------------------------------------------------------

LEMMA InitHolds == Init => CredentialsInv
<1>1. SUFFICES ASSUME Init PROVE CredentialsInv
  OBVIOUS
<1>2. PICK c \in Conns : client = Idle(c, NoCred)
  BY <1>1 DEF Init
<1>3. client \in Commands /\ client.todo \subseteq client.before /\ client.step = "idle"
      /\ client.cred = NoCred
  BY <1>2, IdleClient
<1>4. NoSet \in Sets /\ Refs(NoSet) = {}
  BY IdsAssumption DEF NoSet, Sets, Refs
<1>5. /\ up = TRUE /\ faults = 0 /\ guiDropped = FALSE /\ profiles = NoSet /\ secrets = {}
      /\ disk = [profiles |-> NoSet, secrets |-> {}] /\ durable = {disk}
  BY <1>1 DEF Init
<1>6. disk \in Disks /\ disk.profiles = NoSet /\ disk.secrets = {}
  BY <1>4, <1>5 DEF Disks
<1>7. TypeOK
  <2>1. up \in BOOLEAN /\ guiDropped \in BOOLEAN
    BY <1>5
  <2>2. faults \in 0..MaxFaults
    BY <1>5, IdsAssumption
  <2>3. disk \in durable /\ durable \subseteq Disks
    BY <1>5, <1>6
  <2>4. profiles \in Sets /\ secrets \subseteq Ids
    BY <1>4, <1>5
  <2> QED BY <1>3, <1>6, <2>1, <2>2, <2>3, <2>4 DEF TypeOK
<1> QED
  BY <1>3, <1>4, <1>5, <1>6, <1>7 DEF CredentialsInv, LocalsInv, FileInv, StoredInv, DropInv,
     ReferencesInv, OrphansInv, CliKeepsReferences, SavedIsUsable, NoOrphans

LEMMA StepKeeps == CredentialsInv /\ [Next]_vars => CredentialsInv'
<1>1. SUFFICES ASSUME CredentialsInv, [Next]_vars PROVE CredentialsInv'
  OBVIOUS
<1>2. CASE Command
  BY <1>1, <1>2, FetchKeeps, StoreSecretKeeps, DropPrevKeeps, PushKeeps, PushFailsKeeps, DropKeeps,
     DoneKeeps, GiveUpKeeps DEF Command
<1>3. CASE Crash \/ PowerCut \/ Restart
  BY <1>1, <1>3, CrashKeeps, PowerCutKeeps, RestartKeeps
<1>4. CASE UNCHANGED vars
  <2>1. /\ up' = up /\ profiles' = profiles /\ secrets' = secrets
        /\ disk' = disk /\ durable' = durable /\ client' = client
        /\ faults' = faults /\ guiDropped' = guiDropped
    BY <1>4 DEF vars
  <2>2. TypeOK' /\ LocalsInv' /\ FileInv' /\ StoredInv' /\ DropInv' /\ ReferencesInv'
    BY <1>1, <2>1 DEF CredentialsInv, TypeOK, LocalsInv, FileInv, StoredInv, DropInv,
       ReferencesInv, Refs
  <2>3. Pushed' = Pushed
    BY <2>1 DEF Pushed
  <2>4. OrphansInv' /\ CliKeepsReferences' /\ SavedIsUsable' /\ NoOrphans'
    BY <1>1, <2>1, <2>3 DEF CredentialsInv, OrphansInv, CliKeepsReferences, SavedIsUsable,
       NoOrphans, Refs
  <2> QED BY <2>2, <2>4 DEF CredentialsInv
<1> QED BY <1>1, <1>2, <1>3, <1>4 DEF Next

-----------------------------------------------------------------------------
(* Theorems. *)

\* What a command in progress may rely on, wherever it or the daemon stops.
THEOREM Invariance == Spec => []CredentialsInv
BY InitHolds, StepKeeps, PTL DEF Spec

\* The variables keep their types.
THEOREM TypeCorrect == Spec => []TypeOK
<1>1. CredentialsInv => TypeOK
  BY DEF CredentialsInv
<1> QED BY <1>1, Invariance, PTL

\* No command of the CLI leaves a profile whose credentials are gone.
THEOREM ReferencesCorrect == Spec => []CliKeepsReferences
<1>1. CredentialsInv => CliKeepsReferences
  BY DEF CredentialsInv
<1> QED BY <1>1, Invariance, PTL

\* Credentials reported as saved survive a power cut with the profile that names them.
THEOREM SavedCorrect == Spec => []SavedIsUsable
<1>1. CredentialsInv => SavedIsUsable
  BY DEF CredentialsInv
<1> QED BY <1>1, Invariance, PTL

\* Without a failure no password is kept that no profile uses.
THEOREM OrphansCorrect == Spec => []NoOrphans
<1>1. CredentialsInv => NoOrphans
  BY DEF CredentialsInv
<1> QED BY <1>1, Invariance, PTL

=============================================================================
