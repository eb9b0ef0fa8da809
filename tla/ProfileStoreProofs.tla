------------------------- MODULE ProfileStoreProofs -------------------------
(***************************************************************************)
(* The profile store implements AtomicStore and keeps permissions and      *)
(* unreadable bytes, for any sets of profiles, any texts and any number    *)
(* of backup names.  StoreInv says what a save may rely on at each step.   *)
(***************************************************************************)
EXTENDS ProfileStore, WellFoundedInduction, TLAPS

\* What the directory may hold after a power cut was synced before it got its name.
SyncedInv ==
    \A d \in durable :
        /\ d.store = NoFile \/ (d.store \in Files /\ d.store.synced)
        /\ d.backups \in [Names -> Texts \cup {NoFile}]

\* The temporary file of a save in progress, and the file it has replaced.
SaveInv ==
    /\ step \in {"write", "sync", "rename"} => tmp # NoFile /\ tmp.mode = mode
    /\ step \in {"sync", "rename"} => tmp.text = profiles
    /\ step = "rename" => tmp.synced
    /\ step = "syncDir" => store # NoFile /\ store.text = profiles

\* A save has the permissions of the file it replaces.
ModeInv ==
    step \in {"open", "write", "sync", "rename"} =>
        store = NoFile \/ store.mode = "wide" \/ store.mode = mode

\* A daemon that runs has a file it could read.
ReadableInv == up => Parses(store)

StoreInv == TypeOK /\ SyncedInv /\ SaveInv /\ ModeInv /\ ReadableInv

-----------------------------------------------------------------------------
(* Helpers. *)

Less == {ss \in Nat \X Nat : ss[1] < ss[2]}

\* A set of names that is not empty has a first one.
LEMMA FirstFree == Free # {} => NextBackup \in Free
<1>1. SUFFICES ASSUME Free # {} PROVE NextBackup \in Free
  OBVIOUS
<1>2. Free \subseteq Nat
  BY AttemptsAssumption DEF Free, Names
<1>3. OpToRel(<, Nat) = Less
  BY DEF OpToRel, Less
<1>4. IsWellFoundedOn(Less, Nat)
  BY <1>3, NatLessThanWellFounded
<1>5. PICK n \in Free : \A o \in Free : ~(<<o, n>> \in Less)
  BY <1>1, <1>2, <1>4, WFMin
<1>6. \A x, y \in Nat : x < y => <<x, y>> \in Less
  BY DEF Less
<1>7. \A o \in Free : ~(o < n)
  BY <1>2, <1>5, <1>6
<1>8. \A o \in Free : n <= o
  BY <1>2, <1>7
<1> QED BY <1>1, <1>5, <1>8 DEF NextBackup

\* What Parsed and Parses say of a file a save has written, and of no file.
LEMMA ParsedText ==
    /\ \A file \in Files : file # NoFile
    /\ \A file \in Files : file.text \in Sets => Parses(file) /\ Parsed(file) = file.text
    /\ \A file \in Files \cup {NoFile} : Parsed(file) \in Sets
    /\ Parses(NoFile) /\ Parsed(NoFile) = Empty
<1>1. NoFile \notin Files /\ "blank" \notin Sets
  BY TextsAssumption
<1> QED BY <1>1, SetsAssumption DEF Parses, Parsed, Text

LEMMA ModeOfSave ==
    ASSUME TypeOK
    PROVE  /\ StoreMode \in Modes \ {"wide"}
           /\ store = NoFile \/ store.mode = "wide" \/ StoreMode = store.mode
BY DEF TypeOK, Files, Modes, StoreMode

\* What a step does to the states of the directory.
LEMMA SameDirectory ==
    ASSUME StoreInv, UNCHANGED <<store, backups, durable>>
    PROVE  /\ SyncedInv' /\ Here' \in durable'
           /\ store' \in Files \cup {NoFile} /\ backups' \in [Names -> Texts \cup {NoFile}]
BY DEF StoreInv, TypeOK, SyncedInv, Here

LEMMA NewDirectory ==
    ASSUME StoreInv, backups' \in [Names -> Texts \cup {NoFile}],
           store' = NoFile \/ (store' \in Files /\ store'.synced),
           durable' \subseteq durable \cup {Here'}, Here' \in durable'
    PROVE  SyncedInv'
<1>1. Here'.store = store' /\ Here'.backups = backups'
  BY DEF Here
<1> QED BY <1>1 DEF StoreInv, SyncedInv

-----------------------------------------------------------------------------
(* Saving. *)

LEMMA ReplaceAllKeeps ==
    ASSUME StoreInv, NEW new \in Sets, ReplaceAll(new)
    PROVE  StoreInv'
<1>1. /\ up' = up /\ up /\ profiles' = new /\ mode' = StoreMode /\ step' = "open"
      /\ reply' = "none" /\ UNCHANGED <<store, tmp, backups, durable>>
  BY DEF ReplaceAll, disk
<1>2. TypeOK'
  BY <1>1, SameDirectory, ModeOfSave DEF StoreInv, TypeOK, Steps, Here
<1>3. SaveInv' /\ ModeInv' /\ ReadableInv'
  BY <1>1, ModeOfSave DEF StoreInv, SaveInv, ModeInv, ReadableInv
<1> QED BY <1>1, <1>2, <1>3, SameDirectory DEF StoreInv

\* The steps that write the temporary file.
LEMMA WritingKeeps ==
    ASSUME StoreInv, Open \/ Write \/ Sync
    PROVE  StoreInv'
<1>1. /\ UNCHANGED <<up, profiles, mode, reply, store, backups, durable>>
      /\ \/ step = "open" /\ step' = "write" /\ tmp' = Created
         \/ step = "write" /\ step' = "sync" /\ tmp' = [tmp EXCEPT !.text = profiles]
         \/ step = "sync" /\ step' = "rename" /\ tmp' = [tmp EXCEPT !.synced = TRUE]
  BY DEF Open, Write, Sync, SaveStep
<1>2. up
  BY <1>1 DEF StoreInv, TypeOK
<1>3. tmp' \in Files
  <2>1. Created \in Files
    BY DEF StoreInv, TypeOK, Created, Files, Modes, Texts
  <2>2. step \in {"write", "sync"} => tmp \in Files
    BY DEF StoreInv, TypeOK, SaveInv
  <2>3. profiles \in Texts
    BY DEF StoreInv, TypeOK, Texts
  <2> QED BY <1>1, <2>1, <2>2, <2>3 DEF Files
<1>4. TypeOK'
  BY <1>1, <1>2, <1>3, SameDirectory DEF StoreInv, TypeOK, Steps, Here
<1>5. SaveInv'
  <2>1. tmp' # NoFile
    BY <1>3, ParsedText
  <2>2. tmp'.mode = mode'
    BY <1>1, <1>3 DEF StoreInv, TypeOK, SaveInv, Created, Files
  <2>3. step' \in {"sync", "rename"} => tmp'.text = profiles'
    BY <1>1 DEF StoreInv, TypeOK, SaveInv, Files
  <2>4. step' = "rename" => tmp'.synced
    BY <1>1 DEF StoreInv, TypeOK, SaveInv, Files
  <2> QED BY <1>1, <2>1, <2>2, <2>3, <2>4 DEF SaveInv
<1>6. ModeInv' /\ ReadableInv'
  BY <1>1 DEF StoreInv, ModeInv, ReadableInv, Parses, Text
<1> QED BY <1>1, <1>4, <1>5, <1>6, SameDirectory DEF StoreInv

\* The file that gets the store's name has been synced.
LEMMA RenameKeeps ==
    ASSUME StoreInv, Rename
    PROVE  /\ StoreInv' /\ Parsed(store') = profiles
           /\ store' \in Files /\ store'.mode = mode
<1>1. /\ UNCHANGED <<up, profiles, mode, reply, backups>> /\ step = "rename" /\ step' = "syncDir"
      /\ store' = tmp /\ tmp' = NoFile /\ durable' = durable \cup {Here'}
  BY DEF Rename, SaveStep
<1>2. /\ up /\ tmp \in Files /\ tmp.text = profiles /\ tmp.synced /\ tmp.mode = mode
      /\ profiles \in Sets
  BY <1>1 DEF StoreInv, TypeOK, SaveInv
<1>3. TypeOK'
  BY <1>1, <1>2 DEF StoreInv, TypeOK, Steps, Here
<1>4. SyncedInv'
  BY <1>1, <1>2, NewDirectory DEF StoreInv, TypeOK
<1>5. SaveInv' /\ ModeInv' /\ ReadableInv'
  BY <1>1, <1>2, ParsedText DEF SaveInv, ModeInv, ReadableInv
<1> QED BY <1>1, <1>2, <1>3, <1>4, <1>5, ParsedText DEF StoreInv

LEMMA SyncDirKeeps ==
    ASSUME StoreInv, SyncDir
    PROVE  StoreInv' /\ Parsed(store) = profiles
<1>1. /\ UNCHANGED <<up, profiles, mode, store, tmp, backups>> /\ step = "syncDir"
      /\ step' = "idle" /\ reply' = "ok" /\ durable' = {Here}
  BY DEF SyncDir, SaveStep
<1>2. Here' = Here /\ Here \in durable
  BY <1>1 DEF StoreInv, TypeOK, Here
<1>3. TypeOK'
  BY <1>1, <1>2 DEF StoreInv, TypeOK, Steps, Here
<1>4. SyncedInv'
  BY <1>1, <1>2 DEF StoreInv, SyncedInv
<1>5. SaveInv' /\ ModeInv' /\ ReadableInv'
  BY <1>1 DEF StoreInv, SaveInv, ModeInv, ReadableInv, Parses, Text
<1>6. store \in Files /\ store.text = profiles /\ profiles \in Sets
  BY <1>1 DEF StoreInv, TypeOK, SaveInv
<1> QED BY <1>3, <1>4, <1>5, <1>6, ParsedText DEF StoreInv

LEMMA SaveFailsKeeps ==
    ASSUME StoreInv, SaveFails
    PROVE  StoreInv'
<1>1. /\ UNCHANGED <<up, profiles, mode, store, backups, durable>>
      /\ step' = "idle" /\ reply' = "error"
      /\ \/ tmp' = tmp \/ tmp' = NoFile
         \/ step = "write" /\ tmp' = [tmp EXCEPT !.text = "torn"]
  BY DEF SaveFails
<1>2. tmp' \in Files \cup {NoFile}
  BY <1>1 DEF StoreInv, TypeOK, SaveInv, Files, Texts
<1>3. TypeOK'
  BY <1>1, <1>2, SameDirectory DEF StoreInv, TypeOK, Steps, Here
<1>4. SaveInv' /\ ModeInv' /\ ReadableInv'
  BY <1>1 DEF StoreInv, SaveInv, ModeInv, ReadableInv, Parses, Text
<1> QED BY <1>1, <1>3, <1>4, SameDirectory DEF StoreInv

-----------------------------------------------------------------------------
(* Loading, and the environment. *)

LEMMA LoadKeeps ==
    ASSUME StoreInv, Load
    PROVE  StoreInv' /\ Parsed(store) = profiles'
<1>1. /\ Parses(store) /\ step = "idle" /\ up' = TRUE /\ profiles' = Parsed(store)
      /\ reply' = "none" /\ UNCHANGED <<step, mode, store, tmp, backups, durable>>
  BY DEF Load, disk, StoreInv, TypeOK
<1>2. TypeOK'
  BY <1>1, SameDirectory, ParsedText DEF StoreInv, TypeOK, Here
<1>3. SaveInv' /\ ModeInv' /\ ReadableInv'
  BY <1>1 DEF SaveInv, ModeInv, ReadableInv, Parses, Text
<1> QED BY <1>1, <1>2, <1>3, SameDirectory DEF StoreInv

LEMMA QuarantineKeeps ==
    ASSUME StoreInv, Quarantine
    PROVE  /\ StoreInv' /\ store \in Files /\ Parsed(store) = Empty
           /\ backups' = [backups EXCEPT ![NextBackup] = store.text]
<1>1. /\ ~Parses(store) /\ step = "idle" /\ ~up /\ store' = NoFile
      /\ backups' = [backups EXCEPT ![NextBackup] = store.text]
      /\ durable' = durable \cup {Here'} /\ UNCHANGED <<up, profiles, step, mode, reply, tmp>>
  BY DEF Quarantine, memory, StoreInv, TypeOK
<1>2. store \in Files /\ store.text \in Texts
  BY <1>1, ParsedText DEF StoreInv, TypeOK, Files
<1>3. Parsed(store) = Empty
  BY <1>1 DEF Parses, Parsed
<1>4. backups' \in [Names -> Texts \cup {NoFile}]
  BY <1>1, <1>2 DEF StoreInv, TypeOK
<1>5. TypeOK'
  BY <1>1, <1>4 DEF StoreInv, TypeOK, Here
<1>6. SaveInv' /\ ModeInv' /\ ReadableInv'
  BY <1>1 DEF SaveInv, ModeInv, ReadableInv
<1>7. SyncedInv'
  <2>1. durable' \subseteq durable \cup {Here'} /\ Here' \in durable' /\ store' = NoFile
    BY <1>1
  <2>2. store' = NoFile \/ (store' \in Files /\ store'.synced)
    BY <2>1
  <2> QED BY <1>4, <2>1, <2>2, NewDirectory
<1> QED BY <1>1, <1>2, <1>3, <1>5, <1>6, <1>7 DEF StoreInv

LEMMA CrashKeeps ==
    ASSUME StoreInv, Crash
    PROVE  StoreInv'
<1>1. /\ up' = FALSE /\ step' = "idle" /\ reply' = "none"
      /\ UNCHANGED <<profiles, mode, store, tmp, backups, durable>>
  BY DEF Crash, Down, disk
<1>2. TypeOK'
  BY <1>1, SameDirectory DEF StoreInv, TypeOK, Here, Steps
<1>3. SaveInv' /\ ModeInv' /\ ReadableInv'
  BY <1>1 DEF SaveInv, ModeInv, ReadableInv
<1> QED BY <1>1, <1>2, <1>3, SameDirectory DEF StoreInv

\* What the power cut leaves is one of the states that were possible, as it was.
LEMMA PowerCutKeeps ==
    ASSUME StoreInv, PowerCut
    PROVE  /\ StoreInv' /\ durable' = {Here'}
           /\ \E d \in durable : store' = d.store
<1>1. PICK d \in durable : store' \in Remains(d.store) /\ backups' = d.backups
  BY DEF PowerCut
<1>2. /\ up' = FALSE /\ step' = "idle" /\ reply' = "none" /\ UNCHANGED <<profiles, mode>>
      /\ tmp' \in Remains(tmp) \cup {NoFile} /\ durable' = {Here'}
  BY DEF PowerCut, Down
<1>3. /\ d.store = NoFile \/ (d.store \in Files /\ d.store.synced)
      /\ backups' \in [Names -> Texts \cup {NoFile}]
  BY <1>1 DEF StoreInv, SyncedInv
<1>4. store' = d.store
  BY <1>1, <1>3 DEF Remains
<1>5. tmp' \in Files \cup {NoFile}
  <2>1. CASE tmp = NoFile \/ tmp.synced
    BY <1>2, <2>1 DEF StoreInv, TypeOK, Remains
  <2>2. CASE tmp # NoFile /\ ~tmp.synced
    <3>1. tmp \in Files /\ tmp.text \in Texts /\ tmp.mode \in Modes
      BY <2>2 DEF StoreInv, TypeOK, Files
    <3>2. \A t \in {tmp.text, "torn", "blank"} :
             [text |-> t, mode |-> tmp.mode, synced |-> TRUE] \in Files
      BY <3>1 DEF Files, Texts
    <3>3. Remains(tmp) = {[text |-> t, mode |-> tmp.mode, synced |-> TRUE] :
                            t \in {tmp.text, "torn", "blank"}}
      BY <2>2 DEF Remains
    <3> QED BY <1>2, <3>2, <3>3
  <2> QED BY <2>1, <2>2
<1>6. TypeOK'
  BY <1>2, <1>3, <1>4, <1>5 DEF StoreInv, TypeOK, Here, Steps
<1>7. SyncedInv'
  BY <1>2, <1>3, <1>4, NewDirectory
<1>8. SaveInv' /\ ModeInv' /\ ReadableInv'
  BY <1>2 DEF SaveInv, ModeInv, ReadableInv
<1> QED BY <1>1, <1>2, <1>4, <1>6, <1>7, <1>8 DEF StoreInv

LEMMA HandEditKeeps ==
    ASSUME StoreInv, HandEdit
    PROVE  StoreInv' /\ store' \in Files
<1>1. PICK t \in Sets \cup Garbage \cup {"blank"} :
        store' = [text |-> t, synced |-> TRUE,
                  mode |-> IF store = NoFile THEN "wide" ELSE store.mode]
  BY DEF HandEdit
<1>2. /\ reply' = "none" /\ UNCHANGED <<up, profiles, step, mode, tmp, backups>>
      /\ durable' = durable \cup {Here'} /\ ~up /\ step = "idle"
  BY DEF HandEdit, StoreInv, TypeOK
<1>3. store' \in Files /\ store'.synced
  BY <1>1 DEF StoreInv, TypeOK, Files, Texts, Modes
<1>4. TypeOK'
  BY <1>2, <1>3 DEF StoreInv, TypeOK, Here
<1>5. SyncedInv'
  BY <1>2, <1>3, NewDirectory DEF StoreInv, TypeOK
<1>6. SaveInv' /\ ModeInv' /\ ReadableInv'
  BY <1>2 DEF SaveInv, ModeInv, ReadableInv
<1> QED BY <1>3, <1>4, <1>5, <1>6 DEF StoreInv

LEMMA ChmodKeeps ==
    ASSUME StoreInv, Chmod
    PROVE  /\ StoreInv' /\ Parsed(store') = Parsed(store)
           /\ durable' = durable \cup {Here'}
<1>1. PICK m \in Modes \ {store.mode} : store' = [store EXCEPT !.mode = m]
  BY DEF Chmod
<1>2. /\ UNCHANGED <<up, profiles, step, mode, reply, tmp, backups>> /\ step = "idle"
      /\ durable' = durable \cup {Here'} /\ store # NoFile
  BY DEF Chmod, memory
<1>3. store \in Files /\ store.synced
  <2>1. Here \in durable /\ Here.store = store
    BY DEF StoreInv, TypeOK, Here
  <2> QED BY <1>2, <2>1 DEF StoreInv, SyncedInv
<1>4. store' \in Files /\ store'.synced /\ store'.text = store.text
  BY <1>1, <1>3 DEF Files
<1>5. TypeOK'
  BY <1>2, <1>4 DEF StoreInv, TypeOK, Here
<1>6. SyncedInv'
  BY <1>2, <1>4, NewDirectory DEF StoreInv, TypeOK
<1>7. Text(store') = Text(store)
  BY <1>3, <1>4, ParsedText DEF Text
<1>8. SaveInv' /\ ModeInv' /\ ReadableInv'
  BY <1>2, <1>7 DEF StoreInv, SaveInv, ModeInv, ReadableInv, Parses
<1> QED BY <1>2, <1>5, <1>6, <1>7, <1>8 DEF StoreInv, Parsed

-----------------------------------------------------------------------------

LEMMA InitHolds == Init => StoreInv
<1>1. SUFFICES ASSUME Init PROVE StoreInv
  OBVIOUS
<1>2. TypeOK
  BY <1>1, SetsAssumption DEF Init, TypeOK, Here, Steps, Modes
<1>3. SyncedInv
  <2>1. Here.store = NoFile /\ Here.backups = [n \in Names |-> NoFile] /\ durable = {Here}
    BY <1>1 DEF Init, Here
  <2>2. Here.backups \in [Names -> Texts \cup {NoFile}]
    BY <2>1
  <2>3. ASSUME NEW d \in durable
        PROVE  d.store = NoFile /\ d.backups \in [Names -> Texts \cup {NoFile}]
    BY <2>1, <2>2
  <2> QED BY <2>3 DEF SyncedInv
<1> QED BY <1>1, <1>2, <1>3 DEF Init, StoreInv, SaveInv, ModeInv, ReadableInv

LEMMA StepKeeps == StoreInv /\ [Next]_vars => StoreInv'
<1>1. SUFFICES ASSUME StoreInv, [Next]_vars PROVE StoreInv'
  OBVIOUS
<1>2. CASE Save
  BY <1>1, <1>2, ReplaceAllKeeps, WritingKeeps, RenameKeeps, SyncDirKeeps, SaveFailsKeeps DEF Save
<1>3. CASE Start
  BY <1>1, <1>3, LoadKeeps, QuarantineKeeps DEF Start
<1>4. CASE Crash \/ PowerCut \/ HandEdit \/ Chmod
  BY <1>1, <1>4, CrashKeeps, PowerCutKeeps, HandEditKeeps, ChmodKeeps
<1>5. CASE UNCHANGED vars
  BY <1>1, <1>5
     DEF vars, StoreInv, TypeOK, SyncedInv, SaveInv, ModeInv, ReadableInv, Parses, Text
<1> QED BY <1>1, <1>2, <1>3, <1>4, <1>5 DEF Next

-----------------------------------------------------------------------------
(* Every step is one of AtomicStore, or none. *)

Stable == {Parsed(d.store) : d \in durable}

\* The state of the directory is among those a restart may find.
LEMMA HereIsStable ==
    ASSUME StoreInv
    PROVE  Parsed(store) \in Stable /\ Stable # {}
<1>1. Here \in durable /\ Here.store = store
  BY DEF StoreInv, TypeOK, Here
<1> QED BY <1>1 DEF Stable

LEMMA OneMore ==
    ASSUME durable' = durable \cup {Here'}
    PROVE  Stable' = Stable \cup {Parsed(store')}
<1>1. Here'.store = store'
  BY DEF Here
<1> QED BY <1>1 DEF Stable

LEMMA OnlyHere ==
    ASSUME durable' = {Here'}
    PROVE  Stable' = {Parsed(store')}
<1>1. Here'.store = store'
  BY DEF Here
<1> QED BY <1>1 DEF Stable

LEMMA Stutters ==
    ASSUME profiles' = profiles, Stable' = Stable, reply' = reply
    PROVE  [Promised!Next]_Promised!vars
BY DEF Promised!vars, Stable

LEMMA SaveImplements ==
    ASSUME StoreInv, Save
    PROVE  [Promised!Next]_Promised!vars
<1>1. ASSUME NEW new \in Sets, ReplaceAll(new) PROVE Promised!Begin
  <2>1. profiles' = new /\ reply' = "none" /\ durable' = durable
    BY <1>1 DEF ReplaceAll, disk
  <2> QED BY <2>1 DEF Promised!Begin
<1>2. ASSUME Open \/ Write \/ Sync PROVE [Promised!Next]_Promised!vars
  <2>1. profiles' = profiles /\ reply' = reply /\ durable' = durable
    BY <1>2 DEF Open, Write, Sync, SaveStep
  <2>2. Stable' = Stable
    BY <2>1 DEF Stable
  <2> QED BY <2>1, <2>2, Stutters
<1>3. ASSUME Rename PROVE Promised!Publish
  <2>1. /\ profiles' = profiles /\ reply' = reply /\ durable' = durable \cup {Here'}
        /\ Parsed(store') = profiles
    BY <1>3, RenameKeeps DEF Rename, SaveStep
  <2>2. Stable' = Stable \cup {profiles}
    BY <2>1, OneMore
  <2> QED BY <2>1, <2>2 DEF Promised!Publish, Stable
<1>4. ASSUME SyncDir PROVE Promised!Succeed
  <2>1. /\ profiles' = profiles /\ reply' = "ok" /\ durable' = {Here} /\ Here' = Here
        /\ store' = store /\ Parsed(store) = profiles
    BY <1>4, SyncDirKeeps DEF SyncDir, SaveStep, Here
  <2>2. Stable' = {profiles}
    BY <2>1, OnlyHere
  <2> QED BY <2>1, <2>2 DEF Promised!Succeed, Stable
<1>5. ASSUME SaveFails PROVE Promised!Fail
  <2>1. profiles' = profiles /\ reply' = "error" /\ durable' = durable
    BY <1>5 DEF SaveFails
  <2> QED BY <2>1 DEF Promised!Fail
<1> QED BY <1>1, <1>2, <1>3, <1>4, <1>5 DEF Save, Promised!Next

\* A quarantined file counted as the empty set already.
LEMMA StartImplements ==
    ASSUME StoreInv, Start
    PROVE  [Promised!Next]_Promised!vars
<1>1. ASSUME Load PROVE Promised!Restart
  <2>1. profiles' = Parsed(store) /\ reply' = "none" /\ durable' = durable
    BY <1>1 DEF Load, disk
  <2> QED BY <2>1, HereIsStable DEF Promised!Restart, Stable
<1>2. ASSUME Quarantine PROVE [Promised!Next]_Promised!vars
  <2>1. /\ profiles' = profiles /\ reply' = reply /\ store' = NoFile
        /\ durable' = durable \cup {Here'} /\ Parsed(store) = Empty
    BY <1>2, QuarantineKeeps DEF Quarantine, memory
  <2>2. Stable' = Stable
    BY <2>1, OneMore, HereIsStable, ParsedText
  <2> QED BY <2>1, <2>2, Stutters
<1> QED BY <1>1, <1>2 DEF Start, Promised!Next

LEMMA EnvironmentImplements ==
    ASSUME StoreInv, Crash \/ PowerCut \/ HandEdit \/ Chmod
    PROVE  [Promised!Next]_Promised!vars
<1>1. ASSUME Crash PROVE Promised!Lose
  <2>1. profiles' = profiles /\ reply' = "none" /\ durable' = durable
    BY <1>1 DEF Crash, Down, disk
  <2>2. Stable' = Stable
    BY <2>1 DEF Stable
  <2>3. Stable' \in (SUBSET Stable) \ {{}}
    BY <2>2, HereIsStable
  <2> QED BY <2>1, <2>3 DEF Promised!Lose, Stable
<1>2. ASSUME PowerCut PROVE Promised!Lose
  <2>1. profiles' = profiles /\ reply' = "none"
    BY <1>2 DEF PowerCut, Down
  <2>2. PICK d \in durable : store' = d.store
    BY <1>2, PowerCutKeeps
  <2>3. Stable' = {Parsed(d.store)} /\ Parsed(d.store) \in Stable
    <3>1. Stable' = {Parsed(store')}
      BY <1>2, PowerCutKeeps, OnlyHere
    <3> QED BY <2>2, <3>1 DEF Stable
  <2>4. Stable' \in (SUBSET Stable) \ {{}}
    BY <2>3
  <2> QED BY <2>1, <2>4 DEF Promised!Lose, Stable
<1>3. ASSUME HandEdit PROVE Promised!Edit
  <2>1. /\ profiles' = profiles /\ reply' = "none" /\ durable' = durable \cup {Here'}
        /\ Parsed(store') \in Sets
    BY <1>3, HandEditKeeps, ParsedText DEF HandEdit
  <2>2. Stable' = Stable \cup {Parsed(store')}
    BY <2>1, OneMore
  <2> QED BY <2>1, <2>2 DEF Promised!Edit, Stable
<1>4. ASSUME Chmod PROVE [Promised!Next]_Promised!vars
  <2>1. /\ profiles' = profiles /\ reply' = reply /\ durable' = durable \cup {Here'}
        /\ Parsed(store') = Parsed(store)
    BY <1>4, ChmodKeeps DEF Chmod, memory
  <2>2. Stable' = Stable
    BY <2>1, OneMore, HereIsStable
  <2> QED BY <2>1, <2>2, Stutters
<1> QED BY <1>1, <1>2, <1>3, <1>4 DEF Promised!Next

-----------------------------------------------------------------------------
(* Theorems. *)

\* What a save may rely on at each of its steps, and a restart on the disk.
THEOREM Invariance == Spec => []StoreInv
BY InitHolds, StepKeeps, PTL DEF Spec

\* The variables keep their types, and the directory is one of its pending states.
THEOREM TypeCorrect == Spec => []TypeOK
<1>1. StoreInv => TypeOK
  BY DEF StoreInv
<1> QED BY <1>1, Invariance, PTL

\* A reported save is all a restart can come back with; any other happened or did not.
THEOREM Refinement == Spec => ImplementsAtomicStore
<1>1. Init => Promised!Init
  <2>1. SUFFICES ASSUME Init PROVE Promised!Init
    OBVIOUS
  <2>2. durable = {Here} /\ Here.store = NoFile
    BY <2>1 DEF Init, Here
  <2>3. Stable = {Empty}
    BY <2>2, ParsedText DEF Stable
  <2> QED BY <2>1, <2>3 DEF Init, Promised!Init, Stable
<1>2. StoreInv /\ [Next]_vars => [Promised!Next]_Promised!vars
  <2>1. SUFFICES ASSUME StoreInv, [Next]_vars PROVE [Promised!Next]_Promised!vars
    OBVIOUS
  <2>2. CASE UNCHANGED vars
    BY <2>2, Stutters DEF vars, Stable
  <2> QED
    BY <2>1, <2>2, SaveImplements, StartImplements, EnvironmentImplements DEF Next
<1> QED BY <1>1, <1>2, Invariance, PTL DEF Spec, ImplementsAtomicStore, Promised!Spec

\* A save that was reported as done cannot be lost.
THEOREM DoneIsStableCorrect == Spec => []Promised!DoneIsStable
<1>1. Promised!Init => Promised!DoneIsStable
  BY DEF Promised!Init, Promised!DoneIsStable
<1>2. Promised!DoneIsStable /\ [Promised!Next]_Promised!vars => Promised!DoneIsStable'
  BY DEF Promised!DoneIsStable, Promised!Next, Promised!vars, Promised!Begin, Promised!Publish,
     Promised!Succeed, Promised!Fail, Promised!Lose, Promised!Restart, Promised!Edit
<1>3. Promised!Spec => []Promised!DoneIsStable
  BY <1>1, <1>2, PTL DEF Promised!Spec
<1> QED BY <1>3, Refinement DEF ImplementsAtomicStore

\* A save never gives the file more permissions than the user left it.
THEOREM ModeCorrect == Spec => SaveNeverWidens
<1>1. StoreInv /\ [Next]_vars =>
        [Rename => \/ store' = NoFile \/ store = NoFile
                   \/ store'.mode = store.mode \/ store.mode = "wide"]_vars
  <2>1. SUFFICES ASSUME StoreInv, Rename
        PROVE  store = NoFile \/ store.mode = "wide" \/ store'.mode = store.mode
    OBVIOUS
  <2>2. step = "rename" /\ store'.mode = mode
    BY <2>1, RenameKeeps DEF Rename, SaveStep
  <2> QED BY <2>1, <2>2 DEF StoreInv, ModeInv
<1> QED BY <1>1, Invariance, PTL DEF Spec, SaveNeverWidens

\* Bytes that do not parse are kept while a name for them is free.
THEOREM QuarantineCorrect == Spec => QuarantineKeepsBytes
<1>1. StoreInv /\ [Next]_vars =>
        [\A t \in Garbage : Kept(t) /\ Free # {} /\ (Save \/ Start) => Kept(t)']_vars
  <2>1. SUFFICES ASSUME StoreInv, NEW t \in Garbage, Kept(t), Free # {}, Save \/ Start
        PROVE  Kept(t)'
    OBVIOUS
  <2>2. CASE UNCHANGED <<store, backups>>
    BY <2>1, <2>2 DEF Kept, Text
  <2>3. CASE Rename
    <3>1. Parses(store) /\ backups' = backups
      BY <2>1, <2>3 DEF StoreInv, ReadableInv, TypeOK, Rename, SaveStep
    <3>2. Text(store) # t
      BY <3>1, TextsAssumption DEF Parses
    <3> QED BY <2>1, <3>1, <3>2 DEF Kept
  <2>4. CASE Quarantine
    <3>1. /\ store \in Files /\ backups' = [backups EXCEPT ![NextBackup] = store.text]
          /\ backups \in [Names -> Texts \cup {NoFile}]
      BY <2>1, <2>4, QuarantineKeeps DEF StoreInv, TypeOK
    <3>2. NextBackup \in Names /\ backups[NextBackup] = NoFile
      BY <2>1, FirstFree DEF Free
    <3>3. Text(store) = store.text
      BY <3>1, ParsedText DEF Text
    <3>4. t # NoFile
      BY TextsAssumption DEF Texts
    <3>5. backups'[NextBackup] = store.text
      BY <3>1, <3>2
    <3>6. \A n \in Names : backups[n] = t => backups'[n] = t
      BY <3>1, <3>2, <3>4
    <3> QED BY <2>1, <3>2, <3>3, <3>5, <3>6 DEF Kept
  <2>5. UNCHANGED <<store, backups>> \/ Rename \/ Quarantine
    BY <2>1 DEF Save, Start, ReplaceAll, Open, Write, Sync, SyncDir, SaveFails, SaveStep, Load, disk
  <2> QED BY <2>2, <2>3, <2>4, <2>5
<1> QED BY <1>1, Invariance, PTL DEF Spec, QuarantineKeepsBytes
=============================================================================
