--------------------------- MODULE NmClientProofs ---------------------------
(***************************************************************************)
(* What NmClient answers, for any number of connections, SSIDs and active  *)
(* connections: QueryInv is an inductive invariant, and its last conjuncts *)
(* are the properties.  One lemma per call of a method, and two about      *)
(* NetworkManager changing in the middle of one.  And no method goes on    *)
(* for ever: a list that was read gets no longer while it is gone through. *)
(***************************************************************************)
EXTENDS NmClient, FiniteSetTheorems, TLAPS

\* An object is one of a saved connection, and the primary one exists.
ObjectsInv ==
    /\ \A p \in Listed : active[p].conn \in Conns /\ saved[active[p].conn] # Absent
    /\ primary # NoPath => primary \in Listed

\* The history is about what NetworkManager is now, too.
WifiInv ==
    query.step \in WifiSteps =>
        /\ seen.steady \subseteq Activated
        /\ seen.lead # NoPath => primary = seen.lead
        /\ ActivatedConns \subseteq seen.was
        /\ Primaries \subseteq seen.led

\* The primary connection read led at some instant; it is the one that led all the time.
LeadInv ==
    query.step \in {"actives", "examine", "details"} =>
        /\ query.lead \in Listed => active[query.lead].conn \in seen.led
        /\ seen.lead # NoPath /\ NoPath \notin query.broken => query.lead = seen.lead

\* What must be found is still to be looked at.
TodoInv ==
    query.step \in {"examine", "details"} =>
        \A p \in seen.steady \ query.broken : IsWifi(active[p].conn) => p \in query.todo

\* The object at hand is the one that was found, or gone; and the one that led all the time
\* if that one is a Wi-Fi.
DetailsInv ==
    query.step = "details" =>
        /\ query.at \in Paths /\ query.wifi.conn \in Conns \cap seen.was
        /\ query.at \in Listed =>
               active[query.at].conn = query.wifi.conn /\ IsWifi(query.wifi.conn)
        /\ query.lead = query.at => query.wifi.conn \in seen.led
        /\ /\ seen.lead \in seen.steady \ query.broken /\ NoPath \notin query.broken
           /\ IsWifi(active[seen.lead].conn)
           => query.at = seen.lead

\* Nothing was read yet.
BlankInv ==
    /\ query.step = "primary" => query.lead = NoPath
    /\ query.step \in {"saved", "index"} => query.broken = {}

SavedInv ==
    query.step \in SavedSteps =>
        /\ seen.listed \subseteq Listed /\ seen.kept \subseteq Saved
        /\ ActiveConns \subseteq seen.up

\* The index holds what was active at some instant, and in the end what was all the time.
IndexInv ==
    query.step \in SavedSteps =>
        /\ query.index \subseteq seen.up
        /\ query.step # "indexing" => query.todo = {}
        /\ query.step \in {"indexing", "settings"} /\ NoPath \notin query.broken =>
               \A p \in seen.listed \ query.broken :
                  active[p].conn \in query.index \/ p \in query.todo

\* A Wi-Fi is listed or still to be listed; rows say what the index said.
RowsInv ==
    query.step \in SavedSteps =>
        /\ query.step # "settings" => query.rows = {}
        /\ \A row \in query.rows : row.up <=> row.conn \in query.index
        /\ query.step # "saved" =>
               \A c \in seen.kept \ query.broken :
                  IsWifi(c) => c \in query.conns \/ \E row \in query.rows : row.conn = c

\* A connection for the network asked for is still to be looked at.
ConnectInv ==
    query.step \in ConnectSteps =>
        /\ seen.kept \subseteq Saved /\ query.wifi.ssid \in Ssids
        /\ query.step = "look" =>
               \A c \in seen.kept \ query.broken :
                  saved[c] = query.wifi.ssid => c \in query.conns

QueryInv ==
    /\ TypeOK /\ ObjectsInv
    /\ WifiInv /\ LeadInv /\ TodoInv /\ DetailsInv /\ BlankInv
    /\ SavedInv /\ IndexInv /\ RowsInv /\ ConnectInv
    /\ ReadingWasTrue /\ StableWifiIsFound /\ SavedListIsRight /\ NetworkIsReused

-----------------------------------------------------------------------------
(* NetworkManager. *)

\* Whatever it does: an object that stays is of the connection it was of, a new one takes a
\* path nobody has in hand, and a connection that stays saved is for the network it was for.
LEMMA NetworkChanges ==
    ASSUME NmTypeOK, ObjectsInv, NmNext
    PROVE  /\ NmTypeOK' /\ ObjectsInv'
           /\ \A p \in Listed' \cap Listed : active'[p].conn = active[p].conn
           /\ Listed' \ Listed \subseteq NewPaths
           /\ \A c \in Saved' \cap Saved : saved'[c] = saved[c]
<1> DEFINE Goal == /\ NmTypeOK' /\ ObjectsInv'
                   /\ \A p \in Listed' \cap Listed : active'[p].conn = active[p].conn
                   /\ Listed' \ Listed \subseteq NewPaths
                   /\ \A c \in Saved' \cap Saved : saved'[c] = saved[c]
<1>1. ASSUME NEW c \in Conns, Forget(c) PROVE Goal
  BY <1>1, NamesAssumption DEF Forget, WithoutConn, PrimaryWithout, NmTypeOK, ObjectsInv,
     Listed, Saved, Objects, NoObject, Absent
<1>2. ASSUME NEW c \in Conns, NEW p \in NewPaths, Activate(c, p) PROVE Goal
  BY <1>2, NamesAssumption DEF Activate, Raise, WithoutConn, PrimaryWithout, NmTypeOK, ObjectsInv,
     Listed, Saved, Objects, NoObject, Absent, NewPaths
<1>3. ASSUME NEW c \in NewConns, NEW ssid \in Ssids, NEW p \in NewPaths, AddAndActivate(c, ssid, p)
      PROVE Goal
  BY <1>3, NamesAssumption DEF AddAndActivate, Raise, WithoutConn, PrimaryWithout, NmTypeOK,
     ObjectsInv, Listed, Saved, Objects, NoObject, Absent, NewPaths, NewConns
<1>4. ASSUME NEW p \in Paths, BecomesActive(p) PROVE Goal
  BY <1>4 DEF BecomesActive, NmTypeOK, ObjectsInv, Listed, Saved, Objects, NoObject, Absent
<1>5. ASSUME NEW p \in Paths, Deactivate(p) PROVE Goal
  BY <1>5 DEF Deactivate, NmTypeOK, ObjectsInv, Listed, Saved, Objects, NoObject, Absent
<1>6. ASSUME Elect PROVE Goal
  BY <1>6 DEF Elect, NmTypeOK, ObjectsInv, Listed, Saved, Activated, Objects, NoObject, Absent
<1> QED
  BY <1>1, <1>2, <1>3, <1>4, <1>5, <1>6 DEF NmNext

-----------------------------------------------------------------------------
(* NetworkManager changes while a method runs, or waits to be called. *)

\* The history stays a history, whatever the method is.
LEMMA HistoryKept ==
    ASSUME NmTypeOK, seen \in Histories, Observe, NmTypeOK', ObjectsInv'
    PROVE  seen' \in Histories
<1>1. /\ Activated' \subseteq Paths /\ Listed' \subseteq Paths /\ Saved' \subseteq Conns
      /\ primary' \in Paths \cup {NoPath}
  BY DEF NmTypeOK, Activated, Listed, Saved
<1>2. \A p \in Listed' : active'[p].conn \in Conns
  BY DEF ObjectsInv
<1>3. Activated' \subseteq Listed'
  BY DEF Activated, Listed, NoObject, Absent
<1>4. Primaries' \subseteq Conns /\ ActiveConns' \subseteq Conns
      /\ ActivatedConns' \subseteq Conns
  BY <1>2, <1>3 DEF Primaries, ActiveConns, ActivatedConns, ObjectsInv
<1>5. /\ seen.steady \cap Activated' \in SUBSET Paths /\ seen.listed \cap Listed' \in SUBSET Paths
      /\ seen.kept \cap Saved' \in SUBSET Conns /\ seen.up \cup ActiveConns' \in SUBSET Conns
      /\ seen.was \cup ActivatedConns' \in SUBSET Conns /\ seen.led \cup Primaries' \in SUBSET Conns
      /\ (IF primary' = seen.lead THEN seen.lead ELSE NoPath) \in Paths \cup {NoPath}
  BY <1>4 DEF Histories
<1>6. CASE query.step \in WifiSteps
  BY <1>5, <1>6 DEF Observe, Histories, WifiSteps, SavedSteps
<1>7. CASE query.step \in SavedSteps
  BY <1>5, <1>7 DEF Observe, Histories, WifiSteps, SavedSteps
<1>8. CASE query.step \notin WifiSteps \cup SavedSteps
  BY <1>5, <1>8 DEF Observe, Histories
<1> QED BY <1>6, <1>7, <1>8

LEMMA NetworkKeeps ==
    ASSUME QueryInv, Network
    PROVE  QueryInv'
<1>1. /\ NmTypeOK' /\ ObjectsInv'
      /\ \A p \in Listed' \cap Listed : active'[p].conn = active[p].conn
      /\ Listed' \ Listed \subseteq NewPaths
      /\ \A c \in Saved' \cap Saved : saved'[c] = saved[c]
  BY NetworkChanges DEF QueryInv, TypeOK, Network
<1>2. query' = query /\ Observe /\ query.step \notin Answers /\ query \in Queries
      /\ NmTypeOK /\ ObjectsInv /\ seen \in Histories
  BY DEF Network, QueryInv, TypeOK
<1>3. TypeOK'
  BY <1>1, <1>2, HistoryKept DEF TypeOK
<1>4. \A p \in Activated : p \in Listed
  BY DEF Activated, Listed, NoObject, Absent
<1>5. \A p \in Activated' : p \in Listed'
  BY DEF Activated, Listed, NoObject, Absent
<1>6. WifiInv' /\ LeadInv' /\ TodoInv' /\ DetailsInv'
  <2>1. SUFFICES ASSUME query.step \in WifiSteps
                 PROVE  WifiInv' /\ LeadInv' /\ TodoInv' /\ DetailsInv'
    BY <1>2 DEF WifiInv, LeadInv, TodoInv, DetailsInv, WifiSteps
  <2>3. /\ seen'.steady = seen.steady \cap Activated'
        /\ seen'.lead = IF primary' = seen.lead THEN seen.lead ELSE NoPath
        /\ seen'.led = seen.led \cup Primaries'
        /\ seen'.was = seen.was \cup ActivatedConns'
    BY <1>2, <2>1 DEF Observe, Histories, WifiSteps, SavedSteps
  <2>4. seen.steady \subseteq Activated
    BY <2>1 DEF QueryInv, WifiInv
  <2>5. \A p \in seen'.steady : active'[p].conn = active[p].conn
                                /\ (IsWifi(active[p].conn)' <=> IsWifi(active[p].conn))
    <3>1. SUFFICES ASSUME NEW p \in seen'.steady
                   PROVE active'[p].conn = active[p].conn
                         /\ (IsWifi(active[p].conn)' <=> IsWifi(active[p].conn))
      OBVIOUS
    <3>2. p \in Listed /\ p \in Listed' /\ active'[p].conn = active[p].conn
      BY <3>1, <2>3, <2>4, <1>1, <1>4, <1>5
    <3>3. active[p].conn \in Saved /\ active[p].conn \in Saved'
      BY <3>2, <1>1, <1>2 DEF ObjectsInv, Saved
    <3> QED BY <3>2, <3>3, <1>1 DEF IsWifi
  <2>6. WifiInv'
    BY <2>3 DEF WifiInv
  <2>7. LeadInv'
    BY <1>1, <1>2, <2>3 DEF QueryInv, LeadInv, NewPaths
  <2>8. TodoInv'
    BY <1>2, <2>3, <2>5 DEF QueryInv, TodoInv
  <2>9. DetailsInv'
    <3>1. SUFFICES ASSUME query.step = "details" PROVE DetailsInv'
      BY <1>2 DEF DetailsInv
    <3>2. query.at \in Paths /\ query.wifi.conn \in Conns \cap seen'.was
          /\ (query.lead = query.at => query.wifi.conn \in seen'.led)
      BY <3>1, <2>3 DEF QueryInv, DetailsInv
    <3>3. query.at \in Listed' => active'[query.at].conn = query.wifi.conn
                                  /\ IsWifi(query.wifi.conn)'
      <4>1. SUFFICES ASSUME query.at \in Listed'
                     PROVE active'[query.at].conn = query.wifi.conn /\ IsWifi(query.wifi.conn)'
        OBVIOUS
      <4>2. query.at \in Listed
        BY <4>1, <1>1 DEF NewPaths
      <4>3. active'[query.at].conn = query.wifi.conn /\ active[query.at].conn = query.wifi.conn
            /\ IsWifi(query.wifi.conn)
        BY <4>1, <4>2, <3>1, <1>1 DEF QueryInv, DetailsInv
      <4>4. query.wifi.conn \in Saved /\ query.wifi.conn \in Saved'
        BY <4>1, <4>2, <4>3, <1>1, <1>2 DEF ObjectsInv, Saved
      <4> QED BY <4>3, <4>4, <1>1, <1>2 DEF IsWifi
    <3>4. /\ seen'.lead \in seen'.steady \ query.broken /\ NoPath \notin query.broken
          /\ IsWifi(active[seen.lead].conn)'
          /\ seen'.lead = seen.lead
          => query.at = seen.lead
      BY <3>1, <2>3, <2>5 DEF QueryInv, DetailsInv
    <3>5. seen'.lead = seen.lead \/ seen'.lead = NoPath
      BY <2>3
    <3>6. NoPath \notin seen'.steady
      BY <2>3, <2>4, NamesAssumption DEF Activated
    <3> QED BY <1>2, <3>2, <3>3, <3>4, <3>5, <3>6 DEF DetailsInv
  <2> QED BY <2>6, <2>7, <2>8, <2>9
<1>7. SavedInv' /\ IndexInv' /\ RowsInv'
  <2>1. SUFFICES ASSUME query.step \in SavedSteps PROVE SavedInv' /\ IndexInv' /\ RowsInv'
    BY <1>2 DEF SavedInv, IndexInv, RowsInv
  <2>2. query.step \notin WifiSteps
    BY <2>1 DEF WifiSteps, SavedSteps
  <2>3. /\ seen'.listed = seen.listed \cap Listed' /\ seen'.kept = seen.kept \cap Saved'
        /\ seen'.up = seen.up \cup ActiveConns'
    BY <1>2, <2>1, <2>2 DEF Observe, Histories
  <2>4. seen.listed \subseteq Listed /\ seen.kept \subseteq Saved
    BY <2>1 DEF QueryInv, SavedInv
  <2>5. \A p \in seen'.listed : active'[p].conn = active[p].conn
    BY <1>1, <2>3, <2>4
  <2>6. \A c \in seen'.kept : saved'[c] = saved[c]
    BY <1>1, <2>3, <2>4
  <2>7. SavedInv'
    BY <2>3 DEF SavedInv
  <2>8. IndexInv'
    BY <1>2, <2>3, <2>5 DEF QueryInv, IndexInv
  <2>9. RowsInv'
    BY <1>2, <2>3, <2>6 DEF QueryInv, RowsInv, IsWifi
  <2> QED BY <2>7, <2>8, <2>9
<1>8. ConnectInv'
  <2>1. SUFFICES ASSUME query.step \in ConnectSteps PROVE ConnectInv'
    BY <1>2 DEF ConnectInv
  <2>2. seen'.kept = seen.kept \cap Saved'
    BY <1>2, <2>1 DEF Observe, Histories, WifiSteps, SavedSteps, ConnectSteps
  <2>3. seen.kept \subseteq Saved
    BY <2>1 DEF QueryInv, ConnectInv
  <2> QED BY <1>1, <1>2, <2>2, <2>3 DEF QueryInv, ConnectInv
<1>9. BlankInv' /\ ReadingWasTrue' /\ StableWifiIsFound' /\ SavedListIsRight' /\ NetworkIsReused'
  BY <1>2 DEF QueryInv, BlankInv, ReadingWasTrue, StableWifiIsFound, SavedListIsRight,
     NetworkIsReused, Answers
<1> QED
  BY <1>1, <1>3, <1>6, <1>7, <1>8, <1>9 DEF QueryInv

-----------------------------------------------------------------------------
(* A step of a method that changes nothing else. *)

LEMMA OnlyTheQuery ==
    ASSUME QueryInv, UNCHANGED <<nmVars, seen>>
    PROVE  /\ NmTypeOK' /\ ObjectsInv' /\ seen' \in Histories /\ seen' = seen
           /\ saved' = saved /\ active' = active /\ primary' = primary
           /\ Listed' = Listed /\ Activated' = Activated /\ Saved' = Saved
           /\ ActivatedConns' = ActivatedConns /\ ActiveConns' = ActiveConns
           /\ Primaries' = Primaries
BY DEF QueryInv, TypeOK, NmTypeOK, ObjectsInv, nmVars, Listed, Activated, Saved, ActivatedConns,
   ActiveConns, Primaries

\* The method goes on, or ends, and nothing is known of its answer.
LEMMA AnErrorKeeps ==
    ASSUME QueryInv, Step("error"), UNCHANGED <<nmVars, seen>>
    PROVE  QueryInv'
<1>1. query' \in Queries /\ query'.step = "error"
  BY DEF Step, QueryInv, TypeOK, Queries, Answers
<1> QED
  BY <1>1, OnlyTheQuery DEF QueryInv, TypeOK, WifiInv, LeadInv, TodoInv, DetailsInv, BlankInv,
     SavedInv,
     IndexInv, RowsInv, ConnectInv, WifiSteps, SavedSteps, ConnectSteps, ReadingWasTrue,
     StableWifiIsFound, SavedListIsRight, NetworkIsReused

\* What QueryInv comes to, by the method that runs.
LEMMA WhileWifi ==
    ASSUME TypeOK', ObjectsInv', query'.step \in {"actives", "examine", "details"},
           WifiInv', LeadInv', TodoInv', DetailsInv'
    PROVE  QueryInv'
BY DEF QueryInv, BlankInv, SavedInv, IndexInv, RowsInv, ConnectInv, SavedSteps, ConnectSteps,
   ReadingWasTrue, StableWifiIsFound, SavedListIsRight, NetworkIsReused

LEMMA WhileSaved ==
    ASSUME TypeOK', ObjectsInv', query'.step \in SavedSteps, BlankInv', SavedInv', IndexInv',
           RowsInv'
    PROVE  QueryInv'
BY DEF QueryInv, WifiInv, LeadInv, TodoInv, DetailsInv, ConnectInv, WifiSteps, SavedSteps,
   ConnectSteps,
   ReadingWasTrue, StableWifiIsFound, SavedListIsRight, NetworkIsReused

LEMMA WhileConnect ==
    ASSUME TypeOK', ObjectsInv', query'.step \in ConnectSteps, ConnectInv'
    PROVE  QueryInv'
BY DEF QueryInv, WifiInv, LeadInv, TodoInv, DetailsInv, BlankInv, SavedInv, IndexInv, RowsInv,
   WifiSteps,
   SavedSteps, ConnectSteps, ReadingWasTrue, StableWifiIsFound, SavedListIsRight, NetworkIsReused

LEMMA WhenAnswered ==
    ASSUME TypeOK', ObjectsInv', query'.step \in Answers \cup {"idle"},
           ReadingWasTrue', StableWifiIsFound', SavedListIsRight', NetworkIsReused'
    PROVE  QueryInv'
BY DEF QueryInv, WifiInv, LeadInv, TodoInv, DetailsInv, BlankInv, SavedInv, IndexInv, RowsInv,
   ConnectInv, WifiSteps, SavedSteps, ConnectSteps, Answers

-----------------------------------------------------------------------------
(* active_wifi *)

\* The history starts with what is there.
LEMMA ActiveWifiKeeps ==
    ASSUME QueryInv, ActiveWifi
    PROVE  QueryInv'
<1>1. /\ query' = [NoQuery EXCEPT !.step = "primary"] /\ UNCHANGED nmVars
      /\ seen' = [NoHistory EXCEPT !.steady = Activated, !.was = ActivatedConns,
                                  !.lead = primary, !.led = Primaries]
  BY DEF ActiveWifi, Start
<1>2. Activated \subseteq Listed /\ \A p \in Listed : active[p].conn \in Conns
  BY DEF QueryInv, ObjectsInv, Activated, Listed, NoObject, Absent
<1>3. /\ Activated \in SUBSET Paths /\ ActivatedConns \in SUBSET Conns
      /\ Primaries \in SUBSET Conns /\ primary \in Paths \cup {NoPath}
  BY <1>2 DEF QueryInv, TypeOK, NmTypeOK, Activated, ActivatedConns, Primaries, ObjectsInv
<1>4. /\ seen'.steady = Activated /\ seen'.was = ActivatedConns /\ seen'.lead = primary
      /\ seen'.led = Primaries /\ query'.step = "primary" /\ query'.lead = NoPath
  BY <1>1 DEF NoHistory, NoQuery
<1>5. TypeOK'
  BY <1>1, <1>3 DEF QueryInv, TypeOK, NmTypeOK, nmVars, Queries, NoQuery, NoWifi, Wifis,
     Histories, NoHistory, Running, WifiSteps
<1>6. ObjectsInv' /\ WifiInv'
  BY <1>1, <1>4 DEF QueryInv, ObjectsInv, WifiInv, nmVars, Listed, Saved, Activated,
     ActivatedConns, Primaries
<1> QED
  BY <1>4, <1>5, <1>6 DEF QueryInv, LeadInv, TodoInv, DetailsInv, BlankInv, SavedInv,
     IndexInv, RowsInv, ConnectInv, SavedSteps, ConnectSteps, ReadingWasTrue, StableWifiIsFound,
     SavedListIsRight, NetworkIsReused

LEMMA ReadPrimaryKeeps ==
    ASSUME QueryInv, ReadPrimary
    PROVE  QueryInv'
<1>1. query.step = "primary" /\ query'.step = "actives" /\ UNCHANGED <<nmVars, seen>>
  BY DEF ReadPrimary, QueryInv, TypeOK, Queries
<1>2. TypeOK' /\ ObjectsInv' /\ WifiInv'
  <2>1. primary \in Paths \cup {NoPath} /\ {NoPath} \in SUBSET (Paths \cup Conns \cup {NoPath})
    BY DEF QueryInv, TypeOK, NmTypeOK
  <2>2. query' \in Queries
    BY <2>1 DEF ReadPrimary, QueryInv, TypeOK, Queries, Running, WifiSteps
  <2> QED
    BY <1>1, <2>2 DEF QueryInv, TypeOK, NmTypeOK, ObjectsInv, WifiInv, nmVars, WifiSteps, Activated,
       ActivatedConns, Listed, Saved, Primaries
<1>3. LeadInv'
  <2>1. query'.lead = primary \/ (query'.lead = query.lead /\ NoPath \in query'.broken)
    BY DEF ReadPrimary, QueryInv, TypeOK, Queries
  <2>2. query.lead = NoPath
    BY <1>1 DEF QueryInv, BlankInv
  <2> QED
    BY <1>1, <2>1, <2>2, NamesAssumption DEF QueryInv, LeadInv, WifiInv, WifiSteps, Primaries,
       Listed,
       nmVars
<1> QED
  BY <1>1, <1>2, <1>3 DEF QueryInv, TodoInv, DetailsInv, BlankInv, SavedInv,
     IndexInv, RowsInv, ConnectInv, SavedSteps, ConnectSteps, ReadingWasTrue, StableWifiIsFound,
     SavedListIsRight, NetworkIsReused

\* Whatever is activated is listed, so all that was activated all the time is to be looked at.
LEMMA ReadActivesKeeps ==
    ASSUME QueryInv, ReadActives
    PROVE  QueryInv'
<1>1. CASE Step("error")
  BY <1>1, AnErrorKeeps DEF ReadActives
<1>2. CASE query' = [query EXCEPT !.step = "examine", !.todo = Listed]
  <2>1. query.step = "actives" /\ UNCHANGED <<nmVars, seen>> /\ query \in Queries
    BY DEF ReadActives, QueryInv, TypeOK
  <2>2. /\ query'.step = "examine" /\ query'.todo = Listed
        /\ query'.lead = query.lead /\ query'.broken = query.broken
    BY <1>2, <2>1 DEF Queries
  <2>3. Listed \in SUBSET Paths
    BY DEF Listed
  <2>4. TypeOK'
    BY <1>2, <2>1, <2>3, OnlyTheQuery DEF TypeOK, Queries, Running, WifiSteps
  <2>5. WifiInv' /\ LeadInv'
    BY <2>1, <2>2, OnlyTheQuery DEF QueryInv, WifiInv, LeadInv, WifiSteps
  <2>6. TodoInv'
    BY <2>1, <2>2, OnlyTheQuery DEF QueryInv, TodoInv, WifiInv, WifiSteps, Activated, Listed,
       NoObject,
       Absent
  <2>7. ObjectsInv' /\ DetailsInv'
    BY <2>1, <2>2, OnlyTheQuery DEF DetailsInv
  <2> QED BY <2>2, <2>4, <2>5, <2>6, <2>7, WhileWifi
<1> QED BY <1>1, <1>2 DEF ReadActives

\* An object is passed over: it is none that had to be found, or it could not be read.
LEMMA SkipKeeps ==
    ASSUME QueryInv, UNCHANGED <<nmVars, seen>>, query.step \in {"examine", "details"},
           NEW p \in Paths, NEW b \in SUBSET {p}, Skip(p, b),
           b = {} => p \notin Activated \/ ~IsWifi(active[p].conn)
    PROVE  QueryInv'
<1>1. query \in Queries
  BY DEF QueryInv, TypeOK
<1>2. /\ query'.step = "examine" /\ query'.todo = query.todo \ {p}
      /\ query'.lead = query.lead /\ query'.broken = query.broken \cup b
  BY <1>1 DEF Queries, Skip
<1>3. TypeOK'
  <2>1. query.todo \ {p} \in SUBSET Paths /\ NoWifi \in Wifis
        /\ query.broken \cup b \in SUBSET (Paths \cup Conns \cup {NoPath})
    BY <1>1 DEF Queries, NoWifi, Wifis
  <2> QED
    BY <1>1, <2>1, OnlyTheQuery DEF TypeOK, Skip, Queries, Running, WifiSteps
<1>4. WifiInv' /\ LeadInv'
  BY <1>2, OnlyTheQuery DEF QueryInv, WifiInv, LeadInv, WifiSteps
<1>5. TodoInv'
  <2>1. seen.steady \subseteq Activated
    BY DEF QueryInv, WifiInv, WifiSteps
  <2>2. SUFFICES ASSUME NEW q \in seen.steady \ query'.broken, IsWifi(active[q].conn)
                 PROVE q \in query.todo \ {p}
    BY <1>2, OnlyTheQuery DEF TodoInv, IsWifi
  <2>3. q \in query.todo
    BY <2>2, <1>2 DEF QueryInv, TodoInv
  <2>4. q # p
    BY <2>1, <2>2, <1>2
  <2> QED BY <2>3, <2>4
<1>6. ObjectsInv' /\ DetailsInv'
  BY <1>2, OnlyTheQuery DEF DetailsInv
<1> QED BY <1>2, <1>3, <1>4, <1>5, <1>6, WhileWifi

\* A Wi-Fi found is looked into: the primary connection first, if it is among them.
LEMMA ExamineKeeps ==
    ASSUME QueryInv, NEW p \in Paths, Examine(p)
    PROVE  QueryInv'
<1>1. /\ query.step = "examine" /\ p \in First(query.todo, query.lead) /\ query \in Queries
      /\ UNCHANGED <<nmVars, seen>>
  BY DEF Examine, QueryInv, TypeOK
<1>2. CASE ~Found(p) /\ Skip(p, {})
  <2>1. p \notin Activated \/ ~IsWifi(active[p].conn)
    BY <1>2 DEF Found
  <2> QED BY <1>1, <1>2, <2>1, SkipKeeps
<1>3. CASE Skip(p, {p})
  BY <1>1, <1>3, SkipKeeps
<1>4. CASE Found(p) /\ query' = [query EXCEPT !.step = "details", !.at = p,
                                              !.wifi.conn = active[p].conn]
  <2>1. p \in Activated /\ p \in Listed /\ IsWifi(active[p].conn) /\ active[p].conn \in Conns
    BY <1>4 DEF Found, QueryInv, ObjectsInv, Activated, Listed, NoObject, Absent
  <2>2. /\ query'.step = "details" /\ query'.at = p /\ query'.wifi.conn = active[p].conn
        /\ query'.lead = query.lead /\ query'.broken = query.broken /\ query'.todo = query.todo
    BY <1>1, <1>4 DEF Queries, Wifis
  <2>3. TypeOK'
    <3>1. [query.wifi EXCEPT !.conn = active[p].conn] \in Wifis
      BY <1>1, <2>1 DEF Queries, Wifis
    <3>2. query' = [query EXCEPT !.step = "details", !.at = p,
                                 !.wifi = [query.wifi EXCEPT !.conn = active[p].conn]]
      BY <1>4
    <3> QED BY <1>1, <3>1, <3>2, OnlyTheQuery DEF TypeOK, Queries, Running, WifiSteps
  <2>4. WifiInv' /\ LeadInv' /\ TodoInv'
    BY <1>1, <2>2, OnlyTheQuery DEF QueryInv, WifiInv, LeadInv, TodoInv, WifiSteps, IsWifi
  <2>5. DetailsInv'
    <3>1. active[p].conn \in seen.was /\ (query.lead = p => active[p].conn \in seen.led)
      BY <1>1, <2>1 DEF QueryInv, WifiInv, LeadInv, WifiSteps, ActivatedConns
    <3>2. ASSUME seen.lead \in seen.steady \ query.broken, NoPath \notin query.broken,
                 IsWifi(active[seen.lead].conn)
          PROVE p = seen.lead
      <4>1. seen.lead \in query.todo
        BY <1>1, <3>2 DEF QueryInv, TodoInv
      <4>2. query.lead = seen.lead
        BY <1>1, <3>2, NamesAssumption DEF QueryInv, LeadInv, TypeOK, Histories
      <4> QED BY <1>1, <4>1, <4>2 DEF First
    <3>3. saved' = saved /\ active' = active /\ seen' = seen /\ Listed' = Listed
      BY <1>1, OnlyTheQuery
    <3> QED
      BY <2>1, <2>2, <3>1, <3>2, <3>3 DEF DetailsInv, IsWifi
  <2>6. ObjectsInv'
    BY <1>1, OnlyTheQuery
  <2> QED BY <2>2, <2>3, <2>4, <2>5, <2>6, WhileWifi
<1> QED BY <1>2, <1>3, <1>4 DEF Examine

\* What is reported of the object at hand was so at some instant, and it is the connection
\* that led, if one did all the time.
LEMMA DetailsKeeps ==
    ASSUME QueryInv, Details
    PROVE  QueryInv'
<1> DEFINE p == query.at
<1>1. query.step = "details" /\ UNCHANGED <<nmVars, seen>> /\ query \in Queries
  BY DEF Details, QueryInv, TypeOK
<1>2. /\ p \in Paths /\ query.wifi.conn \in Conns \cap seen.was
      /\ p \in Listed => active[p].conn = query.wifi.conn /\ IsWifi(query.wifi.conn)
      /\ query.lead = p => query.wifi.conn \in seen.led
      /\ /\ seen.lead \in seen.steady \ query.broken /\ NoPath \notin query.broken
         /\ IsWifi(active[seen.lead].conn)
         => p = seen.lead
  BY <1>1 DEF QueryInv, DetailsInv
<1>3. CASE p \notin Activated /\ Skip(p, {})
  BY <1>1, <1>2, <1>3, SkipKeeps
<1>4. CASE Skip(p, {p})
  BY <1>1, <1>2, <1>4, SkipKeeps
<1>5. ASSUME NEW ssid \in Reported(p), NEW b \in SUBSET {p},
             query' = [query EXCEPT
                 !.step = "some", !.broken = @ \cup b,
                 !.wifi = [conn  |-> IF b = {} THEN query.wifi.conn ELSE NoConn,
                           ssid  |-> ssid, route |-> HasDefaultRoute(p)]]
      PROVE QueryInv'
  <2>1. /\ query'.step = "some" /\ query'.broken = query.broken \cup b /\ query'.at = p
        /\ query'.wifi.conn = (IF b = {} THEN query.wifi.conn ELSE NoConn)
        /\ query'.wifi.ssid = ssid /\ query'.wifi.route = HasDefaultRoute(p)
    BY <1>1, <1>5 DEF Queries
  <2>2. \A q \in Activated : q \in Listed
    BY DEF Activated, Listed, NoObject, Absent
  <2>3. ssid \in Ssids \cup {NoSsid}
    BY <1>2, <1>5, <2>2 DEF Reported, IsWifi
  <2>4. TypeOK' /\ ObjectsInv'
    <3>1. [conn |-> IF b = {} THEN query.wifi.conn ELSE NoConn,
           ssid |-> ssid, route |-> HasDefaultRoute(p)] \in Wifis
      BY <1>2, <2>3 DEF Wifis, HasDefaultRoute
    <3>2. query.broken \cup b \in SUBSET (Paths \cup Conns \cup {NoPath})
      BY <1>1, <1>2 DEF Queries
    <3>3. query' \in Queries
      BY <1>1, <1>5, <3>1, <3>2 DEF Queries, Answers
    <3> QED BY <1>1, <3>3, OnlyTheQuery DEF TypeOK
  <2>5. seen' = seen /\ saved' = saved /\ active' = active
    BY <1>1, OnlyTheQuery
  <2>6. seen.steady \subseteq Activated
    BY <1>1 DEF QueryInv, WifiInv, WifiSteps
  <2>7. ReadingWasTrue'
    <3>1. p \in seen.steady => ssid \in {saved[query.wifi.conn], NoSsid}
      BY <1>2, <1>5, <2>2, <2>6 DEF Reported
    <3> QED
      BY <1>2, <2>1, <2>5, <3>1 DEF ReadingWasTrue, HasDefaultRoute
  <2>8. StableWifiIsFound'
    <3>1. SUFFICES ASSUME NEW q \in seen.steady \ (query.broken \cup b), IsWifi(active[q].conn),
                          seen.lead = q, NoPath \notin query.broken \cup b
                   PROVE /\ query'.wifi.conn = active[q].conn /\ query'.wifi.route
      BY <2>1, <2>5 DEF StableWifiIsFound, IsWifi
    <3>2. p = q /\ b = {}
      BY <1>2, <1>5, <3>1
    <3>3. query.lead = q
      BY <1>1, <2>6, <3>1, NamesAssumption DEF QueryInv, LeadInv, Activated
    <3> QED BY <1>2, <2>1, <2>2, <2>6, <3>1, <3>2, <3>3 DEF HasDefaultRoute
  <2> QED
    BY <2>1, <2>4, <2>7, <2>8, WhenAnswered DEF SavedListIsRight, NetworkIsReused, Answers
<1> QED BY <1>3, <1>4, <1>5 DEF Details

\* Nothing is left to look at, so nothing had to be found.
LEMMA NotFoundKeeps ==
    ASSUME QueryInv, NotFound
    PROVE  QueryInv'
<1>1. /\ query.step = "examine" /\ query.todo = {} /\ query \in Queries
      /\ query'.step = "none" /\ query'.broken = query.broken /\ UNCHANGED <<nmVars, seen>>
  BY DEF NotFound, Step, QueryInv, TypeOK, Queries
<1>2. TypeOK' /\ ObjectsInv'
  BY <1>1, OnlyTheQuery DEF NotFound, Step, TypeOK, Queries, Answers
<1>3. StableWifiIsFound'
  BY <1>1, OnlyTheQuery DEF QueryInv, TodoInv, StableWifiIsFound, IsWifi
<1> QED
  BY <1>1, <1>2, <1>3, WhenAnswered DEF ReadingWasTrue, SavedListIsRight, NetworkIsReused, Answers

-----------------------------------------------------------------------------
(* saved_wifi_connections *)

LEMMA SavedWifiConnectionsKeeps ==
    ASSUME QueryInv, SavedWifiConnections
    PROVE  QueryInv'
<1>1. /\ query' = [NoQuery EXCEPT !.step = "saved"] /\ UNCHANGED nmVars
      /\ seen' = [NoHistory EXCEPT !.listed = Listed, !.kept = Saved, !.up = ActiveConns]
  BY DEF SavedWifiConnections, Start
<1>2. Listed \in SUBSET Paths /\ Saved \in SUBSET Conns /\ ActiveConns \in SUBSET Conns
  BY DEF QueryInv, ObjectsInv, Listed, Saved, ActiveConns
<1>3. /\ query'.step = "saved" /\ query'.broken = {} /\ query'.index = {} /\ query'.todo = {}
      /\ query'.rows = {}
      /\ seen'.listed = Listed /\ seen'.kept = Saved /\ seen'.up = ActiveConns
  BY <1>1 DEF NoQuery, NoHistory
<1>4. TypeOK' /\ ObjectsInv'
  <2>1. query' \in Queries
    BY <1>1 DEF NoQuery, Queries, NoWifi, Wifis, Running, SavedSteps
  <2>2. seen' \in Histories
    BY <1>1, <1>2 DEF NoHistory, Histories
  <2> QED
    BY <1>1, <2>1, <2>2 DEF QueryInv, TypeOK, NmTypeOK, ObjectsInv, nmVars, Listed
<1>5. BlankInv' /\ SavedInv' /\ IndexInv' /\ RowsInv'
  BY <1>1, <1>3 DEF BlankInv, SavedInv, IndexInv, RowsInv, nmVars, Listed, Saved, ActiveConns
<1> QED BY <1>3, <1>4, <1>5, WhileSaved DEF SavedSteps

LEMMA ListSavedKeeps ==
    ASSUME QueryInv, ListSaved
    PROVE  QueryInv'
<1>1. CASE Step("error")
  BY <1>1, AnErrorKeeps DEF ListSaved
<1>2. CASE query' = [query EXCEPT !.step = "index", !.conns = Saved]
  <2>1. query.step = "saved" /\ UNCHANGED <<nmVars, seen>> /\ query \in Queries
    BY DEF ListSaved, QueryInv, TypeOK
  <2>2. /\ query'.step = "index" /\ query'.conns = Saved /\ query'.broken = query.broken
        /\ query'.index = query.index /\ query'.todo = query.todo /\ query'.rows = query.rows
    BY <1>2, <2>1 DEF Queries
  <2>3. Saved \in SUBSET Conns
    BY DEF Saved
  <2>4. TypeOK' /\ ObjectsInv'
    BY <1>2, <2>1, <2>3, OnlyTheQuery DEF TypeOK, Queries, Running, SavedSteps
  <2>5. BlankInv' /\ SavedInv' /\ IndexInv' /\ RowsInv'
    BY <2>1, <2>2, OnlyTheQuery DEF QueryInv, BlankInv, SavedInv, IndexInv, RowsInv, SavedSteps
  <2> QED BY <2>2, <2>4, <2>5, WhileSaved DEF SavedSteps
<1> QED BY <1>1, <1>2 DEF ListSaved

LEMMA ReadIndexKeeps ==
    ASSUME QueryInv, ReadIndex
    PROVE  QueryInv'
<1>1. query.step = "index" /\ UNCHANGED <<nmVars, seen>> /\ query \in Queries
  BY DEF ReadIndex, QueryInv, TypeOK
<1>2. CASE query' = [query EXCEPT !.step = "indexing", !.todo = Listed]
  <2>1. /\ query'.step = "indexing" /\ query'.todo = Listed /\ query'.broken = query.broken
        /\ query'.index = query.index /\ query'.conns = query.conns /\ query'.rows = query.rows
    BY <1>1, <1>2 DEF Queries
  <2>2. Listed \in SUBSET Paths
    BY DEF Listed
  <2>3. TypeOK' /\ ObjectsInv'
    BY <1>1, <1>2, <2>2, OnlyTheQuery DEF TypeOK, Queries, Running, SavedSteps
  <2>4. BlankInv' /\ SavedInv' /\ IndexInv' /\ RowsInv'
    BY <1>1, <2>1, OnlyTheQuery DEF QueryInv, BlankInv, SavedInv, IndexInv, RowsInv, SavedSteps,
       IsWifi
  <2> QED BY <2>1, <2>3, <2>4, WhileSaved DEF SavedSteps
<1>3. CASE query' = [query EXCEPT !.step = "settings", !.broken = {NoPath}]
  <2>1. /\ query'.step = "settings" /\ query'.todo = query.todo /\ query'.broken = {NoPath}
        /\ query'.index = query.index /\ query'.conns = query.conns /\ query'.rows = query.rows
    BY <1>1, <1>3 DEF Queries
  <2>2. query.broken = {} /\ query.todo = {} /\ query.rows = {}
    BY <1>1 DEF QueryInv, BlankInv, IndexInv, RowsInv, SavedSteps
  <2>3. TypeOK' /\ ObjectsInv'
    BY <1>1, <1>3, OnlyTheQuery DEF TypeOK, Queries, Running, SavedSteps
  <2>4. BlankInv' /\ SavedInv' /\ IndexInv' /\ RowsInv'
    BY <1>1, <2>1, <2>2, OnlyTheQuery
       DEF QueryInv, BlankInv, SavedInv, IndexInv, RowsInv, SavedSteps, IsWifi
  <2> QED BY <2>1, <2>3, <2>4, WhileSaved DEF SavedSteps
<1> QED BY <1>2, <1>3 DEF ReadIndex

LEMMA IndexOneKeeps ==
    ASSUME QueryInv, NEW p \in Paths, IndexOne(p)
    PROVE  QueryInv'
<1>1. query.step = "indexing" /\ UNCHANGED <<nmVars, seen>> /\ query \in Queries /\ p \in query.todo
  BY DEF IndexOne, QueryInv, TypeOK
<1> DEFINE more == IF p \in Listed THEN {active[p].conn} ELSE {}
<1>2. PICK b \in SUBSET {p}, c \in SUBSET more :
        /\ query' = [query EXCEPT !.todo = @ \ {p}, !.broken = @ \cup b, !.index = @ \cup c]
        /\ b = {} => c = more
  <2>1. CASE query' = Indexed(p)
    <3>1. query' = [query EXCEPT !.todo = @ \ {p}, !.broken = @ \cup {}, !.index = @ \cup more]
      BY <1>1, <2>1 DEF Indexed, Queries
    <3> QED BY <3>1
  <2>2. CASE query' = [query EXCEPT !.todo = @ \ {p}, !.broken = @ \cup {p}]
    <3>1. query' = [query EXCEPT !.todo = @ \ {p}, !.broken = @ \cup {p}, !.index = @ \cup {}]
      BY <1>1, <2>2 DEF Queries
    <3> QED BY <3>1
  <2> QED BY <2>1, <2>2 DEF IndexOne
<1>3. /\ query'.step = "indexing" /\ query'.todo = query.todo \ {p}
      /\ query'.broken = query.broken \cup b /\ query'.index = query.index \cup c
      /\ query'.conns = query.conns /\ query'.rows = query.rows
  BY <1>1, <1>2 DEF Queries
<1>4. c \subseteq seen.up /\ c \subseteq Conns
  BY <1>1 DEF QueryInv, ObjectsInv, SavedInv, SavedSteps, ActiveConns
<1>5. TypeOK' /\ ObjectsInv'
  <2>1. /\ query.todo \ {p} \in SUBSET Paths /\ query.index \cup c \in SUBSET Conns
        /\ query.broken \cup b \in SUBSET (Paths \cup Conns \cup {NoPath})
    BY <1>1, <1>4 DEF Queries
  <2> QED BY <1>1, <1>2, <2>1, OnlyTheQuery DEF TypeOK, Queries
<1>6. BlankInv' /\ SavedInv'
  BY <1>1, <1>3, OnlyTheQuery DEF QueryInv, BlankInv, SavedInv, SavedSteps
<1>7. IndexInv'
  <2>1. query.index \subseteq seen.up /\ seen.listed \subseteq Listed
    BY <1>1 DEF QueryInv, IndexInv, SavedInv, SavedSteps
  <2>2. ASSUME NoPath \notin query'.broken, NEW q \in seen.listed \ query'.broken
        PROVE active[q].conn \in query'.index \/ q \in query'.todo
    <3>1. active[q].conn \in query.index \/ q \in query.todo
      BY <1>1, <1>3, <2>2 DEF QueryInv, IndexInv, SavedSteps
    <3>2. q = p => active[q].conn \in query'.index
      BY <1>2, <1>3, <2>1, <2>2
    <3> QED BY <1>3, <3>1, <3>2
  <2> QED
    BY <1>1, <1>3, <1>4, <2>1, <2>2, OnlyTheQuery DEF IndexInv
<1>8. RowsInv'
  BY <1>1, <1>3, OnlyTheQuery DEF QueryInv, RowsInv, SavedSteps, IsWifi
<1> QED BY <1>3, <1>5, <1>6, <1>7, <1>8, WhileSaved DEF SavedSteps

LEMMA IndexDoneKeeps ==
    ASSUME QueryInv, IndexDone
    PROVE  QueryInv'
<1>1. /\ query.step = "indexing" /\ query.todo = {} /\ query \in Queries
      /\ UNCHANGED <<nmVars, seen>>
      /\ query'.step = "settings" /\ query'.todo = query.todo /\ query'.broken = query.broken
      /\ query'.index = query.index /\ query'.conns = query.conns /\ query'.rows = query.rows
  BY DEF IndexDone, Step, QueryInv, TypeOK, Queries
<1>2. TypeOK' /\ ObjectsInv'
  BY <1>1, OnlyTheQuery DEF IndexDone, Step, TypeOK, Queries, Running, SavedSteps
<1>3. BlankInv' /\ SavedInv' /\ IndexInv' /\ RowsInv'
  BY <1>1, OnlyTheQuery DEF QueryInv, BlankInv, SavedInv, IndexInv, RowsInv, SavedSteps, IsWifi
<1> QED BY <1>1, <1>2, <1>3, WhileSaved DEF SavedSteps

LEMMA ReadSettingsKeeps ==
    ASSUME QueryInv, NEW c \in Conns, ReadSettings(c)
    PROVE  QueryInv'
<1>1. /\ query.step = "settings" /\ UNCHANGED <<nmVars, seen>>
      /\ query \in Queries /\ c \in query.conns
  BY DEF ReadSettings, QueryInv, TypeOK
<1> DEFINE more == IF IsWifi(c) THEN {[conn |-> c, up |-> c \in query.index]} ELSE {}
<1>2. PICK b \in SUBSET {c}, new \in SUBSET more :
        /\ query' = [query EXCEPT !.conns = @ \ {c}, !.rows = @ \cup new, !.broken = @ \cup b]
        /\ b = {} => new = more
  <2>1. CASE query' = [query EXCEPT !.conns = @ \ {c}, !.rows = @ \cup more]
    <3>1. query' = [query EXCEPT !.conns = @ \ {c}, !.rows = @ \cup more, !.broken = @ \cup {}]
      BY <1>1, <2>1 DEF Queries
    <3> QED BY <3>1
  <2>2. CASE query' = [query EXCEPT !.conns = @ \ {c}, !.broken = @ \cup {c}]
    <3>1. query' = [query EXCEPT !.conns = @ \ {c}, !.rows = @ \cup {}, !.broken = @ \cup {c}]
      BY <1>1, <2>2 DEF Queries
    <3> QED BY <3>1
  <2> QED BY <2>1, <2>2 DEF ReadSettings
<1>3. /\ query'.step = "settings" /\ query'.conns = query.conns \ {c}
      /\ query'.broken = query.broken \cup b /\ query'.rows = query.rows \cup new
      /\ query'.index = query.index /\ query'.todo = query.todo
  BY <1>1, <1>2 DEF Queries
<1> DEFINE r == [conn |-> c, up |-> c \in query.index]
<1>4. r \in Rows /\ r.conn = c /\ (r.up <=> c \in query.index)
  <2>1. CASE c \in query.index
    <3>1. r = [conn |-> c, up |-> TRUE]
      BY <2>1
    <3> QED BY <2>1, <3>1 DEF Rows
  <2>2. CASE c \notin query.index
    <3>1. (c \in query.index) = FALSE
      BY <2>2
    <3>2. r = [conn |-> c, up |-> FALSE]
      BY <3>1
    <3> QED BY <2>2, <3>2 DEF Rows
  <2> QED BY <2>1, <2>2
<1>5. /\ \A row \in new : row = r
      /\ b = {} /\ IsWifi(c) => r \in new
  BY <1>2
<1> HIDE DEF r
<1>6. TypeOK' /\ ObjectsInv'
  <2>1. new \subseteq Rows
    BY <1>4, <1>5
  <2>2. /\ query.conns \ {c} \in SUBSET Conns /\ query.rows \cup new \in SUBSET Rows
        /\ query.broken \cup b \in SUBSET (Paths \cup Conns \cup {NoPath})
    BY <1>1, <2>1 DEF Queries
  <2> QED BY <1>1, <1>2, <2>2, OnlyTheQuery DEF TypeOK, Queries
<1>7. BlankInv' /\ SavedInv' /\ IndexInv'
  BY <1>1, <1>3, OnlyTheQuery DEF QueryInv, BlankInv, SavedInv, IndexInv, SavedSteps
<1>8. RowsInv'
  <2>1. \A row \in query'.rows : row.up <=> row.conn \in query.index
    BY <1>1, <1>3, <1>4, <1>5 DEF QueryInv, RowsInv, SavedSteps
  <2>2. ASSUME NEW d \in seen.kept \ query'.broken, IsWifi(d)
        PROVE d \in query'.conns \/ \E row \in query'.rows : row.conn = d
    <3>1. d \in query.conns \/ \E row \in query.rows : row.conn = d
      BY <1>1, <1>3, <2>2 DEF QueryInv, RowsInv, SavedSteps
    <3>2. CASE d = c
      BY <1>3, <1>4, <1>5, <2>2, <3>2
    <3>3. CASE d # c
      BY <1>3, <3>1, <3>3
    <3> QED BY <3>2, <3>3
  <2> QED
    BY <1>1, <1>3, <2>1, <2>2, OnlyTheQuery DEF RowsInv, IsWifi
<1> QED BY <1>3, <1>6, <1>7, <1>8, WhileSaved DEF SavedSteps

\* Every connection is listed that had to be, and the index was complete.
LEMMA SavedListedKeeps ==
    ASSUME QueryInv, SavedListed
    PROVE  QueryInv'
<1>1. /\ query.step = "settings" /\ query.conns = {} /\ query \in Queries
      /\ UNCHANGED <<nmVars, seen>>
      /\ query'.step = "rows" /\ query'.broken = query.broken /\ query'.rows = query.rows
  BY DEF SavedListed, Step, QueryInv, TypeOK, Queries
<1>2. TypeOK' /\ ObjectsInv'
  BY <1>1, OnlyTheQuery DEF SavedListed, Step, TypeOK, Queries, Answers
<1>3. SavedListIsRight'
  <2>1. SUFFICES ASSUME NEW c \in seen.kept \ query.broken, IsWifi(c)
                 PROVE /\ \E row \in query.rows : row.conn = c
                       /\ \A row \in query.rows : row.conn = c =>
                            /\ row.up => c \in seen.up
                            /\ \A p \in seen.listed \ query.broken :
                                  active[p].conn = c /\ NoPath \notin query.broken => row.up
    BY <1>1, OnlyTheQuery DEF SavedListIsRight, IsWifi
  <2>2. \E row \in query.rows : row.conn = c
    BY <1>1, <2>1 DEF QueryInv, RowsInv, SavedSteps
  <2>3. \A row \in query.rows : row.up <=> row.conn \in query.index
    BY <1>1 DEF QueryInv, RowsInv, SavedSteps
  <2>4. /\ query.index \subseteq seen.up
        /\ NoPath \notin query.broken =>
              \A p \in seen.listed \ query.broken : active[p].conn \in query.index
    BY <1>1 DEF QueryInv, IndexInv, SavedSteps
  <2> QED BY <2>2, <2>3, <2>4
<1> QED
  BY <1>1, <1>2, <1>3, WhenAnswered DEF ReadingWasTrue, StableWifiIsFound, NetworkIsReused, Answers

-----------------------------------------------------------------------------
(* connect_wifi *)

LEMMA ConnectWifiKeeps ==
    ASSUME QueryInv, NEW ssid \in Ssids, ConnectWifi(ssid)
    PROVE  QueryInv'
<1>1. /\ query' = [NoQuery EXCEPT !.step = "list", !.wifi.ssid = ssid] /\ UNCHANGED nmVars
      /\ seen' = [NoHistory EXCEPT !.kept = Saved]
  BY DEF ConnectWifi
<1>2. query' = [NoQuery EXCEPT !.step = "list", !.wifi = [NoWifi EXCEPT !.ssid = ssid]]
  BY <1>1 DEF NoQuery
<1>3. /\ query'.step = "list" /\ query'.wifi.ssid = ssid
      /\ seen'.kept = Saved /\ Saved \in SUBSET Conns
  BY <1>1 DEF NoQuery, NoWifi, NoHistory, Saved
<1>4. TypeOK' /\ ObjectsInv'
  <2>1. [NoWifi EXCEPT !.ssid = ssid] \in Wifis
    BY DEF NoWifi, Wifis
  <2>2. query' \in Queries
    BY <1>2, <2>1 DEF NoQuery, Queries, Running, ConnectSteps
  <2>3. seen' \in Histories
    BY <1>1, <1>3 DEF NoHistory, Histories
  <2> QED
    BY <1>1, <2>2, <2>3 DEF QueryInv, TypeOK, NmTypeOK, ObjectsInv, nmVars, Listed
<1>5. ConnectInv'
  BY <1>1, <1>3 DEF ConnectInv, nmVars, Saved
<1> QED BY <1>3, <1>4, <1>5, WhileConnect DEF ConnectSteps

LEMMA ConnectListKeeps ==
    ASSUME QueryInv, ConnectList
    PROVE  QueryInv'
<1>1. /\ query.step = "list" /\ query \in Queries /\ UNCHANGED <<nmVars, seen>>
      /\ query' = [query EXCEPT !.step = "look", !.conns = Saved]
      /\ query'.step = "look" /\ query'.conns = Saved /\ query'.wifi = query.wifi
  BY DEF ConnectList, QueryInv, TypeOK, Queries
<1>2. Saved \in SUBSET Conns
  BY DEF Saved
<1>3. TypeOK' /\ ObjectsInv'
  BY <1>1, <1>2, OnlyTheQuery DEF TypeOK, Queries, Running, ConnectSteps
<1>4. ConnectInv'
  BY <1>1, OnlyTheQuery DEF QueryInv, ConnectInv, ConnectSteps
<1> QED BY <1>1, <1>3, <1>4, WhileConnect DEF ConnectSteps

\* Only a connection for another network, or an unreadable one, is passed over.
LEMMA ConnectLookKeeps ==
    ASSUME QueryInv, NEW c \in Conns, ConnectLook(c)
    PROVE  QueryInv'
<1>1. query.step = "look" /\ query \in Queries /\ UNCHANGED <<nmVars, seen>>
  BY DEF ConnectLook, QueryInv, TypeOK
<1>2. CASE query' = [query EXCEPT !.step = "reuse", !.wifi.conn = c]
  <2>1. query'.step = "reuse" /\ query'.wifi.ssid = query.wifi.ssid
    BY <1>1, <1>2 DEF Queries, Wifis
  <2>2. [query.wifi EXCEPT !.conn = c] \in Wifis
    BY <1>1 DEF Queries, Wifis
  <2>3. query' = [query EXCEPT !.step = "reuse", !.wifi = [query.wifi EXCEPT !.conn = c]]
    BY <1>2
  <2>4. TypeOK' /\ ObjectsInv'
    BY <1>1, <2>2, <2>3, OnlyTheQuery DEF TypeOK, Queries, Running, ConnectSteps
  <2>5. ConnectInv'
    BY <1>1, <2>1, OnlyTheQuery DEF QueryInv, ConnectInv, ConnectSteps
  <2> QED BY <2>1, <2>4, <2>5, WhileConnect DEF ConnectSteps
<1>3. CASE ~(Matches(c) /\ query' = [query EXCEPT !.step = "reuse", !.wifi.conn = c])
  <2>1. PICK b \in SUBSET {c} : /\ query' = [query EXCEPT !.conns = @ \ {c}, !.broken = @ \cup b]
                                /\ b = {} => ~Matches(c)
    <3>1. CASE ~Matches(c) /\ query' = [query EXCEPT !.conns = @ \ {c}]
      <4>1. query' = [query EXCEPT !.conns = @ \ {c}, !.broken = @ \cup {}]
        BY <1>1, <3>1 DEF Queries
      <4>2. {} \in SUBSET {c} /\ ~Matches(c)
        BY <3>1
      <4> QED BY <4>1, <4>2, Zenon
    <3>2. CASE query' = [query EXCEPT !.conns = @ \ {c}, !.broken = @ \cup {c}]
      <4>1. {c} \in SUBSET {c} /\ {c} # {}
        OBVIOUS
      <4> QED BY <3>2, <4>1
    <3> QED BY <1>3, <3>1, <3>2 DEF ConnectLook
  <2>2. /\ query'.step = "look" /\ query'.conns = query.conns \ {c} /\ query'.wifi = query.wifi
        /\ query'.broken = query.broken \cup b
    BY <1>1, <2>1 DEF Queries
  <2>3. /\ query.conns \ {c} \in SUBSET Conns
        /\ query.broken \cup b \in SUBSET (Paths \cup Conns \cup {NoPath})
    BY <1>1 DEF Queries
  <2>4. TypeOK' /\ ObjectsInv'
    BY <1>1, <2>1, <2>3, OnlyTheQuery DEF TypeOK, Queries
  <2>5. ConnectInv'
    BY <1>1, <2>1, <2>2, OnlyTheQuery DEF QueryInv, ConnectInv, ConnectSteps, Matches
  <2> QED BY <2>2, <2>4, <2>5, WhileConnect DEF ConnectSteps
<1> QED BY <1>2, <1>3

\* What ActivateConnection and AddAndActivateConnection do to NetworkManager is one of the
\* things it may do anyway.
LEMMA AskedFor ==
    ASSUME QueryInv, UNCHANGED seen, NEW s \in {"reused", "added"}, Step(s), NmNext,
           NetworkIsReused'
    PROVE  QueryInv'
<1>1. NmTypeOK' /\ ObjectsInv'
  BY NetworkChanges DEF QueryInv, TypeOK
<1>2. query' \in Queries /\ query'.step = s /\ seen' \in Histories
  BY DEF Step, QueryInv, TypeOK, Queries, Answers
<1> QED
  BY <1>1, <1>2, WhenAnswered DEF TypeOK, ReadingWasTrue, StableWifiIsFound, SavedListIsRight,
     Answers

LEMMA ConnectReuseKeeps ==
    ASSUME QueryInv, ConnectReuse
    PROVE  QueryInv'
<1>1. NmNext
  BY DEF ConnectReuse, NmNext, Activate, Saved
<1>2. query'.step = "reused"
  BY DEF ConnectReuse, Step, QueryInv, TypeOK, Queries
<1> QED BY <1>1, <1>2, AskedFor DEF ConnectReuse, NetworkIsReused

\* All connections were looked at, and none that was there all the time was for the network.
LEMMA ConnectNewKeeps ==
    ASSUME QueryInv, ConnectNew
    PROVE  QueryInv'
<1>1. /\ query.step = "look" /\ query.conns = {} /\ query \in Queries /\ seen' = seen
      /\ query'.step = "added" /\ query'.wifi = query.wifi /\ query'.broken = query.broken
  BY DEF ConnectNew, Step, QueryInv, TypeOK, Queries
<1>2. PICK c \in NewConns, p \in NewPaths : AddAndActivate(c, query.wifi.ssid, p)
  BY DEF ConnectNew
<1>3. \A d \in Saved : saved'[d] = saved[d]
  BY <1>2 DEF AddAndActivate, Saved, QueryInv, TypeOK, NmTypeOK
<1>4. seen.kept \subseteq Saved
      /\ \A d \in seen.kept \ query.broken : saved[d] # query.wifi.ssid
  BY <1>1 DEF QueryInv, ConnectInv, ConnectSteps
<1>5. NetworkIsReused'
  BY <1>1, <1>3, <1>4 DEF NetworkIsReused
<1>6. query.wifi.ssid \in Ssids
  BY <1>1 DEF QueryInv, ConnectInv, ConnectSteps
<1>7. NmNext
  BY <1>2, <1>6 DEF NmNext
<1> QED BY <1>1, <1>5, <1>7, AskedFor DEF ConnectNew

-----------------------------------------------------------------------------

\* The next query starts from nothing.
LEMMA TakenKeeps ==
    ASSUME QueryInv, Taken
    PROVE  QueryInv'
<1>1. query' = NoQuery /\ seen' = NoHistory /\ query'.step = "idle" /\ UNCHANGED nmVars
  BY DEF Taken, NoQuery
<1>2. query' \in Queries /\ seen' \in Histories
  BY <1>1 DEF NoQuery, Queries, NoWifi, Wifis, NoHistory, Histories
<1>3. TypeOK' /\ ObjectsInv'
  BY <1>1, <1>2 DEF QueryInv, TypeOK, NmTypeOK, ObjectsInv, nmVars, Listed
<1> QED
  BY <1>1, <1>3, WhenAnswered DEF ReadingWasTrue, StableWifiIsFound, SavedListIsRight,
     NetworkIsReused

LEMMA InitHolds == Init => QueryInv
<1>1. SUFFICES ASSUME Init PROVE QueryInv
  OBVIOUS
<1>2. query = NoQuery /\ seen = NoHistory /\ NmInit
  BY <1>1 DEF Init
<1>3. query \in Queries /\ seen \in Histories /\ query.step = "idle"
  BY <1>2 DEF NoQuery, Queries, NoWifi, Wifis, NoHistory, Histories
<1>4. NmTypeOK /\ ObjectsInv
  BY <1>2 DEF NmInit, NmTypeOK, ObjectsInv, Objects, NoObject, Listed
<1> QED
  BY <1>3, <1>4 DEF QueryInv, TypeOK, WifiInv, LeadInv, TodoInv, DetailsInv, BlankInv, SavedInv,
     IndexInv,
     RowsInv, ConnectInv, WifiSteps, SavedSteps, ConnectSteps, ReadingWasTrue, StableWifiIsFound,
     SavedListIsRight, NetworkIsReused

LEMMA StepKeeps == QueryInv /\ [Next]_vars => QueryInv'
<1>1. SUFFICES ASSUME QueryInv, [Next]_vars PROVE QueryInv'
  OBVIOUS
<1>2. CASE Network
  BY <1>1, <1>2, NetworkKeeps
<1>3. CASE Taken
  BY <1>1, <1>3, TakenKeeps
<1>4. CASE QueryWifi
  BY <1>1, <1>4, ActiveWifiKeeps, ReadPrimaryKeeps, ReadActivesKeeps, ExamineKeeps, DetailsKeeps,
     NotFoundKeeps DEF QueryWifi
<1>5. CASE QuerySaved
  BY <1>1, <1>5, SavedWifiConnectionsKeeps, ListSavedKeeps, ReadIndexKeeps, IndexOneKeeps,
     IndexDoneKeeps, ReadSettingsKeeps, SavedListedKeeps DEF QuerySaved
<1>6. CASE Connect
  BY <1>1, <1>6, ConnectWifiKeeps, AnErrorKeeps, ConnectListKeeps, ConnectLookKeeps,
     ConnectReuseKeeps, ConnectNewKeeps DEF Connect, ConnectFails
<1>7. CASE UNCHANGED vars
  <2>1. /\ saved' = saved /\ active' = active /\ primary' = primary
        /\ query' = query /\ seen' = seen
    BY <1>7 DEF vars
  <2> QED
    BY <1>1, <2>1 DEF QueryInv, TypeOK, NmTypeOK, ObjectsInv, WifiInv, LeadInv, TodoInv, DetailsInv,
       BlankInv, SavedInv, IndexInv, RowsInv, ConnectInv, ReadingWasTrue, StableWifiIsFound,
       SavedListIsRight, NetworkIsReused, Activated, ActivatedConns, Primaries, Listed, Saved,
       ActiveConns, IsWifi
<1> QED BY <1>1, <1>2, <1>3, <1>4, <1>5, <1>6, <1>7 DEF Next

-----------------------------------------------------------------------------
(* Theorems. *)

\* What a query knows follows from what was so when it read it.
THEOREM QueryInvariance == Spec => []QueryInv
BY InitHolds, StepKeeps, PTL DEF Spec

\* The variables keep their types.
THEOREM TypeCorrect == Spec => []TypeOK
<1>1. QueryInv => TypeOK
  BY DEF QueryInv
<1> QED BY <1>1, QueryInvariance, PTL

\* What active_wifi answers was so at some instant of the query.
THEOREM ReadingCorrect == Spec => []ReadingWasTrue
<1>1. QueryInv => ReadingWasTrue
  BY DEF QueryInv
<1> QED BY <1>1, QueryInvariance, PTL

\* active_wifi does not overlook a Wi-Fi that was up all the time, nor prefer another one to
\* the connection that carried the default route all the time.
THEOREM StableWifiCorrect == Spec => []StableWifiIsFound
<1>1. QueryInv => StableWifiIsFound
  BY DEF QueryInv
<1> QED BY <1>1, QueryInvariance, PTL

\* saved_wifi_connections is right about every connection that kept still.
THEOREM SavedListCorrect == Spec => []SavedListIsRight
<1>1. QueryInv => SavedListIsRight
  BY DEF QueryInv
<1> QED BY <1>1, QueryInvariance, PTL

\* connect_wifi makes no second connection for a network.
THEOREM ReuseCorrect == Spec => []NetworkIsReused
<1>1. QueryInv => NetworkIsReused
  BY DEF QueryInv
<1> QED BY <1>1, QueryInvariance, PTL

-----------------------------------------------------------------------------
(* How long a method has to run. *)

AllPaths == Cardinality(Paths)
AllConns == Cardinality(Conns)

\* At most so many calls before the answer: what a list may hold before it is read, what is
\* left of it afterwards.
CallsLeft ==
    CASE query.step = "primary"  -> 2 * AllPaths + 4
      [] query.step = "actives"  -> 2 * AllPaths + 3
      [] query.step = "examine"  -> 2 * Cardinality(query.todo) + 2
      [] query.step = "details"  -> 2 * Cardinality(query.todo) + 1
      [] query.step = "saved"    -> AllPaths + AllConns + 5
      [] query.step = "index"    -> AllPaths + Cardinality(query.conns) + 4
      [] query.step = "indexing" -> Cardinality(query.todo) + Cardinality(query.conns) + 3
      [] query.step = "settings" -> Cardinality(query.conns) + 1
      [] query.step = "list"     -> AllConns + 3
      [] query.step = "look"     -> Cardinality(query.conns) + 2
      [] query.step = "reuse"    -> 1
      [] OTHER                   -> 0

\* The object at hand is still to be ticked off.
AtInv == query.step = "details" => query.at \in query.todo

\* A method stands where it is, or comes nearer to its answer.
MethodNearer == query.step \in Running => query' = query \/ CallsLeft' < CallsLeft

\* What a list may hold, and what it holds after one of its members.
LEMMA ListsAreFinite ==
    ASSUME IsFiniteSet(Paths), IsFiniteSet(Conns)
    PROVE  /\ AllPaths \in Nat /\ AllConns \in Nat
           /\ \A S \in SUBSET Paths : /\ Cardinality(S) \in Nat /\ Cardinality(S) <= AllPaths
                                      /\ \A p \in S : Cardinality(S \ {p}) = Cardinality(S) - 1
           /\ \A S \in SUBSET Conns : /\ Cardinality(S) \in Nat /\ Cardinality(S) <= AllConns
                                      /\ \A c \in S : Cardinality(S \ {c}) = Cardinality(S) - 1
<1>1. ASSUME NEW T, IsFiniteSet(T), NEW S \in SUBSET T
      PROVE  /\ Cardinality(S) \in Nat /\ Cardinality(S) <= Cardinality(T)
             /\ \A x \in S : Cardinality(S \ {x}) = Cardinality(S) - 1
  <2>1. IsFiniteSet(S) /\ Cardinality(S) <= Cardinality(T)
    BY <1>1, FS_Subset
  <2> QED BY <2>1, FS_CardinalityType, FS_RemoveElement
<1> QED BY <1>1, FS_CardinalityType DEF AllPaths, AllConns

LEMMA WifiNears ==
    ASSUME IsFiniteSet(Paths), IsFiniteSet(Conns), TypeOK, TypeOK', AtInv,
           \/ ReadPrimary \/ ReadActives \/ (\E p \in Paths : Examine(p)) \/ Details \/ NotFound
    PROVE  CallsLeft' < CallsLeft /\ AtInv'
<1>1. /\ query \in Queries /\ query' \in Queries
      /\ query.todo \in SUBSET Paths /\ query'.todo \in SUBSET Paths
  BY DEF TypeOK, Queries
<1>2. CASE ReadPrimary
  <2>1. query.step = "primary" /\ query'.step = "actives"
    BY <1>1, <1>2 DEF ReadPrimary, Queries
  <2> QED BY <2>1, ListsAreFinite DEF CallsLeft, AtInv
<1>3. CASE ReadActives
  <2>1. query.step = "actives" /\ query'.step \in {"examine", "error"}
    BY <1>1, <1>3 DEF ReadActives, Step, Queries
  <2>2. Cardinality(query'.todo) \in Nat /\ Cardinality(query'.todo) <= AllPaths
    BY <1>1, ListsAreFinite
  <2> QED BY <2>1, <2>2, ListsAreFinite DEF CallsLeft, AtInv
<1>4. ASSUME NEW p \in query.todo, NEW broken, query.step \in {"examine", "details"},
             Skip(p, broken)
      PROVE  CallsLeft' < CallsLeft /\ AtInv'
  <2>1. query'.step = "examine" /\ query'.todo = query.todo \ {p}
    BY <1>1, <1>4 DEF Skip, Queries
  <2>2. /\ Cardinality(query.todo) \in Nat
        /\ Cardinality(query'.todo) = Cardinality(query.todo) - 1
    BY <1>1, <2>1, ListsAreFinite
  <2> QED BY <1>4, <2>1, <2>2 DEF CallsLeft, AtInv
<1>5. ASSUME NEW p \in Paths, Examine(p) PROVE CallsLeft' < CallsLeft /\ AtInv'
  <2>1. query.step = "examine" /\ p \in query.todo
    BY <1>5 DEF Examine, First
  <2>2. CASE \E broken \in SUBSET {p} : Skip(p, broken)
    BY <1>4, <2>1, <2>2
  <2>3. ASSUME query'.step = "details", query'.at = p, query'.todo = query.todo
        PROVE  CallsLeft' < CallsLeft /\ AtInv'
    BY <1>1, <2>1, <2>3, ListsAreFinite DEF CallsLeft, AtInv
  <2> QED BY <1>1, <1>5, <2>2, <2>3 DEF Examine, Queries
<1>6. CASE Details
  <2>1. query.step = "details" /\ query.at \in query.todo
    BY <1>6 DEF Details, AtInv
  <2>2. CASE \E broken \in SUBSET {query.at} : Skip(query.at, broken)
    BY <1>4, <2>1, <2>2
  <2>3. CASE query'.step = "some"
    BY <1>1, <2>1, <2>3, ListsAreFinite DEF CallsLeft, AtInv
  <2> QED BY <1>1, <1>6, <2>2, <2>3 DEF Details, Queries
<1>7. CASE NotFound
  <2>1. query.step = "examine" /\ query'.step = "none"
    BY <1>1, <1>7 DEF NotFound, Step, Queries
  <2> QED BY <1>1, <2>1, ListsAreFinite DEF CallsLeft, AtInv
<1> QED BY <1>2, <1>3, <1>5, <1>6, <1>7

LEMMA SavedNears ==
    ASSUME IsFiniteSet(Paths), IsFiniteSet(Conns), TypeOK, TypeOK',
           \/ ListSaved \/ ReadIndex \/ (\E p \in Paths : IndexOne(p)) \/ IndexDone
           \/ (\E c \in Conns : ReadSettings(c)) \/ SavedListed
    PROVE  CallsLeft' < CallsLeft /\ AtInv'
<1>1. /\ query \in Queries /\ query' \in Queries
      /\ query.todo \in SUBSET Paths /\ query'.todo \in SUBSET Paths
      /\ query.conns \in SUBSET Conns /\ query'.conns \in SUBSET Conns
  BY DEF TypeOK, Queries
<1>2. /\ Cardinality(query.todo) \in Nat /\ Cardinality(query.conns) \in Nat
      /\ Cardinality(query'.todo) \in Nat /\ Cardinality(query'.conns) \in Nat
      /\ Cardinality(query'.todo) <= AllPaths /\ Cardinality(query'.conns) <= AllConns
      /\ AllPaths \in Nat /\ AllConns \in Nat
  BY <1>1, ListsAreFinite
<1>3. CASE ListSaved
  <2>1. query.step = "saved" /\ query'.step \in {"index", "error"}
    BY <1>1, <1>3 DEF ListSaved, Step, Queries
  <2> QED BY <1>2, <2>1 DEF CallsLeft, AtInv
<1>4. CASE ReadIndex
  <2>1. /\ query.step = "index" /\ query'.step \in {"indexing", "settings"}
        /\ query'.conns = query.conns
    BY <1>1, <1>4 DEF ReadIndex, Queries
  <2> QED BY <1>2, <2>1 DEF CallsLeft, AtInv
<1>5. ASSUME NEW p \in Paths, IndexOne(p) PROVE CallsLeft' < CallsLeft /\ AtInv'
  <2>1. /\ query.step = "indexing" /\ query'.step = "indexing" /\ p \in query.todo
        /\ query'.todo = query.todo \ {p} /\ query'.conns = query.conns
    BY <1>1, <1>5 DEF IndexOne, Indexed, Queries
  <2>2. Cardinality(query'.todo) = Cardinality(query.todo) - 1
    BY <1>1, <2>1, ListsAreFinite
  <2> QED BY <1>2, <2>1, <2>2 DEF CallsLeft, AtInv
<1>6. CASE IndexDone
  <2>1. query.step = "indexing" /\ query'.step = "settings" /\ query'.conns = query.conns
    BY <1>1, <1>6 DEF IndexDone, Step, Queries
  <2> QED BY <1>2, <2>1 DEF CallsLeft, AtInv
<1>7. ASSUME NEW c \in Conns, ReadSettings(c) PROVE CallsLeft' < CallsLeft /\ AtInv'
  <2>1. /\ query.step = "settings" /\ query'.step = "settings" /\ c \in query.conns
        /\ query'.conns = query.conns \ {c}
    BY <1>1, <1>7 DEF ReadSettings, Queries
  <2>2. Cardinality(query'.conns) = Cardinality(query.conns) - 1
    BY <1>1, <2>1, ListsAreFinite
  <2> QED BY <1>2, <2>1, <2>2 DEF CallsLeft, AtInv
<1>8. CASE SavedListed
  <2>1. query.step = "settings" /\ query'.step = "rows"
    BY <1>1, <1>8 DEF SavedListed, Step, Queries
  <2> QED BY <1>2, <2>1 DEF CallsLeft, AtInv
<1> QED BY <1>3, <1>4, <1>5, <1>6, <1>7, <1>8

LEMMA ConnectNears ==
    ASSUME IsFiniteSet(Paths), IsFiniteSet(Conns), TypeOK, TypeOK',
           \/ ConnectFails \/ ConnectList \/ (\E c \in Conns : ConnectLook(c))
           \/ ConnectReuse \/ ConnectNew
    PROVE  CallsLeft' < CallsLeft /\ AtInv'
<1>1. /\ query \in Queries /\ query' \in Queries
      /\ query.conns \in SUBSET Conns /\ query'.conns \in SUBSET Conns
  BY DEF TypeOK, Queries
<1>2. /\ Cardinality(query.conns) \in Nat /\ Cardinality(query'.conns) \in Nat
      /\ Cardinality(query'.conns) <= AllConns /\ AllConns \in Nat
  BY <1>1, ListsAreFinite
<1>3. CASE ConnectFails \/ ConnectReuse \/ ConnectNew
  <2>1. /\ query.step \in {"list", "reuse", "look"}
        /\ query'.step \in {"error", "reused", "added"}
    BY <1>1, <1>3 DEF ConnectFails, ConnectReuse, ConnectNew, Step, Queries
  <2> QED BY <1>2, <2>1 DEF CallsLeft, AtInv
<1>4. CASE ConnectList
  <2>1. query.step = "list" /\ query'.step = "look"
    BY <1>1, <1>4 DEF ConnectList, Queries
  <2> QED BY <1>2, <2>1 DEF CallsLeft, AtInv
<1>5. ASSUME NEW c \in Conns, ConnectLook(c) PROVE CallsLeft' < CallsLeft /\ AtInv'
  <2>1. /\ query.step = "look" /\ c \in query.conns
        /\ \/ query'.step = "reuse"
           \/ query'.step = "look" /\ query'.conns = query.conns \ {c}
    BY <1>1, <1>5 DEF ConnectLook, Queries
  <2>2. query'.step = "look" => Cardinality(query'.conns) = Cardinality(query.conns) - 1
    BY <1>1, <2>1, ListsAreFinite
  <2> QED BY <1>2, <2>1, <2>2 DEF CallsLeft, AtInv
<1> QED BY <1>3, <1>4, <1>5

\* Every method of the client is over after a bounded number of its own calls, however
\* NetworkManager changes in the middle of it: a loop goes through the list it read, once.
THEOREM MethodsEnd ==
    ASSUME IsFiniteSet(Paths), IsFiniteSet(Conns)
    PROVE  Spec => [](CallsLeft \in 0 .. (2 * AllPaths + AllConns + 5)) /\ [][MethodNearer]_vars
<1>1. TypeOK => CallsLeft \in 0 .. (2 * AllPaths + AllConns + 5)
  <2>1. SUFFICES ASSUME TypeOK PROVE CallsLeft \in 0 .. (2 * AllPaths + AllConns + 5)
    OBVIOUS
  <2>2. query.todo \in SUBSET Paths /\ query.conns \in SUBSET Conns
    BY <2>1 DEF TypeOK, Queries
  <2>3. /\ Cardinality(query.todo) \in Nat /\ Cardinality(query.conns) \in Nat
        /\ Cardinality(query.todo) <= AllPaths /\ Cardinality(query.conns) <= AllConns
        /\ AllPaths \in Nat /\ AllConns \in Nat
    BY <2>2, ListsAreFinite
  <2>4. /\ query.step = "primary" => CallsLeft = 2 * AllPaths + 4
        /\ query.step = "actives" => CallsLeft = 2 * AllPaths + 3
        /\ query.step = "examine" => CallsLeft = 2 * Cardinality(query.todo) + 2
        /\ query.step = "details" => CallsLeft = 2 * Cardinality(query.todo) + 1
    BY DEF CallsLeft
  <2>5. /\ query.step = "saved" => CallsLeft = AllPaths + AllConns + 5
        /\ query.step = "index" => CallsLeft = AllPaths + Cardinality(query.conns) + 4
        /\ query.step = "indexing" =>
               CallsLeft = Cardinality(query.todo) + Cardinality(query.conns) + 3
        /\ query.step = "settings" => CallsLeft = Cardinality(query.conns) + 1
    BY DEF CallsLeft
  <2>6. /\ query.step = "list" => CallsLeft = AllConns + 3
        /\ query.step = "look" => CallsLeft = Cardinality(query.conns) + 2
        /\ query.step = "reuse" => CallsLeft = 1
        /\ query.step \notin Running => CallsLeft = 0
    BY DEF CallsLeft, Running, WifiSteps, SavedSteps, ConnectSteps
  <2> QED
    BY <2>3, <2>4, <2>5, <2>6 DEF Running, WifiSteps, SavedSteps, ConnectSteps
<1>2. Init => AtInv
  BY DEF Init, NoQuery, AtInv
<1>3. TypeOK /\ TypeOK' /\ AtInv /\ [Next]_vars => AtInv' /\ [MethodNearer]_vars
  <2>1. SUFFICES ASSUME TypeOK, TypeOK', AtInv, [Next]_vars PROVE AtInv' /\ MethodNearer
    OBVIOUS
  <2>2. CASE \/ ReadPrimary \/ ReadActives \/ (\E p \in Paths : Examine(p)) \/ Details \/ NotFound
    BY <2>1, <2>2, WifiNears DEF MethodNearer
  <2>3. CASE \/ ListSaved \/ ReadIndex \/ (\E p \in Paths : IndexOne(p)) \/ IndexDone
             \/ (\E c \in Conns : ReadSettings(c)) \/ SavedListed
    BY <2>1, <2>3, SavedNears DEF MethodNearer
  <2>4. CASE \/ ConnectFails \/ ConnectList \/ (\E c \in Conns : ConnectLook(c))
             \/ ConnectReuse \/ ConnectNew
    BY <2>1, <2>4, ConnectNears DEF MethodNearer
  <2>5. CASE ActiveWifi \/ SavedWifiConnections \/ \E ssid \in Ssids : ConnectWifi(ssid)
    <3>1. query.step = "idle" /\ query'.step \in {"primary", "saved", "list"}
      BY <2>5 DEF ActiveWifi, SavedWifiConnections, ConnectWifi, Start, NoQuery
    <3> QED BY <3>1 DEF AtInv, MethodNearer, Running, WifiSteps, SavedSteps, ConnectSteps
  <2>6. CASE Taken
    BY <2>6 DEF Taken, NoQuery, AtInv, MethodNearer, Answers, Running, WifiSteps, SavedSteps,
       ConnectSteps
  <2>7. CASE Network \/ UNCHANGED vars
    BY <2>1, <2>7 DEF Network, vars, AtInv, MethodNearer
  <2> QED BY <2>1, <2>2, <2>3, <2>4, <2>5, <2>6, <2>7 DEF Next, QueryWifi, QuerySaved, Connect
<1> QED BY <1>1, <1>2, <1>3, TypeCorrect, PTL DEF Spec
=============================================================================
