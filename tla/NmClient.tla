------------------------------ MODULE NmClient ------------------------------
(***************************************************************************)
(* NmClient (proxywifi-core/src/networkmanager.rs): active_wifi,           *)
(* saved_wifi_connections and connect_wifi, each a sequence of D-Bus calls *)
(* while NetworkManager changes, by itself or because somebody else asked  *)
(* it to.  Any call may fail, and an object may be gone when it is read.   *)
(*                                                                         *)
(* zbus caches the properties of one object together, so an object is read *)
(* at one instant; what hangs off it (the device, its access point and     *)
(* addresses) is read later.                                               *)
(***************************************************************************)
EXTENDS NetworkManager

CONSTANT NoSsid

ASSUME SsidAssumption == NoSsid \notin Ssids

VARIABLES
    query,  \* the method in progress, with its locals, or its answer
    seen    \* history: what NetworkManager was while it ran

vars == <<saved, active, primary, query, seen>>

Wifis  == [conn : Conns \cup {NoConn}, ssid : Ssids \cup {NoSsid}, route : BOOLEAN]
NoWifi == [conn |-> NoConn, ssid |-> NoSsid, route |-> FALSE]
Rows   == [conn : Conns, up : BOOLEAN]

WifiSteps    == {"primary", "actives", "examine", "details"}
SavedSteps   == {"saved", "index", "indexing", "settings"}
ConnectSteps == {"list", "look", "reuse"}
Running      == WifiSteps \cup SavedSteps \cup ConnectSteps
Answers      == {"some", "none", "rows", "reused", "added", "error"}

\* Locals: the primary connection read, the object at hand, objects and connections left
\* to look at, the index, and the result so far.  `broken' names the objects whose reads
\* failed (NoPath for the manager's own), a history too.
Queries == [step : Running \cup Answers \cup {"idle"},
            lead : Paths \cup {NoPath}, at : Paths \cup {NoPath},
            todo : SUBSET Paths, conns : SUBSET Conns, index : SUBSET Conns,
            wifi : Wifis, rows : SUBSET Rows, broken : SUBSET (Paths \cup Conns \cup {NoPath})]

NoQuery == [step |-> "idle", lead |-> NoPath, at |-> NoPath, todo |-> {}, conns |-> {},
            index |-> {}, wifi |-> NoWifi, rows |-> {}, broken |-> {}]

\* Throughout: activated objects, listed objects, the primary, saved connections.
\* At some instant: connections that were activated, primary, active at all.
Histories == [steady : SUBSET Paths, listed : SUBSET Paths, lead : Paths \cup {NoPath},
              kept : SUBSET Conns, was : SUBSET Conns, led : SUBSET Conns, up : SUBSET Conns]

NoHistory == [steady |-> {}, listed |-> {}, lead |-> NoPath,
              kept |-> {}, was |-> {}, led |-> {}, up |-> {}]

TypeOK == NmTypeOK /\ query \in Queries /\ seen \in Histories

Init == NmInit /\ query = NoQuery /\ seen = NoHistory

ActivatedConns == {active[p].conn : p \in Activated}
Primaries == IF primary = NoPath THEN {} ELSE {active[primary].conn}

\* Names for what is new: nobody has them in hand.
NewPaths == Paths \ (query.todo \cup {query.lead, query.at} \cup query.broken)
NewConns == Conns \ (query.conns \cup query.index \cup query.broken
                     \cup {query.wifi.conn} \cup {row.conn : row \in query.rows})

\* How a step of NetworkManager changes the history.
Observe ==
    \/ /\ query.step \in WifiSteps
       /\ seen' = [seen EXCEPT !.steady = @ \cap Activated', !.was = @ \cup ActivatedConns',
                               !.lead = IF primary' = @ THEN @ ELSE NoPath,
                               !.led  = @ \cup Primaries']
    \/ /\ query.step \in SavedSteps
       /\ seen' = [seen EXCEPT !.listed = @ \cap Listed', !.kept = @ \cap Saved',
                               !.up = @ \cup ActiveConns']
    \/ /\ query.step \notin WifiSteps \cup SavedSteps
       /\ seen' = [seen EXCEPT !.kept = @ \cap Saved']

\* The history starts with what there is.
Start(label, now) ==
    /\ query.step = "idle"
    /\ query' = [NoQuery EXCEPT !.step = label]
    /\ seen' = now
    /\ UNCHANGED nmVars

Step(label) == query' = [query EXCEPT !.step = label]

-----------------------------------------------------------------------------
(* active_wifi *)

ActiveWifi ==
    Start("primary", [NoHistory EXCEPT !.steady = Activated, !.was = ActivatedConns,
                                       !.lead = primary, !.led = Primaries])

\* A failure reads like no primary connection.
ReadPrimary ==
    /\ query.step = "primary"
    /\ \/ query' = [query EXCEPT !.step = "actives", !.lead = primary]
       \/ query' = [query EXCEPT !.step = "actives", !.broken = {NoPath}]
    /\ UNCHANGED <<nmVars, seen>>

ReadActives ==
    /\ query.step = "actives"
    /\ query' = [query EXCEPT !.step = "examine", !.todo = Listed] \/ Step("error")
    /\ UNCHANGED <<nmVars, seen>>

\* Mutant: in the order NetworkManager lists them.
MutFirst(todo, lead) == todo

\* The primary connection is looked at first, the others in any order.
First(todo, lead) == IF lead \in todo THEN {lead} ELSE todo

\* Of type Wi-Fi and activated, when it was looked at.
Found(p) == p \in Activated /\ IsWifi(active[p].conn)

Skip(p, broken) == query' = [query EXCEPT !.step = "examine", !.at = NoPath, !.todo = @ \ {p},
                                          !.wifi = NoWifi, !.broken = @ \cup broken]

Examine(p) ==
    /\ query.step = "examine" /\ p \in First(query.todo, query.lead)
    /\ \/ ~Found(p) /\ Skip(p, {})
       \/ Skip(p, {p})
       \/ /\ Found(p)
          /\ query' = [query EXCEPT !.step = "details", !.at = p,
                                    !.wifi.conn = active[p].conn]
    /\ UNCHANGED <<nmVars, seen>>

\* Mutant: some connection has the default route.
MutHasDefaultRoute(p) == query.lead # NoPath

HasDefaultRoute(p) == query.lead = p

\* What the device reports: the SSID of its own network, or none; anything once the
\* connection is gone, whose device may be on another network or on none.
Reported(p) ==
    IF p \in Activated THEN {saved[active[p].conn], NoSsid} ELSE Ssids \cup {NoSsid}

\* The uuid may still be unreadable, and is empty then; a device that is not there (any
\* more) makes the loop go on.
Details ==
    /\ query.step = "details"
    /\ LET p == query.at IN
       \/ p \notin Activated /\ Skip(p, {})
       \/ Skip(p, {p})
       \/ \E ssid \in Reported(p), broken \in SUBSET {p} :
             query' = [query EXCEPT
                 !.step = "some", !.broken = @ \cup broken,
                 !.wifi = [conn  |-> IF broken = {} THEN query.wifi.conn ELSE NoConn,
                           ssid  |-> ssid, route |-> HasDefaultRoute(p)]]
    /\ UNCHANGED <<nmVars, seen>>

NotFound ==
    /\ query.step = "examine" /\ query.todo = {}
    /\ Step("none")
    /\ UNCHANGED <<nmVars, seen>>

-----------------------------------------------------------------------------
(* saved_wifi_connections *)

SavedWifiConnections ==
    Start("saved", [NoHistory EXCEPT !.listed = Listed, !.kept = Saved, !.up = ActiveConns])

ListSaved ==
    /\ query.step = "saved"
    /\ query' = [query EXCEPT !.step = "index", !.conns = Saved] \/ Step("error")
    /\ UNCHANGED <<nmVars, seen>>

\* active_connection_index: an empty index if the list cannot be read.
ReadIndex ==
    /\ query.step = "index"
    /\ \/ query' = [query EXCEPT !.step = "indexing", !.todo = Listed]
       \/ query' = [query EXCEPT !.step = "settings", !.broken = {NoPath}]
    /\ UNCHANGED <<nmVars, seen>>

\* Mutant: an object that is gone ends the loop.
MutIndexed(p) ==
    IF p \in Listed THEN [query EXCEPT !.index = @ \cup {active[p].conn}, !.todo = @ \ {p}]
    ELSE [query EXCEPT !.todo = {}]

\* The connection an object was built from, if the object is still there.
Indexed(p) ==
    [query EXCEPT !.todo = @ \ {p},
                  !.index = @ \cup IF p \in Listed THEN {active[p].conn} ELSE {}]

IndexOne(p) ==
    /\ query.step = "indexing" /\ p \in query.todo
    /\ \/ query' = Indexed(p)
       \/ query' = [query EXCEPT !.todo = @ \ {p}, !.broken = @ \cup {p}]
    /\ UNCHANGED <<nmVars, seen>>

IndexDone ==
    /\ query.step = "indexing" /\ query.todo = {}
    /\ Step("settings")
    /\ UNCHANGED <<nmVars, seen>>

\* GetSettings of one connection; only Wi-Fi profiles are listed.
ReadSettings(c) ==
    /\ query.step = "settings" /\ c \in query.conns
    /\ \/ query' = [query EXCEPT
             !.conns = @ \ {c},
             !.rows = @ \cup IF IsWifi(c) THEN {[conn |-> c, up |-> c \in query.index]} ELSE {}]
       \/ query' = [query EXCEPT !.conns = @ \ {c}, !.broken = @ \cup {c}]
    /\ UNCHANGED <<nmVars, seen>>

SavedListed ==
    /\ query.step = "settings" /\ query.conns = {}
    /\ Step("rows")
    /\ UNCHANGED <<nmVars, seen>>

-----------------------------------------------------------------------------
(* connect_wifi: `wifi' holds the SSID asked for, and the connection to reuse. *)

ConnectWifi(ssid) ==
    /\ query.step = "idle"
    /\ query' = [NoQuery EXCEPT !.step = "list", !.wifi.ssid = ssid]
    /\ seen' = [NoHistory EXCEPT !.kept = Saved]
    /\ UNCHANGED nmVars

\* An error is returned: no Wi-Fi device, no list, or NetworkManager refuses.
ConnectFails ==
    /\ \/ query.step \in {"list", "reuse"}
       \/ query.step = "look" /\ query.conns = {}
    /\ Step("error")
    /\ UNCHANGED <<nmVars, seen>>

ConnectList ==
    /\ query.step = "list"
    /\ query' = [query EXCEPT !.step = "look", !.conns = Saved]
    /\ UNCHANGED <<nmVars, seen>>

\* Mutant: only a connection that is not in use is reused.
MutMatches(c) == saved[c] = query.wifi.ssid /\ c \notin ActiveConns

Matches(c) == saved[c] = query.wifi.ssid

\* The settings of one connection; one that cannot be read is passed over.
ConnectLook(c) ==
    /\ query.step = "look" /\ c \in query.conns
    /\ \/ Matches(c) /\ query' = [query EXCEPT !.step = "reuse", !.wifi.conn = c]
       \/ ~Matches(c) /\ query' = [query EXCEPT !.conns = @ \ {c}]
       \/ query' = [query EXCEPT !.conns = @ \ {c}, !.broken = @ \cup {c}]
    /\ UNCHANGED <<nmVars, seen>>

\* ActivateConnection; NetworkManager refuses if the connection was forgotten meanwhile.
ConnectReuse ==
    /\ query.step = "reuse"
    /\ \E p \in NewPaths : Activate(query.wifi.conn, p)
    /\ Step("reused")
    /\ UNCHANGED seen

\* AddAndActivateConnection.
ConnectNew ==
    /\ query.step = "look" /\ query.conns = {}
    /\ \E c \in NewConns, p \in NewPaths : AddAndActivate(c, query.wifi.ssid, p)
    /\ Step("added")
    /\ UNCHANGED seen

-----------------------------------------------------------------------------

NmNext ==
    \/ \E c \in Conns : Forget(c) \/ \E p \in NewPaths : Activate(c, p)
    \/ \E c \in NewConns, ssid \in Ssids, p \in NewPaths : AddAndActivate(c, ssid, p)
    \/ \E p \in Paths : BecomesActive(p) \/ Deactivate(p)
    \/ Elect

Network == query.step \notin Answers /\ NmNext /\ Observe /\ UNCHANGED query

\* The caller has its answer; what comes after is not held against it.
Taken ==
    /\ query.step \in Answers
    /\ query' = NoQuery /\ seen' = NoHistory
    /\ UNCHANGED nmVars

QueryWifi ==
    \/ ActiveWifi \/ ReadPrimary \/ ReadActives
    \/ \E p \in Paths : Examine(p)
    \/ Details \/ NotFound

QuerySaved ==
    \/ SavedWifiConnections \/ ListSaved \/ ReadIndex
    \/ \E p \in Paths : IndexOne(p)
    \/ IndexDone
    \/ \E c \in Conns : ReadSettings(c)
    \/ SavedListed

Connect ==
    \/ \E ssid \in Ssids : ConnectWifi(ssid)
    \/ ConnectFails \/ ConnectList
    \/ \E c \in Conns : ConnectLook(c)
    \/ ConnectReuse \/ ConnectNew

Next == Network \/ Taken \/ QueryWifi \/ QuerySaved \/ Connect

Spec == Init /\ [][Next]_vars

-----------------------------------------------------------------------------
(* Properties. *)

\* What active_wifi answers was so at some instant of the query: the connection was
\* activated, and the primary one if it is said to carry the default route.  The SSID, read
\* last, is its own unless the connection went away during the query.
ReadingWasTrue ==
    query.step = "some" /\ query.wifi.conn # NoConn =>
        /\ query.wifi.conn \in seen.was
        /\ query.wifi.route => query.wifi.conn \in seen.led
        /\ query.at \in seen.steady => query.wifi.ssid \in {saved[query.wifi.conn], NoSsid}

\* One broken object cannot take down the query (networkmanager.rs:10-12): a Wi-Fi that was
\* activated all the time, and could be read, is not overlooked because of what else came,
\* went or could not be read; if it was the primary connection all the time it is the answer,
\* and no secondary Wi-Fi shadows it (479-483).
StableWifiIsFound ==
    query.step \in {"some", "none"} =>
        \A p \in seen.steady \ query.broken : IsWifi(active[p].conn) =>
            /\ query.step = "some"
            /\ seen.lead = p /\ NoPath \notin query.broken =>
                   query.wifi.conn = active[p].conn /\ query.wifi.route

\* saved_wifi_connections lists every Wi-Fi that stayed saved and could be read, as activated
\* if it was active all the time and as disconnected if it never was, whatever became of
\* the other connections in the meantime.
SavedListIsRight ==
    query.step = "rows" =>
        \A c \in seen.kept \ query.broken : IsWifi(c) =>
            /\ \E row \in query.rows : row.conn = c
            /\ \A row \in query.rows : row.conn = c =>
                 /\ row.up => c \in seen.up
                 /\ \A p \in seen.listed \ query.broken :
                       active[p].conn = c /\ NoPath \notin query.broken => row.up

\* connect_wifi makes no new connection, which no profile knows (they go by uuid), for a
\* network that had one all the time, unless it could not read that one (749-763).
NetworkIsReused ==
    query.step = "added" =>
        \A c \in seen.kept \ query.broken : saved[c] # query.wifi.ssid
=============================================================================
