--------------------------- MODULE NetworkManager ---------------------------
(***************************************************************************)
(* NetworkManager as networkmanager.rs sees it over D-Bus: the saved       *)
(* connections (objects of Settings), the active ones (objects that come   *)
(* and go) and PrimaryConnection, the active connection that carries the   *)
(* default route.  It changes as it likes.  It never gives out a path      *)
(* twice; here a path may be used again when nobody remembers it.          *)
(***************************************************************************)
CONSTANTS
    Conns,    \* settings objects, also those that do not exist yet
    NoConn,
    Ssids,
    Paths,    \* paths of active connections
    NoPath    \* the object path "/"

Wired  == "802-3-ethernet"
Absent == "absent"

ASSUME NamesAssumption ==
    /\ NoConn \notin Conns /\ NoPath \notin Paths
    /\ Ssids \cap {Wired, Absent} = {}

VARIABLES
    saved,    \* what each settings object is: the SSID of a Wi-Fi, or Wired
    active,   \* Connection.Active: [conn, state]
    primary   \* PrimaryConnection

nmVars == <<saved, active, primary>>

\* A connection that deactivates looks like one that activates: listed, not activated.
NoObject == [conn |-> NoConn, state |-> Absent]
Objects  == [conn : Conns, state : {"activating", "activated"}] \cup {NoObject}

NmTypeOK ==
    /\ saved \in [Conns -> Ssids \cup {Wired, Absent}]
    /\ active \in [Paths -> Objects]
    /\ primary \in Paths \cup {NoPath}

Saved     == {c \in Conns : saved[c] # Absent}
IsWifi(c) == saved[c] \in Ssids
Listed    == {p \in Paths : active[p] # NoObject}
Activated == {p \in Paths : active[p].state = "activated"}
ActiveConns == {active[p].conn : p \in Listed}

\* Each network is saved once; nothing is up yet.
NmInit ==
    /\ saved \in [Conns -> Ssids \cup {Wired, Absent}]
    /\ \A c, d \in Saved : c # d => saved[c] # saved[d]
    /\ primary = NoPath
    /\ active = [p \in Paths |-> NoObject]

-----------------------------------------------------------------------------

\* The object of `c' disappears, and with it the default route it carried.
WithoutConn(c) == [p \in Paths |-> IF active[p].conn = c THEN NoObject ELSE active[p]]
PrimaryWithout(c) ==
    IF primary # NoPath /\ active[primary].conn = c THEN NoPath ELSE primary

\* A connection that is activated again gets a new object.
Raise(c, p) ==
    /\ active[p] = NoObject
    /\ active' = [WithoutConn(c) EXCEPT ![p] = [conn |-> c, state |-> "activating"]]
    /\ primary' = PrimaryWithout(c)

Activate(c, p) == c \in Saved /\ Raise(c, p) /\ UNCHANGED saved

\* AddAndActivateConnection.
AddAndActivate(c, ssid, p) ==
    /\ c \notin Saved
    /\ saved' = [saved EXCEPT ![c] = ssid]
    /\ Raise(c, p)

BecomesActive(p) ==
    /\ active[p].state = "activating"
    /\ active' = [active EXCEPT ![p].state = "activated"]
    /\ UNCHANGED <<saved, primary>>

Deactivate(p) ==
    /\ p \in Listed
    /\ active' = [active EXCEPT ![p] = NoObject]
    /\ primary' = IF primary = p THEN NoPath ELSE primary
    /\ UNCHANGED saved

\* The default route moves, to a connection that is up.
Elect ==
    /\ primary' \in (Activated \cup {NoPath}) \ {primary}
    /\ UNCHANGED <<saved, active>>

Forget(c) ==
    /\ c \in Saved
    /\ saved' = [saved EXCEPT ![c] = Absent]
    /\ active' = WithoutConn(c)
    /\ primary' = PrimaryWithout(c)
=============================================================================
