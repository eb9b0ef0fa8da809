----------------------------- MODULE TunEngine ------------------------------
(***************************************************************************)
(* TunEngine (proxywifi-daemon/src/dataplane.rs): the child tun2socks, the *)
(* `ip' commands of bring_up around it, and the DNS forwarder.  A start    *)
(* stops what there was, then brings up one thing after another; at the    *)
(* first error it stops again, and passes over what cannot be undone.      *)
(*                                                                         *)
(* start and stop never overlap (the daemon's mutex), but they block their *)
(* thread only: the child dies, and the forwarder's tasks run, meanwhile.  *)
(* The device goes with the child, most of the time; the routing rule      *)
(* stays when all dies, and so may the config file with the password.      *)
(***************************************************************************)
EXTENDS DnsForwarder

VARIABLES
    up,       \* the daemon runs
    step,     \* where start or stop is
    after,    \* where a stop returns to: a start ("config") or the caller
    profile,  \* of the start in progress, or of the tunnel that runs
    child,    \* TunEngine.child: no child, or a process that lives or has died
    system,   \* the tunnel device, the routing rule for direct UDP, the config file
    started,  \* the last call was a start, and it succeeded
    slipped   \* history: the last stop failed to remove something

engineVars == <<up, step, after, profile, child, system, started, slipped>>
allVars    == <<vars, engineVars>>

\* The settings that decide what is brought up.
Profiles  == [udp_direct : BOOLEAN, dns_proxied : BOOLEAN]
NoProfile == [udp_direct |-> FALSE, dns_proxied |-> FALSE]

\* The device as created, with its address, with the tunnel's routes.
Devices == {"none", "bare", "addressed", "routed"}
Systems == [device : Devices, rule : BOOLEAN, config : BOOLEAN]
Clean   == [device |-> "none", rule |-> FALSE, config |-> FALSE]

StopSteps  == {"abort", "kill", "link", "unrule", "unlink"}
BringSteps == {"config", "spawn", "wait", "address", "routes", "rule", "bind"}

EngineTypeOK ==
    /\ TypeOK
    /\ up \in BOOLEAN /\ started \in BOOLEAN /\ slipped \in BOOLEAN
    /\ step \in StopSteps \cup BringSteps \cup {"idle"} /\ after \in {"config", "idle"}
    /\ profile \in Profiles
    /\ child \in {"none", "alive", "dead"}
    /\ system \in Systems

EngineInit ==
    /\ Init
    /\ up = TRUE /\ step = "idle" /\ after = "idle"
    /\ profile = NoProfile
    /\ child = "none" /\ system = Clean
    /\ started = FALSE /\ slipped = FALSE

-----------------------------------------------------------------------------
(* stop: what fails is passed over. *)

CallStop(then) ==
    /\ step' = "abort" /\ after' = then
    /\ started' = FALSE /\ slipped' = FALSE

\* A stop that no start asked for.
JustStop == CallStop("idle") /\ profile' = NoProfile

AbortDns ==
    /\ step = "abort" /\ step' = "kill"
    /\ Stop \/ (serving # "up" /\ UNCHANGED vars)
    /\ UNCHANGED <<up, after, profile, child, system, started, slipped>>

\* The device disappears with its process, unless it is a persistent one (484-485).
Orphaned == {[system EXCEPT !.device = "none"], system}

KillChild ==
    /\ step = "kill" /\ step' = "link"
    /\ child' = "none"
    /\ system' \in IF child = "alive" THEN Orphaned ELSE {system}
    /\ UNCHANGED <<vars, up, after, profile, started, slipped>>

Remove(label, thing, next) ==
    /\ step = label /\ step' = next
    /\ \/ system' = [system EXCEPT ![thing] = Clean[thing]] /\ UNCHANGED slipped
       \/ system' = system /\ slipped' = (slipped \/ system[thing] # Clean[thing])
    /\ UNCHANGED <<vars, up, after, profile, child, started>>

\* Mutant: the rule is looked after only by profiles that use it.
MutRemoveRule ==
    \/ profile.udp_direct /\ Remove("unrule", "rule", "unlink")
    \/ /\ ~profile.udp_direct /\ step = "unrule" /\ step' = "unlink"
       /\ UNCHANGED <<vars, up, after, profile, child, system, started, slipped>>

\* The flush of its table has no effect that anything notices.
RemoveRule == Remove("unrule", "rule", "unlink")

StopEngine ==
    \/ AbortDns \/ KillChild
    \/ Remove("link", "device", "unrule")
    \/ RemoveRule
    \/ Remove("unlink", "config", after)

-----------------------------------------------------------------------------
(* start: stop, then bring_up. *)

Idle == up /\ step = "idle"

\* Mutant: nothing is stopped before.
MutStart(p) ==
    /\ Idle /\ profile' = p
    /\ step' = "config" /\ UNCHANGED after
    /\ started' = FALSE /\ slipped' = FALSE
    /\ UNCHANGED <<vars, up, child, system>>

Start(p) ==
    /\ Idle /\ profile' = p
    /\ CallStop("config")
    /\ UNCHANGED <<vars, up, child, system>>

\* What the next step of bring_up needs.  An address or a rule that is there already is an
\* error (EEXIST); the port is bound on the device's address.
Possible ==
    CASE step = "wait"    -> system.device # "none" \/ child = "alive"
      [] step = "address" -> system.device = "bare"
      [] step = "routes"  -> system.device = "addressed"
      [] step = "rule"    -> ~system.rule
      [] step = "bind"    -> system.device \in {"addressed", "routed"} /\ SocketFree
      [] OTHER            -> step \in BringSteps

\* write_private may leave a file behind that it could not write.
HalfDone == {system, IF step = "config" THEN [system EXCEPT !.config = TRUE] ELSE system}

\* Mutant: what was brought up stays when the rest fails.
MutBringUpFails ==
    /\ step \in BringSteps
    /\ step' = "idle"
    /\ system' \in HalfDone
    /\ UNCHANGED <<vars, up, after, profile, child, started, slipped>>

\* An error anywhere, also where nothing stands in the way: the engine is stopped and the
\* error returned.
BringUpFails ==
    /\ step \in BringSteps
    /\ JustStop
    /\ system' \in HalfDone
    /\ UNCHANGED <<vars, up, child>>

Bring(label, next) ==
    /\ step = label /\ Possible
    /\ step' = next /\ started' = (next = "idle")
    /\ UNCHANGED <<up, after, profile, slipped>>

WriteConfig ==
    /\ Bring("config", "spawn")
    /\ system' = [system EXCEPT !.config = TRUE]
    /\ UNCHANGED <<vars, child>>

Spawn ==
    /\ Bring("spawn", "wait")
    /\ child' = "alive"
    /\ UNCHANGED <<vars, system>>

\* Polled for three seconds.
DeviceSeen ==
    /\ Bring("wait", "address") /\ system.device # "none"
    /\ UNCHANGED <<vars, child, system>>

SetAddress ==
    /\ Bring("address", "routes")
    /\ system' = [system EXCEPT !.device = "addressed"]
    /\ UNCHANGED <<vars, child>>

Served == IF profile.dns_proxied THEN "bind" ELSE "idle"

SetRoutes ==
    /\ Bring("routes", IF profile.udp_direct THEN "rule" ELSE Served)
    /\ system' = [system EXCEPT !.device = "routed"]
    /\ UNCHANGED <<vars, child>>

\* The route for marked packets is replaced, so only the rule may be there already.
AddRule ==
    /\ Bring("rule", Served)
    /\ system' = [system EXCEPT !.rule = TRUE]
    /\ UNCHANGED <<vars, child>>

BindDns ==
    /\ Bring("bind", "idle")
    /\ Bind
    /\ UNCHANGED <<child, system>>

BringUp ==
    \/ WriteConfig \/ Spawn \/ DeviceSeen \/ SetAddress \/ SetRoutes \/ AddRule \/ BindDns

-----------------------------------------------------------------------------
(* The callers, the child and the process. *)

StopCalled ==
    /\ Idle /\ JustStop
    /\ UNCHANGED <<vars, up, child, system>>

CreateDevice ==
    /\ child = "alive" /\ system.device = "none"
    /\ system' = [system EXCEPT !.device = "bare"]
    /\ UNCHANGED <<vars, up, step, after, profile, child, started, slipped>>

ChildDies ==
    /\ child = "alive" /\ child' = "dead"
    /\ system' \in Orphaned
    /\ UNCHANGED <<vars, up, step, after, profile, started, slipped>>

\* Whatever is left of the unit is killed (KillMode is control-group).
Crash ==
    /\ up /\ up' = FALSE
    /\ Killed
    /\ child' = "none" /\ system' \in IF child = "alive" THEN Orphaned ELSE {system}
    /\ step' = "idle" /\ after' = "idle"
    /\ profile' = NoProfile /\ started' = FALSE /\ slipped' = FALSE

\* main stops the engine of a previous run before it serves.
Restart ==
    /\ ~up /\ up' = TRUE
    /\ JustStop
    /\ UNCHANGED <<vars, child, system>>

Engine ==
    \/ StopEngine \/ BringUp \/ BringUpFails
    \/ StopCalled \/ \E p \in Profiles : Start(p)
    \/ CreateDevice \/ ChildDies \/ Crash \/ Restart

EngineNext == Engine \/ (Forwarding /\ UNCHANGED engineVars)

EngineSpec == EngineInit /\ [][EngineNext]_allVars

Running == started /\ child = "alive"

\* A call goes on, and the child that lives creates its device.  The daemon starts the engine
\* again when a start failed or the child died (poll_once).  Every await of ask but the
\* writes has a time-out, and a query of at most 4096 bytes fits the buffer of a new
\* connection: a task always goes on.  An aborted one is dropped.
Fairness ==
    /\ WF_allVars(StopEngine) /\ WF_allVars(BringUp \/ BringUpFails) /\ WF_allVars(CreateDevice)
    /\ WF_allVars(~Running /\ \E p \in Profiles : Start(p))
    /\ \A q \in Queries : WF_vars(Ask(q))
    /\ WF_vars(Dropped)

FairSpec == EngineSpec /\ Fairness

-----------------------------------------------------------------------------
(* Properties. *)

\* Whatever step of a start failed, and wherever the child or the daemon died in it, stop
\* undoes it: no process, device, rule or route is left, no password on the disk, and nobody
\* listens for queries; unless something could not be removed (dataplane.rs:466-472, main.rs:70).
NothingIsLeft ==
    Idle /\ ~started /\ ~slipped => child = "none" /\ system = Clean /\ serving # "up"

\* No start runs into what another left: it never gives up the handle of a child that lives,
\* and no address, rule or forwarder of before makes it fail, unless that could not be
\* removed.  (The socket may: its query tasks hold it.)
NothingInTheWay ==
    ~slipped =>
        /\ step = "spawn" => child = "none"
        /\ step = "address" => system.device \in {"none", "bare"}
        /\ step = "rule" => ~system.rule
        /\ step = "bind" => serving # "up"

\* A tunnel that runs is the one its profile asks for, whatever ran or died before: UDP
\* goes around it, and queries through the forwarder, exactly if the profile says so.
TunnelIsAsConfigured ==
    Running /\ ~slipped =>
        /\ system.device = "routed" /\ system.config
        /\ system.rule = profile.udp_direct
        /\ serving = "up" <=> profile.dns_proxied

\* A received query is answered if the last upstream works, whatever the ones before
\* it do, also when the forwarder is stopped meanwhile; only the end of the process ends it.
LastUpstreamAnswers ==
    <>[](Upstreams \in alive) =>
        [](\A q \in Queries :
              query[q] \in Asking /\ Upstreams \in alive
                  ~> replies[q] = 1 \/ Upstreams \notin alive \/ ~up)

\* From outside: an error that nothing in the engine explains, the end of the child or the
\* daemon, and a stop or a restart of a tunnel that runs.
Disturbance ==
    \/ BringUpFails /\ Possible
    \/ ChildDies \/ Crash \/ StopCalled
    \/ (Running /\ \E p \in Profiles : Start(p))
    \/ (slipped' /\ ~slipped)

\* If nothing disturbs it any more, a start succeeds in the end, and the tunnel stays:
\* the socket that query tasks of the last forwarder still hold is given back, however their
\* upstreams behave, and the attempts that fail for it leave nothing in the way of the next.
EngineComesBack ==
    <>[][~Disturbance]_allVars => <>[]~up \/ <>[]Running
=============================================================================
