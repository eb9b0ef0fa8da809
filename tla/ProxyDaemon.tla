---------------------------- MODULE ProxyDaemon ----------------------------
(***************************************************************************)
(* The daemon's service: the poller, the two D-Bus calls that start and    *)
(* stop the proxy, the profile write path and shutdown, all acting on one  *)
(* state machine (proxywifi-daemon/src/service.rs), over the data plane    *)
(* it drives: the tun2socks child and the nftables table (dataplane.rs).   *)
(*                                                                         *)
(* The mutex `transition` serialises start and stop, so whatever happens   *)
(* between taking and releasing it interleaves only with what does not     *)
(* take it: NetworkManager changing the Wi-Fi, SetProxyProfiles, the death *)
(* of the child, snapshot readers and a crash.  A step below ends wherever *)
(* one of those could be observed, or has an outcome of its own.           *)
(*                                                                         *)
(* A profile is reduced to the three flags the state machine reads, a      *)
(* Wi-Fi connection to its UUID and whether it carries the default route.  *)
(***************************************************************************)
EXTENDS Integers

CONSTANTS
    Conns,          \* UUIDs of the Wi-Fi connections
    NoConn,         \* Option::None where a UUID is optional
    Clients,        \* D-Bus callers
    ProfileChoices, \* the profiles a client may write (records of Profiles)
    RetryTicks,     \* FAILED_RETRY_TICKS
    Events          \* what may happen around the daemon, see EventKinds

Poller  == "poller"   \* the task of poll_loop
Cleaner == "cleaner"  \* the main task of run, after the shutdown signal
Nobody  == "nobody"   \* the transition mutex is free

\* What an instance lets happen.  "resolve", "nftLoad", "engineStart" and
\* "nftDelete" are failures of a call, "engineDies" the death of tun2socks,
\* "roam" any change of Wi-Fi or default route, "edit" SetProxyProfiles.
EventKinds == {"roam", "edit", "start", "stop", "shutdown", "crash", "engineDies",
               "resolve", "nftLoad", "engineStart", "nftDelete"}

Profiles  == [enabled : BOOLEAN, auto : BOOLEAN, kill : BOOLEAN]
NoProfile == [enabled |-> FALSE, auto |-> FALSE, kill |-> FALSE]

ASSUME ConnsAssumption    == NoConn \notin Conns
ASSUME ClientsAssumption  == {Poller, Cleaner, Nobody} \cap Clients = {}
ASSUME ProfilesAssumption == ProfileChoices \subseteq Profiles
ASSUME RetryAssumption    == RetryTicks \in Nat \ {0}
ASSUME EventsAssumption   == Events \subseteq EventKinds

VARIABLES
    nm,      \* NetworkManager: [wifi, route], the Wi-Fi in use and whether it is primary
    store,   \* the profile store: store[u] is NoProfile when u has no profile
    inner,   \* DaemonStateInner
    snap,    \* DaemonSnapshot, the fields other code reads back or reports
    lock,    \* holder of the transition mutex
    pc,      \* where each task is
    arg,     \* what a task read before it asked for the mutex, [wifi, route]
    call,    \* locals of the transition in progress: profile used, return label
    engine,  \* the tun2socks child: [run, conn]
    table,   \* the nftables table in the kernel: [conn, kill]
    applied, \* NftFirewall.applied: what the daemon believes is loaded
    phase    \* the process: up, stopping (signalled), crashed or exited

svars == <<nm, store>>
plane == <<engine, table, applied>>
vars  == <<nm, store, inner, snap, lock, pc, arg, call, engine, table, applied, phase>>

Tasks     == Clients \cup {Poller, Cleaner}
OptConn   == Conns \cup {NoConn}
Readings  == [wifi : OptConn, route : BOOLEAN]
NoReading == [wifi |-> NoConn, route |-> FALSE]
Tables    == [conn : OptConn, kill : BOOLEAN]
NoTable   == [conn |-> NoConn, kill |-> FALSE]
Engines   == [run : {"none", "alive", "dead"}, conn : OptConn]
NoEngine  == [run |-> "none", conn |-> NoConn]
NoCall    == [profile |-> NoProfile, ret |-> "idle"]

States    == {"Disconnected", "Starting", "HealthCheck", "Active", "Stopping", "Failed"}

StartSteps == {"begin", "apply", "engine", "unwind", "health"}
StopSteps  == {"stopEngine", "stopRules"}
Returns    == {"publish", "started", "failed", "stopped", "cleaned"}
Holding    == StartSteps \cup StopSteps \cup Returns  \* labels inside the mutex
Resting    == {"idle", "ok", "err"}   \* no call in progress; "ok" and "err" keep the last reply
Labels     == Holding \cup Resting \cup {"waitPoll", "waitStart", "waitStop", "exited"}

Inners == [proxy_state : States, proxy_active : BOOLEAN, last_error : BOOLEAN,
           active_uuid : OptConn, failed_ticks : 0 .. RetryTicks,
           user_stopped : OptConn, manual : BOOLEAN]

NewInner == [proxy_state |-> "Disconnected", proxy_active |-> FALSE, last_error |-> FALSE,
             active_uuid |-> NoConn, failed_ticks |-> 0, user_stopped |-> NoConn,
             manual |-> FALSE]

Snapshots == [wifi : OptConn, proxy_state : States, proxy_active : BOOLEAN,
              last_error : BOOLEAN]

DefaultSnapshot == [wifi |-> NoConn, proxy_state |-> "Disconnected",
                    proxy_active |-> FALSE, last_error |-> FALSE]

TypeOK ==
    /\ nm \in Readings
    /\ store \in [Conns -> Profiles]
    /\ inner \in Inners
    /\ snap \in Snapshots
    /\ lock \in Tasks \cup {Nobody}
    /\ pc \in [Tasks -> Labels]
    /\ arg \in [Tasks -> Readings]
    /\ call \in [profile : Profiles, ret : Returns \cup {"begin", "idle"}]
    /\ engine \in Engines
    /\ table \in Tables
    /\ applied \in Tables
    /\ phase \in {"up", "stopping", "crashed", "exited"}

\* The store is whatever the last run left on disk, NetworkManager is anywhere.
\* A connection that is not in use carries no default route.
WifiReadings == {r \in Readings : r.wifi = NoConn => ~r.route}

Init ==
    /\ nm \in WifiReadings
    /\ store \in [Conns -> ProfileChoices \cup {NoProfile}]
    /\ inner = NewInner
    /\ snap = DefaultSnapshot
    /\ lock = Nobody
    /\ pc = [t \in Tasks |-> "idle"]
    /\ arg = [t \in Tasks |-> NoReading]
    /\ call = NoCall
    /\ engine = NoEngine
    /\ table = NoTable
    /\ applied = NoTable
    /\ phase = "up"

-----------------------------------------------------------------------------
(* What the handlers share. *)

Running == phase \in {"up", "stopping"}

Goto(t, label) == pc' = [pc EXCEPT ![t] = label]

\* Leave the mutex: the guard and the locals of the call are dropped.
Release(t, label) ==
    /\ Goto(t, label)
    /\ lock' = Nobody
    /\ arg' = [arg EXCEPT ![t] = NoReading]
    /\ call' = NoCall

FindEnabledFor(u) == IF store[u].enabled THEN store[u] ELSE NoProfile

ShouldAutoStart(profile) == profile.enabled /\ profile.auto

\* Mutant: the back-off counter survives the failure.
MutRecordFailure(i) ==
    [i EXCEPT !.proxy_state = "Failed", !.proxy_active = FALSE, !.last_error = TRUE]

\* record_failure.
RecordFailure(i) ==
    [i EXCEPT !.proxy_state = "Failed", !.proxy_active = FALSE,
              !.last_error = TRUE, !.failed_ticks = 0]

\* Mutant: active_uuid is not reset.
MutStopped(i) ==
    [NewInner EXCEPT !.user_stopped = i.user_stopped, !.active_uuid = i.active_uuid]

\* The state stop_proxy leaves.
Stopped(i) == [NewInner EXCEPT !.user_stopped = i.user_stopped]

\* Mutant: a child that exited still counts, as long as it was not reaped.
MutHealthy == engine.run # "none"

\* health_check: TunEngine::is_running asks the child itself.
Healthy == engine.run = "alive"

\* The label start_proxy returns to: the poller ignores the result, a client does not.
Return(t, ok) ==
    IF t = Poller THEN "publish" ELSE IF ok THEN "started" ELSE "failed"

-----------------------------------------------------------------------------
(* start_proxy: the steps of the task that holds the mutex. *)

\* The profile is looked up again, whatever the caller matched before; without
\* one start_proxy returns an error and changes nothing.
StartNoProfile(t) ==
    /\ Running /\ pc[t] = "begin"
    /\ ~FindEnabledFor(arg[t].wifi).enabled
    /\ Goto(t, Return(t, FALSE))
    /\ UNCHANGED <<svars, inner, snap, lock, arg, call, plane, phase>>

StartBegin(t) ==
    /\ Running /\ pc[t] = "begin"
    /\ FindEnabledFor(arg[t].wifi).enabled
    /\ call' = [call EXCEPT !.profile = FindEnabledFor(arg[t].wifi)]
    /\ inner' = [inner EXCEPT !.proxy_state = "Starting", !.last_error = FALSE]
    /\ Goto(t, "apply")
    /\ UNCHANGED <<svars, snap, lock, arg, plane, phase>>

\* The proxy's host name did not resolve.
ResolveFails(t) ==
    /\ "resolve" \in Events
    /\ Running /\ pc[t] = "begin"
    /\ FindEnabledFor(arg[t].wifi).enabled
    /\ inner' = RecordFailure(inner)
    /\ Goto(t, Return(t, FALSE))
    /\ UNCHANGED <<svars, snap, lock, arg, call, plane, phase>>

\* One nft transaction replaces the table; `applied` follows it.
ApplyRules(t) ==
    /\ Running /\ pc[t] = "apply"
    /\ table' = [conn |-> arg[t].wifi, kill |-> call.profile.kill]
    /\ applied' = table'
    /\ Goto(t, "engine")
    /\ UNCHANGED <<svars, inner, snap, lock, arg, call, engine, phase>>

ApplyFails(t) ==
    /\ "nftLoad" \in Events
    /\ Running /\ pc[t] = "apply"
    /\ inner' = RecordFailure(inner)
    /\ Goto(t, Return(t, FALSE))
    /\ UNCHANGED <<svars, snap, lock, arg, call, plane, phase>>

\* TunEngine::start stops a child that is still there before it spawns one.
StartEngine(t) ==
    /\ Running /\ pc[t] = "engine"
    /\ engine' = [run |-> "alive", conn |-> arg[t].wifi]
    /\ inner' = [inner EXCEPT !.proxy_active = TRUE, !.proxy_state = "HealthCheck",
                              !.active_uuid = arg[t].wifi, !.failed_ticks = 0]
    /\ Goto(t, "health")
    /\ UNCHANGED <<svars, snap, lock, arg, call, table, applied, phase>>

\* bring_up failed: the old child is gone, the half-made one is stopped too.
EngineFails(t) ==
    /\ "engineStart" \in Events
    /\ Running /\ pc[t] = "engine"
    /\ engine' = NoEngine
    /\ Goto(t, "unwind")
    /\ UNCHANGED <<svars, inner, snap, lock, arg, call, table, applied, phase>>

\* NftFirewall::remove: `applied` is cleared first, whether or not nft succeeds.
RemoveRules ==
    /\ applied' = NoTable
    /\ table' \in {NoTable} \cup (IF "nftDelete" \in Events THEN {table} ELSE {})

\* `let _ = self.firewall.remove()`, then the failure is recorded.
Unwind(t) ==
    /\ Running /\ pc[t] = "unwind"
    /\ RemoveRules
    /\ inner' = RecordFailure(inner)
    /\ Goto(t, Return(t, FALSE))
    /\ UNCHANGED <<svars, snap, lock, arg, call, engine, phase>>

HealthOk(t) ==
    /\ Running /\ pc[t] = "health"
    /\ Healthy
    /\ inner' = [inner EXCEPT !.proxy_state = "Active"]
    /\ Goto(t, Return(t, TRUE))
    /\ UNCHANGED <<svars, snap, lock, arg, call, plane, phase>>

\* Mutant: the rules are dropped whatever the kill switch says.
MutHealthFailsOpen(t) ==
    /\ Running /\ pc[t] = "health"
    /\ ~Healthy
    /\ inner' = RecordFailure(inner)
    /\ Goto(t, "stopEngine") /\ call' = [call EXCEPT !.ret = Return(t, TRUE)]
    /\ UNCHANGED <<svars, snap, lock, arg, plane, phase>>

\* Mutant: the failed start is undone by a call that takes the mutex again.
MutHealthFailsRelocks(t) ==
    /\ Running /\ pc[t] = "health"
    /\ ~Healthy
    /\ inner' = RecordFailure(inner)
    /\ Goto(t, "waitStop")
    /\ UNCHANGED <<svars, snap, lock, arg, call, plane, phase>>

\* Fail closed with the kill switch, stop without it; Ok(()) either way.
HealthFails(t) ==
    /\ Running /\ pc[t] = "health"
    /\ ~Healthy
    /\ inner' = RecordFailure(inner)
    /\ IF call.profile.kill
         THEN Goto(t, Return(t, TRUE)) /\ UNCHANGED call
         ELSE Goto(t, "stopEngine") /\ call' = [call EXCEPT !.ret = Return(t, TRUE)]
    /\ UNCHANGED <<svars, snap, lock, arg, plane, phase>>

-----------------------------------------------------------------------------
(* stop_proxy: the child first, then the rules, then the state. *)

StopEngine(t) ==
    /\ Running /\ pc[t] = "stopEngine"
    /\ engine' = NoEngine
    /\ Goto(t, "stopRules")
    /\ UNCHANGED <<svars, inner, snap, lock, arg, call, table, applied, phase>>

\* set_kill_switch(false) comes after remove, finds `applied` empty and does nothing.
StopRules(t) ==
    /\ Running /\ pc[t] = "stopRules"
    /\ RemoveRules
    /\ inner' = Stopped(inner)
    /\ Goto(t, call.ret)
    /\ UNCHANGED <<svars, snap, lock, arg, call, engine, phase>>

\* Mutant: the rules go first and the child is forgotten.
MutCallStop(t, ret) ==
    /\ Goto(t, "stopRules")
    /\ call' = [NoCall EXCEPT !.ret = ret]

\* The caller of stop_proxy goes on at `ret` when it returns.
CallStop(t, ret) ==
    /\ Goto(t, "stopEngine")
    /\ call' = [NoCall EXCEPT !.ret = ret]

-----------------------------------------------------------------------------
(* poll_once.  A query that fails returns early and changes nothing.      *)

\* NetworkManager is asked before the mutex is.
PollRead ==
    /\ Running /\ pc[Poller] = "idle"
    /\ arg' = [arg EXCEPT ![Poller] = nm]
    /\ Goto(Poller, "waitPoll")
    /\ UNCHANGED <<svars, inner, snap, lock, call, plane, phase>>

PollLock ==
    /\ Running /\ pc[Poller] = "waitPoll"
    /\ lock = Nobody
    /\ lock' = Poller
    /\ UNCHANGED <<svars, snap, arg, plane, phase>>

\* Mutant: a proxy that failed does not count as up.
MutWasUp == inner.proxy_active

WasUp == inner.proxy_active \/ inner.proxy_state # "Disconnected"

PollNoWifi ==
    /\ PollLock
    /\ arg[Poller].wifi = NoConn
    /\ IF WasUp
         THEN /\ inner' = [inner EXCEPT !.user_stopped = NoConn, !.proxy_state = "Stopping"]
              /\ CallStop(Poller, "publish")
         ELSE /\ inner' = [inner EXCEPT !.user_stopped = NoConn]
              /\ Goto(Poller, "publish") /\ UNCHANGED call

\* Mutant: ticks in Failed are not counted.
MutTickedNever(w) ==
    [inner EXCEPT
        !.user_stopped = IF @ = w THEN @ ELSE NoConn, !.failed_ticks = 0]

\* A manual stop sticks to its own connection; ticks spent in Failed are counted.
Ticked(w) ==
    [inner EXCEPT
        !.user_stopped = IF @ = w THEN @ ELSE NoConn,
        !.failed_ticks = IF inner.proxy_state # "Failed" THEN 0
                         ELSE IF @ < RetryTicks THEN @ + 1 ELSE @]

ShouldStart(r) ==
    r.route /\ ShouldAutoStart(FindEnabledFor(r.wifi)) /\ Ticked(r.wifi).user_stopped = NoConn

\* Mutant: a manual start outlives its profile.
MutKeepManual(r) == inner.manual /\ inner.active_uuid = r.wifi

\* Mutant: a manual start is kept only where the poller would have started it.
MutKeepAuto(r) ==
    inner.manual /\ ShouldAutoStart(FindEnabledFor(r.wifi)) /\ inner.active_uuid = r.wifi

\* A manual start stays up while its own enabled profile matches.
KeepManual(r) ==
    inner.manual /\ FindEnabledFor(r.wifi).enabled /\ inner.active_uuid = r.wifi

\* Mutant: roaming is not looked for.
MutSwitched(r) == FALSE

Switched(r) == inner.active_uuid \notin {NoConn, r.wifi}

\* What the poll decides, in the order of its if-else chain.
Verdict(r) ==
    IF ShouldStart(r) /\ Switched(r) THEN "restart"
    ELSE IF ShouldStart(r) /\ inner.proxy_state = "Disconnected" THEN "start"
    ELSE IF ShouldStart(r) /\ inner.proxy_state = "Failed"
         THEN IF Ticked(r.wifi).failed_ticks >= RetryTicks THEN "start" ELSE "keep"
    ELSE IF ~ShouldStart(r) /\ ~KeepManual(r) /\ inner.proxy_state # "Disconnected" THEN "stop"
    ELSE IF (ShouldStart(r) \/ KeepManual(r)) /\ inner.proxy_state = "Active"
         THEN IF Healthy THEN "keep"
              ELSE IF FindEnabledFor(r.wifi).kill THEN "fail" ELSE "stop"
    ELSE "keep"

PollWifi ==
    /\ PollLock
    /\ arg[Poller].wifi # NoConn
    /\ LET r == arg[Poller] IN
       \/ /\ Verdict(r) = "restart"
          /\ inner' = Ticked(r.wifi)
          /\ CallStop(Poller, "begin")
       \/ /\ Verdict(r) = "start"
          /\ inner' = Ticked(r.wifi)
          /\ Goto(Poller, "begin") /\ UNCHANGED call
       \/ /\ Verdict(r) = "stop"
          /\ inner' = Ticked(r.wifi)
          /\ CallStop(Poller, "publish")
       \/ /\ Verdict(r) = "fail"
          /\ inner' = RecordFailure(Ticked(r.wifi))
          /\ Goto(Poller, "publish") /\ UNCHANGED call
       \/ /\ Verdict(r) = "keep"
          /\ inner' = Ticked(r.wifi)
          /\ Goto(Poller, "publish") /\ UNCHANGED call

\* The snapshot is replaced before the mutex is released.
PollPublish ==
    /\ Running /\ pc[Poller] = "publish"
    /\ snap' = IF arg[Poller].wifi = NoConn
                 THEN DefaultSnapshot
                 ELSE [wifi |-> arg[Poller].wifi, proxy_state |-> inner.proxy_state,
                       proxy_active |-> inner.proxy_active, last_error |-> inner.last_error]
    /\ Release(Poller, "idle")
    /\ UNCHANGED <<svars, inner, plane, phase>>

-----------------------------------------------------------------------------
(* manual_start and manual_stop.  A request that is refused before the    *)
(* mutex (no Wi-Fi, or another connection than the active one) changes    *)
(* nothing.                                                               *)

\* The network to start for is taken from the snapshot, before the mutex.
ManualStart(c) ==
    /\ "start" \in Events
    /\ Running /\ pc[c] \in Resting
    /\ snap.wifi # NoConn
    /\ arg' = [arg EXCEPT ![c] = [wifi |-> snap.wifi, route |-> FALSE]]
    /\ Goto(c, "waitStart")
    /\ UNCHANGED <<svars, inner, snap, lock, call, plane, phase>>

ManualStartLocked(c) ==
    /\ Running /\ pc[c] = "waitStart"
    /\ lock = Nobody
    /\ lock' = c
    /\ inner' = [inner EXCEPT !.user_stopped = NoConn]
    /\ Goto(c, "begin")
    /\ UNCHANGED <<svars, snap, arg, call, plane, phase>>

\* Mutant: the snapshot is left to the next poll.
MutPublished(i) == snap

Published(i) == [snap EXCEPT !.proxy_state = i.proxy_state,
                             !.proxy_active = i.proxy_active,
                             !.last_error = i.last_error]

\* Mutant: whatever start_proxy did not call an error is a success.
MutManualStarted(c) ==
    /\ Running /\ pc[c] = "started"
    /\ inner' = [inner EXCEPT !.manual = TRUE]
    /\ snap' = Published(inner')
    /\ Release(c, "ok")
    /\ UNCHANGED <<svars, plane, phase>>

\* start_proxy returned Ok: the proxy is the user's.  A failed health check is
\* told to the caller only while the state still says Failed.
ManualStarted(c) ==
    /\ Running /\ pc[c] = "started"
    /\ inner' = [inner EXCEPT !.manual = TRUE]
    /\ snap' = Published(inner')
    /\ Release(c, IF inner.proxy_state = "Failed" THEN "err" ELSE "ok")
    /\ UNCHANGED <<svars, plane, phase>>

ManualStartFailed(c) ==
    /\ Running /\ pc[c] = "failed"
    /\ snap' = Published(inner)
    /\ Release(c, "err")
    /\ UNCHANGED <<svars, inner, plane, phase>>

ManualStop(c) ==
    /\ "stop" \in Events
    /\ Running /\ pc[c] \in Resting
    /\ Goto(c, "waitStop")
    /\ UNCHANGED <<svars, inner, snap, lock, arg, call, plane, phase>>

\* `stopped` is remembered before stop_proxy clears active_uuid.
ManualStopLocked(c) ==
    /\ Running /\ pc[c] = "waitStop"
    /\ lock = Nobody
    /\ lock' = c
    /\ arg' = [arg EXCEPT ![c] = [wifi |-> inner.active_uuid, route |-> FALSE]]
    /\ CallStop(c, "stopped")
    /\ UNCHANGED <<svars, inner, snap, plane, phase>>

\* Mutant: a stop with no tunnel up is not remembered.
MutManualStopped(c) ==
    /\ Running /\ pc[c] = "stopped"
    /\ inner' = [inner EXCEPT !.user_stopped = arg[c].wifi]
    /\ snap' = [snap EXCEPT !.proxy_active = FALSE, !.proxy_state = "Disconnected",
                            !.last_error = FALSE]
    /\ Release(c, "ok")
    /\ UNCHANGED <<svars, plane, phase>>

ManualStopped(c) ==
    /\ Running /\ pc[c] = "stopped"
    /\ inner' = [inner EXCEPT !.user_stopped =
                    IF arg[c].wifi # NoConn THEN arg[c].wifi ELSE snap.wifi]
    /\ snap' = [snap EXCEPT !.proxy_active = FALSE, !.proxy_state = "Disconnected",
                            !.last_error = FALSE]
    /\ Release(c, "ok")
    /\ UNCHANGED <<svars, plane, phase>>

\* SetProxyProfiles replaces the whole set and takes no part in the mutex.
SetProfiles ==
    /\ "edit" \in Events
    /\ Running
    /\ store' \in [Conns -> ProfileChoices \cup {NoProfile}]
    /\ UNCHANGED <<nm, inner, snap, lock, pc, arg, call, plane, phase>>

-----------------------------------------------------------------------------
(* Shutdown, crash and restart.                                           *)

Signal ==
    /\ "shutdown" \in Events
    /\ phase = "up"
    /\ phase' = "stopping"
    /\ UNCHANGED <<svars, inner, snap, lock, pc, arg, call, plane>>

\* Mutant: the loop sleeps without looking at the signal.
MutPollExit == FALSE /\ UNCHANGED vars

\* The loop looks at the signal between two polls; its select! may still let a
\* tick that is due go first.
PollExit ==
    /\ phase = "stopping" /\ pc[Poller] = "idle"
    /\ Goto(Poller, "exited")
    /\ UNCHANGED <<svars, inner, snap, lock, arg, call, plane, phase>>

\* run awaits the poller, then cleanup takes the mutex and stops the proxy.
Cleanup ==
    /\ phase = "stopping" /\ pc[Poller] = "exited" /\ pc[Cleaner] = "idle"
    /\ lock = Nobody
    /\ lock' = Cleaner
    /\ CallStop(Cleaner, "cleaned")
    /\ UNCHANGED <<svars, inner, snap, arg, plane, phase>>

CleanupDone ==
    /\ phase = "stopping" /\ pc[Cleaner] = "cleaned"
    /\ Release(Cleaner, "exited")
    /\ UNCHANGED <<svars, inner, snap, plane, phase>>

\* What dies with the process.  The D-Bus object is exported until then.
ProcessGone ==
    /\ inner' = NewInner
    /\ snap' = DefaultSnapshot
    /\ lock' = Nobody
    /\ pc' = [t \in Tasks |-> "idle"]
    /\ arg' = [t \in Tasks |-> NoReading]
    /\ call' = NoCall
    /\ applied' = NoTable
    /\ engine' = NoEngine   \* systemd kills what is left of the unit
    /\ UNCHANGED <<svars, table>>

\* main returns once run does.  A call inside the mutex does not yield, so the
\* runtime lets it finish; one that waits is dropped.
Exit ==
    /\ phase = "stopping" /\ pc[Cleaner] = "exited" /\ lock = Nobody
    /\ phase' = "exited"
    /\ ProcessGone

Crash ==
    /\ "crash" \in Events
    /\ Running
    /\ phase' = "crashed"
    /\ ProcessGone

\* main of the next run removes the stale table before anything else.
Startup ==
    /\ phase \in {"crashed", "exited"}
    /\ phase' = "up"
    /\ RemoveRules
    /\ UNCHANGED <<svars, inner, snap, lock, pc, arg, call, engine>>

-----------------------------------------------------------------------------
(* The environment. *)

Roam ==
    /\ "roam" \in Events
    /\ nm' \in WifiReadings \ {nm}
    /\ UNCHANGED <<store, inner, snap, lock, pc, arg, call, plane, phase>>

EngineDies ==
    /\ "engineDies" \in Events
    /\ engine.run = "alive"
    /\ engine' = [engine EXCEPT !.run = "dead"]
    /\ UNCHANGED <<svars, inner, snap, lock, pc, arg, call, table, applied, phase>>

-----------------------------------------------------------------------------

StartProxy(t) ==
    \/ StartNoProfile(t) \/ StartBegin(t) \/ ResolveFails(t)
    \/ ApplyRules(t) \/ ApplyFails(t)
    \/ StartEngine(t) \/ EngineFails(t) \/ Unwind(t)
    \/ HealthOk(t) \/ HealthFails(t)

StopProxy(t) == StopEngine(t) \/ StopRules(t)

\* What the holder of the mutex does; it never waits.
Transition(t) ==
    \/ StartProxy(t) \/ StopProxy(t)
    \/ t = Poller /\ PollPublish
    \/ t = Cleaner /\ CleanupDone
    \/ t \in Clients /\ (ManualStarted(t) \/ ManualStartFailed(t) \/ ManualStopped(t))

PollLocked == PollNoWifi \/ PollWifi

Next ==
    \/ \E t \in Tasks : Transition(t)
    \/ PollRead \/ PollLocked \/ PollExit \/ Cleanup \/ Exit
    \/ \E c \in Clients : \/ ManualStart(c) \/ ManualStartLocked(c)
                          \/ ManualStop(c) \/ ManualStopLocked(c)
    \/ SetProfiles \/ Signal \/ Crash \/ Startup \/ Roam \/ EngineDies

Spec == Init /\ [][Next]_vars

\* Tasks are scheduled; tokio's Mutex is FIFO, so whoever asks for it gets it in
\* the end.  poll_loop's select! picks at random among what is ready, so it
\* cannot let a tick go first for ever.
Fairness ==
    /\ WF_vars(PollRead) /\ SF_vars(PollLocked) /\ SF_vars(PollExit)
    /\ SF_vars(Cleanup) /\ SF_vars(Exit)
    /\ \A t \in Tasks : WF_vars(Transition(t))
    /\ \A c \in Clients : SF_vars(ManualStartLocked(c)) /\ SF_vars(ManualStopLocked(c))

FairSpec == Spec /\ Fairness
-----------------------------------------------------------------------------
(* Properties. *)

Settled == Running /\ lock = Nobody

\* Between transitions the state is one of three and says what the system has:
\* Disconnected leaves no child, no believed rules and no trace of the last
\* tunnel; Active has a child and loaded rules, both of the connection in
\* active_uuid; Failed carries its error (DaemonStateInner, start_proxy, stop_proxy).
SettledStateIsTrue ==
    Settled =>
        \/ /\ inner.proxy_state = "Disconnected"
           /\ ~inner.proxy_active /\ ~inner.last_error
           /\ inner.active_uuid = NoConn /\ inner.failed_ticks = 0
           /\ engine = NoEngine /\ applied = NoTable
        \/ /\ inner.proxy_state = "Active"
           /\ inner.proxy_active
           /\ inner.active_uuid = engine.conn /\ engine.run # "none"
           /\ table.conn = inner.active_uuid /\ applied = table
        \/ /\ inner.proxy_state = "Failed"
           /\ ~inner.proxy_active /\ inner.last_error
           /\ inner.active_uuid = NoConn => engine = NoEngine

\* A tunnel never runs unsteered: while the child lives some table is loaded,
\* and it is the child's own unless the next start has just replaced it
\* ("firewall first", service.rs start_proxy; child first in stop_proxy).
TunnelIsSteered ==
    engine.run = "alive" =>
        /\ table # NoTable
        /\ table.conn = engine.conn \/ \E t \in Tasks : pc[t] = "engine"

\* What D-Bus reports is the state machine's own state whenever no transition is
\* in progress, whoever made the last one; cleanup publishes nothing.
SnapshotIsHonest ==
    Settled /\ pc[Cleaner] # "exited" =>
        /\ snap.proxy_state = inner.proxy_state
        /\ snap.proxy_active = inner.proxy_active
        /\ snap.last_error = inner.last_error

\* However a poll ends, no tunnel is left for another network than the one it
\* read, not even by a start that failed halfway through a roam (poll_once).
TunnelFollowsReading ==
    pc[Poller] = "publish" =>
        /\ inner.active_uuid \in {NoConn, arg[Poller].wifi}
        /\ engine.conn \in {NoConn, arg[Poller].wifi}

\* Rules that block traffic and under which a tunnel came up go away only in a stop
\* that nothing in start_proxy asked for: a start or a retry never opens what a kill
\* switch closed, however it fails (service.rs:644, README.md:19).
KillSwitchHolds ==
    [][ table.kill /\ inner.active_uuid = table.conn /\ table' = NoTable
          => \E t \in Tasks : pc[t] = "stopRules" /\ call.profile = NoProfile ]_vars

\* A caller is told that the proxy started only if it is Active, although a failed
\* health check is no error to start_proxy (service.rs:755-756): for profiles with the
\* kill switch.  Without it the state is Disconnected by then, which reads as success.
StartReportsFailure ==
    [][ \A c \in Clients : pc[c] = "started" /\ pc'[c] = "ok"
            => inner'.proxy_state = "Active" \/ ~call.profile.kill ]_vars

\* While the daemon runs nobody waits for ever: every D-Bus call that asked for
\* the mutex is answered (manual_start, manual_stop).
CallsAreAnswered ==
    \A c \in Clients : pc[c] \in {"waitStart", "waitStop"} ~> pc[c] \in Resting

\* SIGTERM ends the process, whatever transition is in progress and whoever else
\* asks for the mutex (run, poll_loop, cleanup).
ShutdownCompletes == phase = "stopping" ~> phase = "exited"

\* A removed or disabled profile stops its proxy (service.rs:320-321), however the
\* tunnel was started, on whatever network the machine is.
RemovedProfileStops ==
    \A u \in Conns : <>[](~store[u].enabled) => <>[](engine.conn # u)

\* When Wi-Fi is gone for good nothing is left: no tunnel, no rules, not even
\* those a failed proxy kept (service.rs:448-459).
WifiLossStops ==
    <>[](nm.wifi = NoConn /\ phase = "up") => <>[](engine = NoEngine /\ table = NoTable)

\* A child that died is not reported Active for ever (service.rs:533-541).
DeathIsNoticed ==
    inner.proxy_state = "Active" /\ engine.run = "dead"
        ~> inner.proxy_state # "Active" \/ engine.run # "dead"

\* On a network that is to be proxied, the proxy keeps coming back once failures
\* cease, whatever state the last failure left (service.rs:515-529).
Wanted(u) ==
    /\ phase = "up"
    /\ nm = [wifi |-> u, route |-> TRUE]
    /\ ShouldAutoStart(store[u])
    /\ inner.user_stopped = NoConn

Fault == EngineDies \/ \E t \in Tasks : ResolveFails(t) \/ ApplyFails(t) \/ EngineFails(t)

ProxyRecovers ==
    \A u \in Conns :
        <>[]Wanted(u) /\ <>[][~Fault]_vars
            => []<>(inner.proxy_state = "Active" /\ engine = [run |-> "alive", conn |-> u])

-----------------------------------------------------------------------------
(* The data plane as SteeredTunnel sees it: the loaded table and the live child. *)

Tunnel == INSTANCE SteeredTunnel
            WITH rules  <- table.conn,
                 tunnel <- IF engine.run = "alive" THEN engine.conn ELSE NoConn

\* Every step of the daemon, of whichever task, is one the data plane allows: rules
\* before the tunnel, the tunnel down before the rules, also across a crash.
ImplementsSteeredTunnel == Tunnel!Spec

-----------------------------------------------------------------------------
(* What the repository says and the code does not do. *)

\* service.rs:700: "make sure nothing is left running on the system".
NothingLeftBehind == phase = "exited" => table = NoTable
=============================================================================
