# ProxyWiFi in TLA+

ProxyWiFi attaches a proxy to a Wi-Fi connection: a root daemon watches
NetworkManager, and while the machine is on a network with an enabled profile it
runs `tun2socks` on a TUN device, routes all traffic through it and guards it with
an nftables table. This directory models the daemon and what it drives, checks the
models with TLC on small instances, and proves the central results for every value
of the constants with TLAPS.

The line numbers below are those of the sources; `PROJECT.json` maps every
definition to the lines it stands for.

## 1. Inventory of the system

| Part | Source | State | Operations | Hard because |
|---|---|---|---|---|
| daemon service | `proxywifi-daemon/src/service.rs` | `DaemonStateInner` (state machine, flags, back-off), `DaemonSnapshot`, mutex `transition` | `poll_once`, `start_proxy`, `stop_proxy`, `manual_start`, `manual_stop`, `set_profiles`, `cleanup` | a poller, D-Bus calls and shutdown contend; each reads something before it waits for the mutex; a start has five steps that may each fail |
| nftables firewall | `dataplane.rs` 233-294 | table in the kernel, `applied` | `apply`, `remove`, `set_kill_switch` | belief and kernel may differ; the table outlives a crash |
| tun2socks engine | `dataplane.rs` 296-521 | the child, the DNS task; device, routes, rule and config file outside | `start`, `stop`, `is_running`, `bring_up` | a dozen steps that may each fail; the child dies at any time, and takes the device and its routes with it; what the kernel and the disk keep outlives the daemon |
| nftables ruleset | `dataplane.rs` 88-231 | none (a text) | `render_ruleset` | the first match wins: the order of a dozen optional rules decides what leaks |
| DNS forwarder | `dns.rs` | a semaphore, one task per query | `serve`, `ask` | query tasks outlive the task that spawned them, and hold its socket |
| profile store | `proxywifi-core/src/profiles.rs` | a map in memory, `profiles.json`, backups | `load_or_create`, `save`, `replace_all`, `upsert`, `remove`, `set_enabled` | crash or power cut between any two steps of a save |
| daemon start-up | `proxywifi-daemon/src/main.rs` | none | clears the table of a run that died | what a crash left |
| secrets store | `proxywifi-core/src/secrets.rs` | a map and `secrets.json` | `get_secret`, `store_secret`, `delete_secret` | referenced by profiles that other processes edit |
| NetworkManager client | `proxywifi-core/src/networkmanager.rs` | none; the locals of a query in progress | `active_wifi`, `saved_wifi_connections`, `connect_wifi`, the scan | a query is a sequence of D-Bus calls, not a snapshot; any of them may fail, and objects come and go between them |
| D-Bus server | `dbus_server.rs` | none | methods and properties over the service | authorisation; the object lives until `main` returns |
| CLI, GUI, tray | `proxywifi-cli`, `proxywifi-gui`, `packaging/proxywifi-tray.py` | a copy of the profile set | fetch, edit, push back; create and delete secrets | two clients at once, failure half-way |
| probes, models, config, errors | `dataplane.rs` 537-..., `models.rs`, `config.rs`, `error.rs` | none | | |

How they interact: clients call the D-Bus server, which calls the service. The
service reads NetworkManager and the profile store (a read lock), and drives firewall
and engine inside the mutex `transition`. Readers of the status see only the
snapshot, which is replaced at the end of a transition. The engine spawns the child
and the forwarder task; a query reaches the forwarder because the ruleset redirects
it, and the forwarder's own connections leave through the tunnel. The kernel keeps
the table when the daemon dies.

What makes each part correct:

* service: between transitions the state machine says what child and what rules
  there are; the snapshot says what the state machine says; a call is answered;
  shutdown ends; a stop sticks, and so does a start by hand; a failed proxy is retried, after its
  back-off.
* firewall and engine: no tunnel without rules; a kill switch that closed stays
  closed until somebody stops the proxy; a start that failed leaves nothing, and nothing left
  by an earlier one makes it fail; a tunnel that runs is the one its profile describes.
* ruleset: what may leave by the Wi-Fi is what the settings exempt; the engine is
  never cut off from its own proxy.
* NetworkManager client: what a query answers was so at an instant of the query; one object that
  changes or cannot be read does not hide the others; no network is saved twice.
* forwarder: no permit is lost, no query is answered twice, the port comes free.
* secrets and clients: no profile names credentials that are gone; no password is kept that
  no profile uses; what was reported as stored survives.
* store: a save that was reported as done survives a power cut; one that was not has
  happened entirely or not at all; unreadable bytes are kept.

## 2. Modules

| Module | What it is |
|---|---|
| `ProxyDaemon` | service, firewall, engine and start-up, with the environment around them |
| `DaemonInvariant` | the inductive invariant `IInv` |
| `DaemonHistory` | `ProxyDaemon` with three history variables, for properties over time |
| `SteeredTunnel` | abstract: what the data plane promises; `ProxyDaemon` implements it |
| `Ruleset` | one packet on its way through routes and table |
| `DnsForwarder` | the receiving task and the query tasks, and what the engine may do to them |
| `TunEngine` | the steps of the engine's start and stop, composed with `DnsForwarder` |
| `ProfileStore` | saves, loads, quarantines, crashes and power cuts |
| `AtomicStore` | abstract: what the store promises; `ProfileStore` implements it |
| `Clients` | secrets file, the D-Bus calls that change secrets and profiles, CLI commands and GUI saves |
| `NetworkManager` | external: saved and active connections and the primary one, as D-Bus shows them |
| `NmClient` | the queries and `connect_wifi`, composed with `NetworkManager` |
| `DaemonProofs` | theorems about `ProxyDaemon`, from `IInv` |
| `TransitionProofs` | theorems about a transition of the daemon, and about the last one |
| `HistoryProofs` | theorems about `DaemonHistory`: the back-off, and when a manual stop or start sticks |
| `TunEngineProofs` | theorems about `DnsForwarder` and `TunEngine` |
| `RulesetProofs`, `ProfileStoreProofs`, `ClientsProofs`, `NmClientProofs` | theorems about the component each is named after |
| `MC*` | instances: the sets and records the `.cfg` files name |

Definitions named `Mut...` are plausible bugs. No specification uses them: each
replaces the definition that follows it to see that a property notices.

### 2.1 ProxyDaemon

| Model | Code |
|---|---|
| `inner` | `DaemonStateInner`: `proxy_state`, `proxy_active`, `last_error` (set or not), `active_uuid`, `failed_ticks`, `user_stopped`, `manual` |
| `snap` | `DaemonSnapshot`; addresses, interface names and counters are left out, nothing reads them back |
| `lock`, `pc`, `arg`, `call` | the mutex `transition` and the locals of each task |
| `store` | the profile of each connection, reduced to enabled, auto-connect, kill switch |
| `nm` | the Wi-Fi connection in use and whether it carries the default route |
| `engine`, `table`, `applied` | the child (none, alive, dead), the kernel's table, `NftFirewall.applied` |
| `phase` | the process |

An action ends where another task, or the outside, could see or change something:

* `PollRead` (NetworkManager, before the mutex), then `PollNoWifi` or `PollWifi` (the
  decision, `Verdict` being the if-else chain of 513-542), the steps of a stop or
  start, then `PollPublish`;
* `start_proxy`: `StartBegin` (or `StartNoProfile`, `ResolveFails`), `ApplyRules`
  (`ApplyFails`), `StartEngine` (`EngineFails`, `Unwind`), `HealthOk` or `HealthFails`;
* `stop_proxy`: `StopEngine`, `StopRules`;
* `ManualStart` (reads the snapshot), `ManualStartLocked`, the steps above,
  `ManualStarted` or `ManualStartFailed`; `ManualStop`, `ManualStopLocked`, `ManualStopped`;
* `SetProfiles`, at any time: it takes no part in the mutex;
* `Signal`, `PollExit`, `Cleanup`, `CleanupDone`, `Exit`, `Crash`, `Startup`;
* `Roam` and `EngineDies`.

Decisions worth knowing:

* the mutex is a holder without a queue. For safety this allows every order a FIFO
  queue allows, and more; for liveness see section 4;
* a NetworkManager query that fails makes `poll_once` return early: no step at all;
* a call inside the mutex does not yield to the runtime's shutdown, so `Exit` waits
  for the holder; a call that still waits is dropped;
* systemd kills what is left of the unit (`KillMode` is the default, control-group),
  so the child does not outlive the daemon, but the table does;
* the profiles of the next run may be any set: `Startup` followed at once by
  `SetProfiles`. What they can be is the subject of `ProfileStore`.

### 2.2 Ruleset

One behaviour is one packet: `Init` picks settings, tunnel up or gone, and a packet;
`Mark`, `Redirect` and `Filter` are the chains `udp_direct`, `dns` and `output` in the
order of their priorities, with a new routing decision (`RouteOf`) after the first two.
`Rules` is the list `render_ruleset` builds, rule by rule, `FirstMatch` the kernel's
evaluation. Addresses are reduced to the classes that the rules and routes can tell
apart: loopback, the tunnel's own, on-link, the rest of `LOCAL_V4`/`LOCAL_V6`,
multicast, public. What `KillSwitchCloses` exempts is exact: redirected queries are exempt only when they go by
IPv4 and UDP to the tunnel's own address and the forwarder's port (`ToForwarder`), which is where
finding 4 comes in. `BlockedUdpIsRejected` asks for the verdict "reject", as a dropped packet would keep its
sender waiting. Not modelled: a machine with a second uplink, connection
tracking, and inbound packets (the table has no input chain).

### 2.3 DnsForwarder and TunEngine

`query` says where each query is: sent, or at one of the three awaits of `ask` that
have a time-out. An upstream that is not `alive` may refuse, stall or send half a reply;
each is `AskFails`. `Stop` aborts only the receiving task (`Dropped` is when tokio drops
it): query tasks go on and hold the socket, so `Bind` waits for them. The two
writes of `ask` have no time-out but need none: a query is at most 4096 bytes and the
buffer of a new connection holds it. `DnsForwarder` lets the engine bind, stop and be killed
at any time; `TunEngine` extends it and says when.

| Model | Code |
|---|---|
| `step`, `after`, `profile` | where the one call of `start` or `stop` is, what a stop returns to, and the profile it is for |
| `child` | `TunEngine.child`; "dead" is a process that ended and was not reaped |
| `system` | the device (none, bare, with its address, with its routes), the rule for marked packets, the config file |
| `started`, `slipped` | the last call was a start that succeeded; the last stop could not remove something |
| `Start`, `StopCalled`, `Restart` | `start` (465-474), `stop` from the daemon, `stop` in `main` (70); all three begin with `CallStop` |
| `AbortDns`, `KillChild`, `Remove` (device, rule, config file) | `stop` (476-491), in its order; each removal may fail, as the code allows |
| `WriteConfig`, `Spawn`, `DeviceSeen`, `SetAddress`, `SetRoutes`, `AddRule`, `BindDns` | `bring_up` (356-449), in its order; `Possible` is what the kernel asks for |
| `BringUpFails` | an error at any of them: the engine stops, the error is returned (469-472) |

Calls never overlap, the daemon's mutex sees to that, but the child, the device and the forwarder's
tasks move between any two steps of one. The device may outlive its process (the comment at
484-485), so `Orphaned` has both. Under the packaged unit systemd removes the directory of the config
file with the service; elsewhere it stays, and the model keeps that case. Left out: the route of the direct
table, which is replaced and flushed and so is never in the way; the gateway it goes through; a
`serve` that returns at once since the socket cannot be made asynchronous (43-49).

`ProxyDaemon` sees the engine as one value (no child, alive, dead), set by a start or a stop in one step: inside
the mutex nobody looks in between, and between two calls there is a child exactly if the last one was a
start that succeeded (`AnswerCorrect`, proved).

### 2.4 ProfileStore

One action per step of `save`: `ReplaceAll` (memory first, and the mode), `Open`
(with the removal of a stale file), `Write`, `Sync`, `Rename`, `SyncDir`; any of them may
be `SaveFails`, and `Crash` or `PowerCut` may come between any two. `durable` is the set of
directory states a power cut may leave: the one of the last directory sync and all
since. The file system assumed is a journalling one: renames are atomic and reach the
disk in order, the contents of a file only with `fsync`. Saves do not overlap because
`set_profiles` holds the store's write lock (service.rs 322-328). Hand edits happen
while the daemon is down (an edit under a running daemon is overwritten by its next save),
and the user does not change permissions in the middle of a save.

A file that is not UTF-8 (`Binary`) is an I/O error for `read_to_string` and not a
corrupt store: it is not moved aside and every later load fails too, although 26-29
say that the next load starts empty "instead of failing forever". The model
keeps this; `StoreLoads` names it as its exception.

### 2.5 Clients

A command of the CLI (`add`, `remove`, `assign`) and a save of the GUI are sequences of D-Bus calls:
`Fetch` the set, `StoreSecret`, `Push` it back, delete what is unused (`Drop` after the push in the
CLI, `DropPrev` before it in the GUI). `client` is the command in progress with its copy of the
set; after any call it may end (`GiveUp`), and the daemon or the machine may (`Crash`, `PowerCut`).
The daemon's side is `secrets` (`FileSecrets.entries`), `profiles`, and both files in `disk`;
`durable` is what a power cut may leave, as in `ProfileStore`. `SaveSecrets` renames without
a directory sync, `SaveProfiles` syncs, and what was renamed before is on the disk then, too.
`Fault` counts errors up to `MaxFaults`.

A connection without a profile and one whose profile has no credentials look alike. One command
runs at a time (the comment at cli main.rs:493 accepts that the last of two wins). `enable` and
`disable` push the set back with the credentials it had, as `edit` does. Left out: without a daemon
the CLI edits the local file, which under the packaged unit is not the daemon's; a `secrets.json`
that does not parse keeps the daemon from starting (main.rs:56), there is no quarantine for it.

### 2.6 NetworkManager and NmClient

| Model | Code |
|---|---|
| `saved` | the settings objects: the SSID of a Wi-Fi, wired, or absent |
| `active`, `primary` | the objects of ActiveConnections with their state, and PrimaryConnection |
| `query` | the method in progress and its locals: `lead` (the primary connection read, 473), the object at hand, what is left of the loop, the index, the result so far, and which reads failed |
| `seen` | history: what was so throughout the query, and at some instant of it |

`NetworkManager` changes as it likes between any two calls: connections are activated, become active,
go down, are saved and forgotten, and the default route moves. `NmClient` runs one method at a time:

* `active_wifi`: `ReadPrimary`, `ReadActives`, then per object `Examine` (type and state) and `Details`
  (uuid, device, SSID, addresses), or `NotFound`. `First` is the sort of 479-483;
* `saved_wifi_connections`: `ListSaved`, `ReadIndex`, `IndexOne` and `IndexDone` (`active_connection_index`),
  `ReadSettings` of each connection, `SavedListed`;
* `connect_wifi`: `ConnectList`, `ConnectLook` at each saved connection, then `ConnectReuse`
  or `ConnectNew`, or `ConnectFails`.

zbus caches the properties of one object, so an object is read at one instant; what hangs off
it (device, access point, addresses) is read later: `Reported` is what the device may say by then. Every
read may fail, with the effect its `unwrap_or_default`, `continue` or `?` has. D-Bus paths
are never given out twice by NetworkManager; with finitely many names the model uses one again
when no query remembers it (`NewPaths`, `NewConns`). Signal strength, addresses and
device names are left out, no decision reads them.

What this says about `ProxyDaemon`, whose `PollRead` takes the pair [wifi, route] in one step. A
reading of a Wi-Fi with the default route is the only one for which the poller starts a proxy, and both halves of it were
true in the query, though not necessarily at the same instant (`ReadingWasTrue`). While the network does not
change, and can be read, the answer is exactly the primary Wi-Fi (`StableWifiIsFound`): this is what the
liveness properties, which suppose a network that stays, rest on. A torn reading
(no route though the connection has just become primary, or no Wi-Fi) is one of the
readings `Roam` may set, since `Roam` sets any.

## 3. Runs

| Run | Instance | Shows |
|---|---|---|
| `daemon_lifecycle` | 2 networks, 1 caller, edits, shutdown, crash, failing deletes | `ProxyDaemon` implements `SteeredTunnel`; no tunnel is left for another network than the poll read; blocking rules go only in a stop that no step of `start_proxy` asked for, as long as the child can be spawned |
| `daemon_history` | 1 network, 2 callers, 3 kinds of profile, back-off 2, every failure | the settled state and the snapshot with two racing callers; with the kill switch a failed start is reported as one; a stop sticks; a start that succeeded is not undone by the poller, also when its profile has no auto-connect or is edited; the poller backs off after each kind of failure, that of its own health check included |
| `daemon_liveness` | 1 network, 1 caller, fair | the six liveness properties |
| `kill_switch_retry` | violation | see finding 1 |
| `late_start` | violation | see finding 2 |
| `stop_undone` | violation | see finding 3 |
| `ruleset` | all settings, all packets, tunnel up or gone | what leaves by the Wi-Fi, five ways |
| `dns_leak` | violation, default settings | see finding 4 |
| `tun_engine` | 2 queries, 2 upstreams (as in the code), 1 permit, the four kinds of profile, fair | what a start or stop leaves and meets, whatever fails or dies in it; that a running tunnel is as configured; permits, replies, time-outs; that the engine comes back |
| `profile_store` | 2 sets, 3 unreadable texts (one not UTF-8), 2 backup names, fair | refinement of `AtomicStore`, quarantine, permissions, loading |
| `clients` | 2 connections, 3 ids, at most 4 errors or deaths | references, durability of stored credentials, no orphans |
| `nm_client` | 3 connections, 2 SSIDs, 2 paths, any read may fail | what the queries answer while NetworkManager changes, and that a known network is reused |

Bounds and why they suffice:

* two networks are needed to roam between profiles; a third adds a name only. One
  caller next to the poller makes every race of two that the mutex decides; two callers
  race each other in `daemon_history`. The state machine has one instance, so the
  proofs cover what more networks or callers could add;
* `RetryTicks` is 6 in the code (half a minute of five-second polls). With 2 a failed
  proxy passes through "just failed", "waiting" and "due"; with 1 nothing waits, which
  the lifecycle and liveness runs do not need;
* `failed_ticks` is a counter without an end in the code; it is only compared with
  `RetryTicks`, so it stops there in the model;
* two queries over one permit: one is shed while the other is in flight, or waits in the buffer
  while the forwarder is replaced; the proofs cover more of either;
* two backup names are both used up, and `MaxUnsynced` only bounds how many hand edits and
  `chmod`s pile up before something reaches the disk;
* in `Clients` two connections share credentials or not, and three ids leave one for a replacement
  while both are in use. Four errors are enough for a failed push, a failed delete, a crash and a power cut
  in one behaviour;
* in `NmClient` two paths: one object can come, go or fail while the loop is at the other, and the loops
  skip each object on its own. Three connections let one be saved or forgotten beside two that are
  up; two SSIDs tell the network asked for from another;
* `CHECK_DEADLOCK FALSE` for `Ruleset` only: a packet that has its verdict is done.

`Events` names what an instance lets happen, so that each run asks one question.
`daemon_lifecycle` leaves `engineStart` (a child that cannot be spawned) out since
`KillSwitchHolds` is false with it (finding 1). `daemon_history` has one network: with two
`ManualStopSticks` is false (finding 3). What else is checked there is proved for every
choice of networks, callers and events.

## 4. Fairness

* `WF` of the holder's steps (`Transition`), of the poll's read and of the tasks of the
  forwarder: the runtime schedules a task that can run. `SF` of whatever waits for the
  mutex: tokio's `Mutex` is FIFO, so a task in the queue gets its turn although the
  mutex is taken again and again. `SF` of `PollExit`: `select!` picks among ready
  branches at random, so a tick that is always due cannot win for ever.
* Of NetworkManager that its queries succeed again in the end: one that fails makes `poll_once`
  return early, which is no step, so `WF` of `PollRead` supposes that not every later one fails. Without
  it the poller does nothing more, and `WifiLossStops`, `DeathIsNoticed`, `ProxyRecovers` and
  `RemovedProfileStops` are lost; calls and the shutdown need no reading. Nothing is assumed of what the
  answers are.
* Nothing is assumed of clients, of the child, of failures, of a crash or of
  the restart after it. Where a property needs them to cease it says so
  (`<>[]Wanted(u)`, `<>[][~Fault]_vars`).
* `TunEngine`: a call goes on; a child that lives creates its device; a start that failed, or whose
  child died, is tried again by the poller (service.rs 521-530); a query task goes on since every
  await has a time-out; an aborted task is dropped. `EngineComesBack` supposes that errors from
  outside cease (`Disturbance`), the time-outs of queries are not among them.
* `ProfileStore`: systemd starts a daemon whose load failed (`Restart=on-failure`).

## 5. What is proved

For every value of the constants, from the assumptions the modules state about them (named
below where they say more than that a "no such thing" value is not one of the things):

| Module | Theorem | Says |
|---|---|---|
| `DaemonProofs` | `TypeCorrect`, `Invariance` | `Spec => []TypeOK`, `Spec => []IInv` |
| | `SettledStateCorrect` | `Spec => []SettledStateIsTrue` |
| | `TunnelSteeredCorrect` | `Spec => []TunnelIsSteered` |
| | `SnapshotCorrect` | `Spec => []SnapshotIsHonest` |
| | `ReadingCorrect` | `Spec => []TunnelFollowsReading` |
| | `Refinement`, `NeverUnsteeredCorrect` | `Spec => ImplementsSteeredTunnel`, and `[]Tunnel!NeverUnsteered` from it |
| `TransitionProofs` | `KillInvariance` | `Spec => []KillInv` |
| | `FailureReported` | `Spec => StartReportsFailure` |
| | `KillSwitchCorrect` | `"engineStart" \notin Events` implies `Spec => KillSwitchHolds` |
| | `PlaceInvariance` | `Spec => []PlaceInv` |
| | `TransitionsEnd` | `Spec => [](StepsLeft \in 0 .. 9) /\ [][Nearer]_vars` |
| | `NothingLeftBehindCorrect` | `"nftDelete" \notin Events` implies `Spec /\ [][InTime]_vars => []NothingLeftBehind` |
| `HistoryProofs` | `CountInvariance`, `BackOffCorrect` | `HistorySpec => []BackOffInv`, `HistorySpec => PollerBacksOff` |
| | `StopSticksUnlessStale` | `HistorySpec /\ NoStaleReading => ManualStopSticks` |
| | `StopSticksAtHome` | `"roam" \notin Events` implies `HistorySpec => ManualStopSticks` |
| | `ManualStartCorrect` | `HistorySpec => ManualStartSticks` |
| `RulesetProofs` | `PacketInvariance`, `TypeCorrect` | `Spec => []PacketInv`, `Spec => []TypeOK` |
| | `KillSwitchCorrect`, `QueriesCorrect`, `Ipv6Correct` | `Spec => []KillSwitchCloses`, `[]QueriesGoToForwarder`, `[]Ipv6DoesNotLeak` |
| | `EngineCorrect`, `BlockedUdpCorrect` | `Spec => []EngineReachesProxy`, `[]BlockedUdpIsRejected` |
| | `QueriesStayWithTheTunnel` | `Spec => [](up /\ p.dns_proxied /\ Query => ~Leaves("wifi"))` |
| `TunEngineProofs` | `ForwarderTypeCorrect`, `PermitsCorrect`, `RepliesCorrect` | `Spec => []TypeOK`, `[]PermitsAreConserved`, `[]AtMostOneReply` (of the forwarder) |
| | `QueriesEnd` | `Spec => [](AwaitsLeft(q) \in 0 .. 3 * Upstreams)` for each query, and `[][TaskNearer(q)]_vars` |
| | `Forwards`, `PermitsInEngine` | `EngineSpec => Spec` of the forwarder, so `[]PermitsAreConserved` |
| | `EngineInvariance`, `EngineTypeCorrect` | `EngineSpec => []EngineInv`, `[]EngineTypeOK` |
| | `NothingLeftCorrect`, `NothingInTheWayCorrect`, `ConfiguredCorrect` | `EngineSpec => []NothingIsLeft`, `[]NothingInTheWay`, `[]TunnelIsAsConfigured` |
| | `AnswerCorrect` | `EngineSpec => []AnswerIsTrue` |
| | `CallsEnd` | `EngineSpec => [](CallLeft \in 0 .. 17) /\ [][CallNearer]_allVars` |
| `ProfileStoreProofs` | `TypeCorrect`, `Invariance` | `Spec => []TypeOK`, `Spec => []StoreInv` |
| | `Refinement`, `DoneIsStableCorrect` | `Spec => ImplementsAtomicStore`, and `[]Promised!DoneIsStable` from it |
| | `ModeCorrect`, `QuarantineCorrect` | `Spec => SaveNeverWidens`, `Spec => QuarantineKeepsBytes` |
| `ClientsProofs` | `TypeCorrect`, `Invariance` | `Spec => []TypeOK`, `Spec => []CredentialsInv` |
| | `ReferencesCorrect`, `SavedCorrect`, `OrphansCorrect` | `Spec => []CliKeepsReferences`, `[]SavedIsUsable`, `[]NoOrphans` |
| `NmClientProofs` | `TypeCorrect`, `QueryInvariance` | `Spec => []TypeOK`, `Spec => []QueryInv` |
| | `ReadingCorrect`, `StableWifiCorrect` | `Spec => []ReadingWasTrue`, `[]StableWifiIsFound` |
| | `SavedListCorrect`, `ReuseCorrect` | `Spec => []SavedListIsRight`, `[]NetworkIsReused` |
| | `MethodsEnd` | with finitely many connections and objects, `Spec => [](CallsLeft \in 0 .. n) /\ [][MethodNearer]_vars` |

The arguments. None of the properties is inductive: a step in the middle of an operation needs
to know what the steps before it did. Each proof module defines the invariant that says so,
has one lemma per action (or per call), and derives its theorems from the invariant.

* `IInv` (daemon) says per label who holds the mutex (`LockInv`: exactly the task whose label is
  inside it), what the locals are (`LocalsInv`), what child and rules exist at each step of a
  start or stop (`StepInv`, `PlaneInv`), that the state is one of three whenever the
  mutex is free, a transition is about to begin, or about to return (`StateInv`), whom
  the poll acts for (`ReadingInv`) and that the snapshot agrees (`SnapInv`). Because of
  `LockInv` a step of one task leaves what `IInv` says of the others untouched. `Refinement`
  needs it to see that the rules loaded at the label "engine" are those of the new tunnel. From:
  the names of the daemon's tasks are no callers, the back-off is positive.
* `KillInv` adds what the task inside the mutex knows of the kill switch (`Knows`): the loaded rules are
  those of the profile in use, and whoever undoes a start does so without a kill
  switch. The one exception is `Unwind`, after a child that could not be spawned: `SpawnInv` says that it is
  never reached if the child can always be spawned. This is the premise of `KillSwitchCorrect`, and
  `kill_switch_retry` shows that it cannot be dropped.
* `BackOffInv`: `failed_ticks` never runs ahead of `sinceFail`, the polls that the
  history counts since the last failure. Every way to Failed sets both to zero
  (`FailureResets`): a failed start does so inside the mutex, where the poller does not count, and
  the poller itself does when its health check fails, at the poll that would have counted.
* `ByHandInv`: a tunnel whose caller was told that it started, and whose child has lived ever since, is
  `manual`. Only the reply of a start reports it (`ReplyEffect`), and only `StopRules` and
  the end of the process clear `manual`, with no child alive.
* `NoStaleReading` (that no task that gets the mutex acts on a network that has changed since it read it) makes
  `ManualStopSticks` true. `SnapshotInv`: the snapshot then shows the network that is in use, or that
  the tunnel is for; `QuietInv`: as long as a stop has not been taken back, the poller is on no way to a
  start. Without changes of the network nobody's reading can be stale (`StayInv`), hence `StopSticksAtHome`.
  Its two halves, the poller's reading and a client's, are both needed (finding 3).
* `PlaceInv` says which labels a task can be at inside the mutex, and where a stop returns to. With it every step of
  the holder lowers `StepsLeft`, and no step of anyone else changes it. `CleanInv` says what is loaded after the
  main task's stop: nothing, and no client is at a step of a start. `InTime` is the one step that breaks
  it, a client that gets the mutex after the clean-up (finding 2).
* `PacketInv`: the verdict of the list of rules, which `FirstMatch` looks for in order, is the one of a
  table of conditions without order (`Decision`, from which the properties follow case by
  case), and a packet keeps its class while it is marked, redirected and routed again. The lemma
  `FilterDecides` goes through the list rule by rule: `OneRule` and `Conditional` say what a rule that
  is always, or under some settings, in the list does to the verdict of what comes after it.
* `ForwarderInv`: a task that still asks has not replied; a permit is taken and given back with a task,
  counted with the cardinality theorems. From: finitely many queries.
* `EngineInv` says per step what a stop has undone (`UndoneInv`) and what a start has done (`DoneInv`; of the
  device only if the child lives), unless a removal failed. `AnswerIsTrue` does not need the exception: the
  child is killed in any case. `Forwards` maps each step of the engine to a
  step of the forwarder or a stutter, so what is proved of `DnsForwarder` holds in `TunEngine`.
* `StoreInv`: what the temporary file is at each step (`SaveInv`), that no power cut leaves a
  file under the store's name that was not synced (`SyncedInv`), whose permissions it has
  (`ModeInv`). That the first free backup name exists is the well-foundedness of `<` on the naturals
  (`FirstFree`). From: file contents are told apart, and the absent file from any.
* `CredentialsInv`: what a command has stored is new to everybody (`LocalsInv`), there until its profile
  is (`StoredInv`), and what a command has yet to drop is all that may be an orphan (`OrphansInv`).
  The bound on faults plays no part in it.
* `QueryInv` relates a query to its history: what must be found is still to be looked at
  (`TodoInv`, `IndexInv`, `RowsInv`, `ConnectInv`), the primary connection that was read led at some
  instant (`LeadInv`), and the object at hand is the one that was found or is gone (`DetailsInv`).

Every one of these has an end: a transition of the daemon, a call of the engine, a query's task, a
method of the NetworkManager client. For each a theorem gives a number of steps that no step of anybody else
raises and that each of its own lowers (`StepsLeft`, `CallLeft`, `AwaitsLeft`, `CallsLeft`). This is the half
of the liveness properties that needs no fairness: with it, "whoever can go on goes on" is all that they
still suppose of whoever is inside. For the client the number is made of what is left of the
lists that were read, counted with the cardinality theorems.

The type invariants of the daemon, the store, the clients, the NetworkManager client and the forwarder
alone are proved and in no run. Every safety property of a passing run is proved, the invariants and the properties of
steps, and each of the four statements that a run refutes is proved from a premise that says
what the code lacks (section 6).

Only model-checked:

* liveness (the six properties of `daemon_liveness`, `LastUpstreamAnswers`, `EngineComesBack`,
  `StoreLoads`): fairness and `ENABLED` are outside the prover;
* that the premises of the conditional theorems cannot be dropped: the four violation runs show it of the
  premise each finding is about, and TLC finds a stop undone with either half of `NoStaleReading` alone.

## 6. Where code and repository disagree

Each is a run in which TLC finds the named statement violated:

1. `kill_switch_retry`: the child dies under the kill switch, the poller keeps the rules
   and retries; if the retry cannot start the child, service.rs:627 removes the rules
   that were blocking, and nothing blocks until the next retry half a minute later. The start need
   not meet a broken system to fail: `TunEngine` shows that it fails at the bind (dataplane.rs:437)
   while queries of the last forwarder, which now has no tunnel, wait for their time-outs.
   If the child can always be spawned the statement holds (`KillSwitchCorrect`).
2. `late_start`: the D-Bus object lives until `main` returns. A start that gets the mutex after
   clean-up leaves its rules in the kernel. Without such a start, and if `nft` deletes what it is asked to,
   nothing is left (`NothingLeftBehindCorrect`).
3. `stop_undone`: a poll that read another network before a stop ended clears
   `user_stopped` after it, and starts what the user just stopped. There is a second way: a manual
   start that waited with a network read earlier starts the tunnel there; a stop then records that network
   (service.rs:772-776), and the poll of the one in use clears it. Without a stale reading
   on either side the stop sticks (`StopSticksUnlessStale`), so it does while the Wi-Fi stays the same.
4. `dns_leak`: the rule that accepts a redirected query (dataplane.rs:130-132) names no interface.
   When the tunnel is gone the query is addressed to the tunnel's address, routed to the
   Wi-Fi, and accepted before the kill switch is reached. As long as the tunnel is up no query leaves by
   the Wi-Fi, under any settings (`QueriesStayWithTheTunnel`).

Seen while reading, without a run of their own:

* without the kill switch a failed health check ends in `stop_proxy`, the state is Disconnected and the
  test for Failed at service.rs:758 misses it: the caller is told of success. `StartReportsFailure` excepts this case;
* a manual start that waited for the mutex starts for the network it saw before, though
  729 refuses one for another network than the active one;
* `manual` is set (737) also when the start failed and nothing runs;
* `proxy_active` is false while a tunnel still runs when a restart fails early (603, 610);
* a poll that matched an auto-connect profile starts whatever enabled profile it finds at its second
  look (581), also one without auto-connect;
* `set_kill_switch(false)` in `stop_proxy` (668) never does anything: `remove` has just
  cleared `applied` (dataplane.rs:270), also when the delete failed;
* a restart into a profile without kill switch drops the blocking rules while the old
  child may be dead (608-614);
* with the kill switch the final drop (dataplane.rs:191-193) also takes IPv6 neighbour discovery, which the
  comment at 186 says the link needs;
* the GUI deletes the previous credentials before it stores the profile that no longer uses them, and without
  the look at who shares them that the CLI takes (501-503): `CliKeepsReferences` excepts what follows;
* `profiles add` looks at host, port and modes after it has stored the credentials (432-452, 581-588), so a
  command refused for them leaves a password nobody uses (`GiveUp`, which `NoOrphans` excepts);
* a type or state that cannot be read skips the connection (networkmanager.rs:502, 508), so `active_wifi` may answer
  "no Wi-Fi" although the comment at 474-477 wants a broken query never to be mistaken for that; the
  poller stops the proxy then. `StableWifiIsFound` excepts objects whose reads failed;
* a uuid that cannot be read is returned empty (512), and matches no profile;
* "no default route" may have been true at no instant of the query: the primary connection is read
  first, and may have moved to the one that is found;
* `connect_wifi` that could not read the settings of a known network, or overlaps with another, saves it
  a second time; the copy has a new uuid, so no profile applies to it;
* a connection that is still activating is listed as active by `saved_wifi_connections`;
* docs/DEVELOPING.md and the code disagree about `ApiVersion`.

## 7. What is not modelled, and the plan

Left out for good: widgets and tables, logging, argument parsing, the text of the script and its
quoting, probes (request and reply, no state), the scan and `wifi_enabled` (reads that keep
nothing), namespaces of the tests, the authorisation of D-Bus calls (a question put to polkit before
the call, which changes nothing), the tray icon (its calls are those of any client).

Partly modelled: editing the local
profile file without a daemon; `manual_test`, which reads the snapshot twice (service.rs:796-811)
and so may test the profile of one network on the interface of another, but changes nothing.

Next, in this order:

1. `Clients` with two commands at once: what a lost update does to credentials.
2. `ProxyDaemon` with `PollRead` replaced by the query of `NmClient`, so that a profile edit or
   a manual start falls between two of its reads.
3. `TunEngine` under `ProxyDaemon` in place of its one-step engine, so that a call from D-Bus may
   wait behind a start in the middle of `bring_up`; the product is beyond TLC today. `AnswerCorrect` and
   `CallsEnd` are what the composition rests on; the refinement itself is to be stated and proved.

## 8. Running it

    tlc -config DaemonLifecycle.cfg MCProxyDaemon.tla
    tlc -config DaemonHistory.cfg MCDaemonHistory.tla
    tlc -config DaemonLiveness.cfg MCProxyDaemon.tla
    tlc -config Ruleset.cfg MCRuleset.tla
    tlc -config TunEngine.cfg MCTunEngine.tla
    tlc -config ProfileStore.cfg MCProfileStore.tla
    tlc -config Clients.cfg MCClients.tla
    tlc -config NmClient.cfg MCNmClient.tla
    for m in Daemon Transition History Ruleset TunEngine ProfileStore Clients NmClient; do
        tlapm ${m}Proofs.tla
    done

`KillSwitchRetry`, `LateStart` (`MCProxyDaemon`), `StopUndone`
(`MCDaemonHistory`) and `DnsLeak` (`MCRuleset`) end with a counterexample.
