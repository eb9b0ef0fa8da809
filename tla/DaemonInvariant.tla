-------------------------- MODULE DaemonInvariant --------------------------
(***************************************************************************)
(* The inductive invariant of ProxyDaemon: what holds in the middle of a   *)
(* transition, so that the promises about its end can be carried from step *)
(* to step.  TLC checks it on small instances, DaemonProofs proves it.     *)
(***************************************************************************)
EXTENDS ProxyDaemon

\* One task at most is inside the mutex, and a process that is gone holds nothing.
LockInv ==
    /\ \A t \in Tasks : pc[t] \in Holding <=> lock = t
    /\ ~Running => lock = Nobody /\ engine = NoEngine

\* Between start_proxy's read of its argument and its last use of it.
Bound == {"waitStart", "begin", "apply", "engine", "unwind", "health"}

\* What each label of a transition knows of its own locals.
LocalsInv ==
    /\ \A t \in Tasks : pc[t] \in Bound => arg[t].wifi # NoConn
    /\ \A t \in Tasks : pc[t] \in StopSteps =>
           call.ret # "idle" /\ (call.ret = "begin" => arg[t].wifi # NoConn)

\* The child belongs to active_uuid, and some rules are loaded while it lives.
PlaneInv ==
    /\ engine.run = "none" => engine.conn = NoConn
    /\ engine.run # "none" => engine.conn = inner.active_uuid /\ inner.active_uuid # NoConn
    /\ table.conn = NoConn => ~table.kill
    /\ engine.run = "alive" =>
           /\ table.conn # NoConn
           /\ table.conn = engine.conn \/ \E t \in Tasks : pc[t] = "engine"

\* How far start_proxy and stop_proxy have got.
StepInv ==
    \A t \in Tasks :
        /\ pc[t] = "engine" => table.conn = arg[t].wifi /\ applied = table
        /\ pc[t] = "health" => /\ inner.proxy_active
                               /\ engine.run # "none"
                               /\ table.conn = inner.active_uuid /\ applied = table
                               /\ inner.active_uuid = arg[t].wifi
        /\ pc[t] \in {"unwind", "stopRules"} => engine.run = "none"

\* The three states a transition may end in, or be entered in.
Truthful ==
    \/ /\ inner.proxy_state = "Disconnected"
       /\ ~inner.proxy_active /\ ~inner.last_error
       /\ inner.active_uuid = NoConn /\ inner.failed_ticks = 0
       /\ applied = NoTable
    \/ /\ inner.proxy_state = "Active"
       /\ inner.proxy_active
       /\ engine.run # "none"
       /\ table.conn = inner.active_uuid /\ applied = table
    \/ /\ inner.proxy_state = "Failed"
       /\ ~inner.proxy_active /\ inner.last_error

StateInv ==
    /\ lock = Nobody => Truthful
    /\ \A t \in Tasks : /\ pc[t] \in Returns \cup {"begin"} => Truthful
                        /\ pc[t] \in {"stopped", "cleaned"} => inner.proxy_state = "Disconnected"

\* The poll acts for the connection it read, or has nothing up.
ReadingInv ==
    /\ pc[Poller] \in StartSteps \cup {"publish"} =>
           inner.active_uuid \in {NoConn, arg[Poller].wifi}
    /\ pc[Poller] = "publish" /\ arg[Poller].wifi = NoConn =>
           inner.proxy_state = "Disconnected"

SnapInv ==
    lock = Nobody /\ pc[Cleaner] # "exited" =>
        /\ snap.proxy_state = inner.proxy_state
        /\ snap.proxy_active = inner.proxy_active
        /\ snap.last_error = inner.last_error

\* Everything the daemon keeps true at every step, whoever takes it (service.rs,
\* start_proxy and stop_proxy under `transition`).
IInv ==
    /\ TypeOK /\ LockInv /\ LocalsInv /\ PlaneInv
    /\ StepInv /\ StateInv /\ ReadingInv /\ SnapInv
=============================================================================
