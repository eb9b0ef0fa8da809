--------------------------- MODULE DaemonHistory ---------------------------
(***************************************************************************)
(* ProxyDaemon with three history variables, for the promises that compare *)
(* what the daemon does with what happened some time before: how long a    *)
(* manual stop or start sticks, and how soon a failed proxy is tried again.*)
(***************************************************************************)
EXTENDS ProxyDaemon

VARIABLES
    quiet,     \* the network the user stopped the proxy on and has not left since
    sinceFail, \* polls since the failure the state is in, up to RetryTicks
    byHand     \* a child is alive since a caller was told that the proxy started

historyVars == <<vars, quiet, sinceFail, byHand>>

HistoryInit == Init /\ quiet = NoConn /\ sinceFail = RetryTicks /\ byHand = FALSE

StopTakesEffect  == \E c \in Clients : pc[c] = "stopped" /\ pc'[c] = "ok"
StartTakesEffect == \E c \in Clients : pc[c] = "waitStart" /\ pc'[c] = "begin"
StartAnswered    == \E c \in Clients : pc[c] = "started" /\ pc'[c] = "ok"

\* A stop counts for the network the machine is on, once a poll has published it.
Quiet ==
    quiet' = IF StopTakesEffect
               THEN IF snap.wifi = nm.wifi THEN nm.wifi ELSE NoConn
             ELSE IF StartTakesEffect \/ nm'.wifi # quiet \/ phase' \notin {"up", "stopping"}
               THEN NoConn
             ELSE quiet

\* The poll that finds the child of an Active proxy dead under the kill switch.
PollFails == PollWifi /\ Verdict(arg[Poller]) = "fail"

\* Whatever calls record_failure.
FailStep ==
    \/ PollFails
    \/ \E t \in Tasks : ResolveFails(t) \/ ApplyFails(t) \/ Unwind(t) \/ HealthFails(t)

PollTick == pc[Poller] = "waitPoll" /\ pc'[Poller] # "waitPoll"

\* A stop ends the failure, also the one start_proxy makes when a profile without
\* kill switch fails its health check: the next poll may start at once.
SinceFail ==
    sinceFail' = IF FailStep THEN 0
                 ELSE IF inner'.proxy_state = "Disconnected" THEN RetryTicks
                 ELSE IF PollTick /\ sinceFail < RetryTicks THEN sinceFail + 1
                 ELSE sinceFail

ByHand == byHand' = ((byHand \/ StartAnswered) /\ engine'.run = "alive")

HistoryNext == Next /\ Quiet /\ SinceFail /\ ByHand

HistorySpec == HistoryInit /\ [][HistoryNext]_historyVars

\* README.md:17, service.rs:774: a manual stop is not undone by auto-connect while
\* the machine stays on the network, whatever poll was under way when it came.
ManualStopSticks ==
    [][ pc[Poller] = "engine" /\ engine'.run = "alive" => quiet = NoConn ]_historyVars

\* service.rs:501: what a caller was told is running the poller does not take down again,
\* with auto-connect or without and whatever link is primary, on the tunnel's network and
\* as long as its profile is enabled.
ManualStartSticks ==
    [][ byHand /\ pc[Poller] = "waitPoll" /\ pc'[Poller] = "stopEngine"
            /\ engine.conn = arg[Poller].wifi
          => ~store[engine.conn].enabled ]_historyVars

\* service.rs:250-253: the poller gives a proxy that is Failed RetryTicks polls before
\* it starts it again, whoever started it, wherever the start failed, and also if the
\* poll itself found it dead.
PollerBacksOff ==
    [][ pc[Poller] = "begin" /\ pc'[Poller] = "apply" => sinceFail >= RetryTicks ]_historyVars
=============================================================================
