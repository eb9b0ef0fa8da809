--------------------------- MODULE HistoryProofs ----------------------------
(***************************************************************************)
(* The poller leaves a proxy that failed alone for RetryTicks polls, for   *)
(* every set of networks, clients and profiles, every back-off and every   *)
(* choice of Events: the counter the code keeps never runs ahead of the    *)
(* polls that history has counted since the failure.                       *)
(*                                                                         *)
(* It takes down no tunnel that a caller was told is up, while its profile *)
(* is enabled and the network is the tunnel's.                             *)
(*                                                                         *)
(* And it respects a manual stop, as long as nobody acts on a reading of   *)
(* the network that was overtaken while it waited for the mutex; without   *)
(* roaming nobody can.                                                     *)
(***************************************************************************)
EXTENDS DaemonHistory, TransitionProofs

BackOffInv ==
    /\ sinceFail \in 0 .. RetryTicks
    /\ inner.proxy_state = "Disconnected" => sinceFail = RetryTicks
    /\ inner.proxy_state = "Failed" => inner.failed_ticks <= sinceFail
    /\ pc[Poller] = "begin" => sinceFail = RetryTicks

\* A step that is no failure leaves at most one tick more in a proxy that is Failed, and one
\* more only when a poll begins.
MovesOn ==
    inner'.proxy_state = "Failed" =>
        \/ inner'.failed_ticks = 0
        \/ /\ inner.proxy_state = "Failed"
           /\ \/ inner'.failed_ticks = inner.failed_ticks
              \/ PollTick /\ inner'.failed_ticks = inner.failed_ticks + 1

\* The poller begins a start from Disconnected, or after its ticks in Failed.
BeginsWell ==
    pc'[Poller] = "begin" =>
        \/ pc[Poller] = "begin"
        \/ inner'.proxy_state = "Disconnected"
        \/ PollTick /\ inner.proxy_state = "Failed" /\ inner.failed_ticks + 1 >= RetryTicks

-----------------------------------------------------------------------------
(* Failures. *)

LEMMA FailureResets ==
    ASSUME KillInv, FailStep
    PROVE  /\ inner'.proxy_state = "Failed" /\ inner'.failed_ticks = 0
           /\ pc'[Poller] # "begin"
<1>1. inner \in Inners /\ pc \in [Tasks -> Labels] /\ Poller \in Tasks
  BY DEF KillInv, IInv, TypeOK, Tasks
<1>2. CASE PollFails
  <2>1. inner' = RecordFailure(Ticked(arg[Poller].wifi)) /\ pc'[Poller] = "publish"
    BY <1>1, <1>2 DEF PollFails, PollWifi, Goto
  <2> QED BY <1>1, <2>1 DEF RecordFailure, Ticked, Inners
<1>3. CASE \E t \in Tasks : ResolveFails(t) \/ ApplyFails(t) \/ Unwind(t) \/ HealthFails(t)
  <2>1. PICK t \in Tasks : ResolveFails(t) \/ ApplyFails(t) \/ Unwind(t) \/ HealthFails(t)
    BY <1>3
  <2>2. inner' = RecordFailure(inner)
    BY <2>1 DEF ResolveFails, ApplyFails, Unwind, HealthFails
  <2>3. pc[t] \in Holding /\ \A u \in Tasks \ {t} : pc'[u] = pc[u]
    BY <2>1, StartProxyKnows DEF StartProxy
  <2>4. t # Poller => pc[Poller] \notin Holding
    BY <1>1, <2>3, HolderAlone DEF KillInv
  <2>5. pc'[t] # "begin"
    BY <1>1, <2>1 DEF ResolveFails, ApplyFails, Unwind, HealthFails, Goto, Return
  <2> QED
    BY <1>1, <2>2, <2>3, <2>4, <2>5 DEF RecordFailure, Inners, Holding, StartSteps
<1> QED BY <1>2, <1>3 DEF FailStep

-----------------------------------------------------------------------------
(* Any other step. *)

LEMMA TransitionMoves ==
    ASSUME KillInv, NEW t \in Tasks, Transition(t), ~FailStep
    PROVE  MovesOn /\ BeginsWell
<1>1. inner \in Inners /\ pc \in [Tasks -> Labels] /\ Poller \in Tasks
  BY DEF KillInv, IInv, TypeOK, Tasks
<1>2. t # Poller => pc'[Poller] = pc[Poller]
  BY <1>1, TransitionKnows
<1>3. CASE StopRules(t)
  BY <1>1, <1>3 DEF StopRules, Stopped, NewInner, MovesOn, BeginsWell
<1>4. CASE StartBegin(t) \/ StartEngine(t) \/ HealthOk(t)
  <2>1. inner'.proxy_state \in {"Starting", "HealthCheck", "Active"}
    BY <1>1, <1>4 DEF StartBegin, StartEngine, HealthOk, Inners
  <2>2. pc'[t] # "begin"
    BY <1>1, <1>4 DEF StartBegin, StartEngine, HealthOk, Goto, Return
  <2> QED BY <1>2, <2>1, <2>2 DEF MovesOn, BeginsWell
<1>5. CASE StartNoProfile(t) \/ ApplyRules(t) \/ EngineFails(t) \/ StopEngine(t)
  <2>1. inner' = inner /\ pc'[t] # "begin"
    BY <1>1, <1>5
       DEF StartNoProfile, ApplyRules, EngineFails, StopEngine, Goto, Return
  <2> QED BY <1>2, <2>1 DEF MovesOn, BeginsWell
<1>6. CASE \/ t = Poller /\ PollPublish
           \/ t = Cleaner /\ CleanupDone
           \/ t \in Clients /\ (ManualStarted(t) \/ ManualStartFailed(t) \/ ManualStopped(t))
  <2>1. /\ inner'.proxy_state = inner.proxy_state /\ inner'.failed_ticks = inner.failed_ticks
        /\ pc'[t] # "begin"
    BY <1>1, <1>6 DEF PollPublish, CleanupDone, ManualStarted, ManualStartFailed, ManualStopped,
       Release, Goto, Inners
  <2> QED BY <1>2, <2>1 DEF MovesOn, BeginsWell
<1> QED
  BY <1>3, <1>4, <1>5, <1>6 DEF Transition, StartProxy, StopProxy, FailStep

\* What a poll makes of the counter.
LEMMA TicksOnce ==
    ASSUME inner \in Inners, NEW w
    PROVE  /\ Ticked(w).proxy_state = inner.proxy_state
           /\ inner.proxy_state # "Failed" => Ticked(w).failed_ticks = 0
           /\ inner.proxy_state = "Failed" =>
                Ticked(w).failed_ticks \in {inner.failed_ticks, inner.failed_ticks + 1}
BY DEF Inners, Ticked

LEMMA PollMoves ==
    ASSUME KillInv, PollLocked, ~FailStep
    PROVE  MovesOn /\ BeginsWell
<1>1. inner \in Inners /\ pc \in [Tasks -> Labels] /\ Poller \in Tasks
  BY DEF KillInv, IInv, TypeOK, Tasks
<1>2. lock = Nobody /\ pc[Poller] = "waitPoll" /\ Truthful
  BY NobodyInside DEF KillInv, PollLocked, PollNoWifi, PollWifi, PollLock
<1>3. CASE PollNoWifi
  <2>1. /\ \/ inner'.proxy_state = "Stopping"
           \/ inner'.proxy_state = inner.proxy_state /\ inner'.failed_ticks = inner.failed_ticks
        /\ pc'[Poller] # "begin"
    BY <1>1, <1>3 DEF PollNoWifi, CallStop, Goto, Inners
  <2> QED BY <2>1 DEF MovesOn, BeginsWell
<1>4. CASE PollWifi
  <2> DEFINE r == arg[Poller]
  <2>1. CASE Verdict(r) = "restart" \/ Verdict(r) = "stop" \/ Verdict(r) = "keep"
    <3>1. inner' = Ticked(r.wifi) /\ pc'[Poller] \in {"stopEngine", "publish"}
      BY <1>1, <1>4, <2>1 DEF PollWifi, CallStop, Goto
    <3> QED BY <1>1, <1>2, <3>1, TicksOnce DEF MovesOn, BeginsWell, PollTick
  <2>2. CASE Verdict(r) = "start"
    <3>1. inner' = Ticked(r.wifi) /\ pc'[Poller] = "begin"
      BY <1>1, <1>4, <2>2 DEF PollWifi, Goto
    <3>2. \/ inner.proxy_state = "Disconnected"
          \/ inner.proxy_state = "Failed" /\ Ticked(r.wifi).failed_ticks >= RetryTicks
      BY <2>2 DEF Verdict
    <3>3. inner.proxy_state = "Failed" => inner.failed_ticks + 1 >= Ticked(r.wifi).failed_ticks
      BY <1>1, TicksOnce DEF Inners
    <3>4. RetryTicks \in Nat /\ inner.failed_ticks \in Nat /\ Ticked(r.wifi).failed_ticks \in Nat
      BY <1>1, RetryAssumption, TicksOnce DEF Inners
    <3>5. PollTick
      BY <1>2, <3>1 DEF PollTick
    <3> QED
      BY <1>1, <3>1, <3>2, <3>3, <3>4, <3>5, TicksOnce DEF MovesOn, BeginsWell
  <2>3. Verdict(r) # "fail"
    BY <1>4 DEF FailStep, PollFails
  <2> QED BY <1>4, <2>1, <2>2, <2>3 DEF PollWifi
<1> QED BY <1>3, <1>4 DEF PollLocked

LEMMA OtherMoves ==
    ASSUME KillInv, [Next]_vars, ~PollLocked, \A t \in Tasks : ~Transition(t)
    PROVE  MovesOn /\ BeginsWell
<1>1. inner \in Inners /\ pc \in [Tasks -> Labels] /\ Poller \in Tasks
  BY DEF KillInv, IInv, TypeOK, Tasks
<1>2. CASE Crash \/ Exit
  BY <1>1, <1>2 DEF Crash, Exit, ProcessGone, NewInner, MovesOn, BeginsWell
<1>3. ASSUME NEW c \in Clients, ManualStartLocked(c) \/ ManualStopLocked(c)
      PROVE  MovesOn /\ BeginsWell
  <2>1. c # Poller /\ pc'[Poller] = pc[Poller]
    BY <1>1, <1>3, ClientsAssumption DEF ManualStartLocked, ManualStopLocked, CallStop, Goto
  <2>2. inner'.proxy_state = inner.proxy_state /\ inner'.failed_ticks = inner.failed_ticks
    BY <1>1, <1>3 DEF ManualStartLocked, ManualStopLocked, Inners
  <2> QED BY <2>1, <2>2 DEF MovesOn, BeginsWell
<1>4. CASE Cleanup \/ Startup \/ UNCHANGED vars
  BY <1>1, <1>4 DEF Cleanup, Startup, CallStop, Goto, vars, MovesOn, BeginsWell, Poller, Cleaner
<1>5. CASE \/ PollRead \/ PollExit \/ SetProfiles \/ Signal \/ Roam \/ EngineDies
           \/ \E c \in Clients : ManualStart(c) \/ ManualStop(c)
  BY <1>1, <1>5, OutsideMoves DEF MovesOn, BeginsWell
<1> QED BY <1>2, <1>3, <1>4, <1>5 DEF Next

-----------------------------------------------------------------------------
(* History counts at least what the daemon counts. *)

LEMMA StepCounts ==
    ASSUME KillInv, BackOffInv, [Next]_vars, SinceFail
    PROVE  BackOffInv'
<1>1. /\ RetryTicks \in Nat \ {0} /\ sinceFail \in 0 .. RetryTicks
      /\ inner.failed_ticks \in Nat
  BY RetryAssumption DEF BackOffInv, KillInv, IInv, TypeOK, Inners
<1>2. CASE FailStep
  <2>1. sinceFail' = 0
    BY <1>2 DEF SinceFail
  <2> QED BY <1>1, <1>2, <2>1, FailureResets DEF BackOffInv
<1>3. CASE ~FailStep
  <2>1. MovesOn /\ BeginsWell
    BY <1>3, TransitionMoves, PollMoves, OtherMoves
  <2>2. /\ sinceFail' \in 0 .. RetryTicks /\ sinceFail' >= sinceFail
        /\ inner'.proxy_state = "Disconnected" => sinceFail' = RetryTicks
        /\ PollTick => sinceFail' = RetryTicks \/ sinceFail' = sinceFail + 1
    BY <1>1, <1>3 DEF SinceFail
  <2>3. inner'.proxy_state = "Failed" => inner'.failed_ticks <= sinceFail'
    <3>1. SUFFICES ASSUME inner'.proxy_state = "Failed"
                   PROVE  inner'.failed_ticks <= sinceFail'
      OBVIOUS
    <3>2. CASE inner'.failed_ticks = 0
      BY <2>2, <3>2
    <3>3. inner.proxy_state = "Failed" => inner.failed_ticks <= sinceFail
      BY DEF BackOffInv
    <3>4. inner'.failed_ticks \in 0 .. RetryTicks
      BY StepsKeepIInv DEF KillInv, IInv, TypeOK, Inners
    <3>5. sinceFail \in Nat /\ sinceFail' \in Nat
      BY <1>1, <2>2
    <3>6. CASE inner.proxy_state = "Failed" /\ inner'.failed_ticks = inner.failed_ticks
      <4>1. inner.failed_ticks <= sinceFail /\ sinceFail' >= sinceFail
        BY <2>2, <3>3, <3>6
      <4> QED BY <1>1, <3>5, <3>6, <4>1
    <3>7. CASE /\ inner.proxy_state = "Failed" /\ PollTick
               /\ inner'.failed_ticks = inner.failed_ticks + 1
      <4>1. inner.failed_ticks <= sinceFail
        BY <3>3, <3>7
      <4>2. sinceFail' = RetryTicks \/ sinceFail' = sinceFail + 1
        BY <2>2, <3>7
      <4> QED BY <1>1, <3>4, <3>5, <3>7, <4>1, <4>2
    <3> QED BY <2>1, <3>1, <3>2, <3>6, <3>7 DEF MovesOn
  <2>4. pc'[Poller] = "begin" => sinceFail' = RetryTicks
    BY <1>1, <2>1, <2>2 DEF BeginsWell, BackOffInv
  <2> QED BY <2>2, <2>3, <2>4 DEF BackOffInv
<1> QED BY <1>2, <1>3

-----------------------------------------------------------------------------

LEMMA HistoryIsDaemon == HistorySpec => Spec
<1>1. HistoryInit => Init
  BY DEF HistoryInit
<1>2. [HistoryNext]_historyVars => [Next]_vars
  BY DEF HistoryNext, historyVars
<1> QED BY <1>1, <1>2, PTL DEF HistorySpec, Spec

\* The daemon's counter never runs ahead of the polls since the failure.
THEOREM CountInvariance == HistorySpec => []BackOffInv
<1>1. HistoryInit => BackOffInv
  BY RetryAssumption DEF HistoryInit, Init, NewInner, BackOffInv
<1>2. KillInv /\ BackOffInv /\ [HistoryNext]_historyVars => BackOffInv'
  <2>1. SUFFICES ASSUME KillInv, BackOffInv, [HistoryNext]_historyVars PROVE BackOffInv'
    OBVIOUS
  <2>2. CASE HistoryNext
    BY <2>1, <2>2, StepCounts DEF HistoryNext
  <2>3. CASE UNCHANGED historyVars
    BY <2>1, <2>3 DEF historyVars, vars, BackOffInv
  <2> QED BY <2>1, <2>2, <2>3
<1> QED BY <1>1, <1>2, HistoryIsDaemon, KillInvariance, PTL DEF HistorySpec

\* The poller begins no start of a proxy that failed, in a start or under a poll, before
\* RetryTicks polls have passed.
THEOREM BackOffCorrect == HistorySpec => PollerBacksOff
<1>1. BackOffInv /\ [HistoryNext]_historyVars =>
        [pc[Poller] = "begin" /\ pc'[Poller] = "apply" => sinceFail >= RetryTicks]_historyVars
  BY RetryAssumption DEF BackOffInv
<1> QED BY <1>1, CountInvariance, PTL DEF HistorySpec, PollerBacksOff

-----------------------------------------------------------------------------
(* Replies. *)

\* Only the call itself reports what it did.
LEMMA ReplyEffect ==
    ASSUME IInv, [Next]_vars, NEW c \in Clients, pc[c] \in {"started", "stopped"}, pc'[c] = "ok"
    PROVE  \/ pc[c] = "started" /\ ManualStarted(c)
           \/ pc[c] = "stopped" /\ ManualStopped(c)
<1>1. pc[c] \in Holding /\ lock = c /\ c # Nobody
  BY HolderAlone, TaskTypes DEF Holding, Returns
<1>2. ASSUME NEW t \in Tasks, Transition(t) PROVE ManualStarted(c) \/ ManualStopped(c)
  <2>1. CASE StartProxy(t) \/ StopProxy(t)
    <3>1. t = c
      BY <1>1, <2>1, InsideTouches, HolderAlone, TaskTypes
    <3>2. pc[c] \in StartSteps \cup StopSteps
      BY <2>1, <3>1 DEF StartProxy, StartNoProfile, StartBegin, ResolveFails, ApplyRules,
         ApplyFails, StartEngine, EngineFails, Unwind, HealthOk, HealthFails, StopProxy,
         StopEngine, StopRules, StartSteps, StopSteps
    <3> QED BY <3>2 DEF StartSteps, StopSteps
  <2>2. CASE ~StartProxy(t) /\ ~StopProxy(t)
    <3>1. \/ t = Poller /\ PollPublish
          \/ t = Cleaner /\ CleanupDone
          \/ t \in Clients /\ (ManualStarted(t) \/ ManualStartFailed(t) \/ ManualStopped(t))
      BY <1>2, <2>2 DEF Transition
    <3>2. t # c => pc'[c] = pc[c]
      BY <3>1, TaskTypes DEF PollPublish, CleanupDone, ManualStarted, ManualStartFailed,
         ManualStopped, Release, Goto
    <3>3. t = c
      BY <3>2
    <3> QED BY <3>1, <3>3, TaskTypes DEF ManualStartFailed
  <2> QED BY <2>1, <2>2
<1>3. \/ \E t \in Tasks : Transition(t)
      \/ PollRead \/ PollExit \/ Exit \/ Crash
      \/ \E d \in Clients : ManualStart(d) \/ ManualStop(d)
      \/ SetProfiles \/ Signal \/ Startup \/ Roam \/ EngineDies \/ UNCHANGED vars
  BY <1>1 DEF Next, PollLocked, PollNoWifi, PollWifi, PollLock, Cleanup, ManualStartLocked,
     ManualStopLocked
<1>4. CASE PollRead \/ PollExit
  BY <1>4, TaskTypes DEF PollRead, PollExit, Goto
<1>5. CASE Exit \/ Crash
  BY <1>5, TaskTypes DEF Exit, Crash, ProcessGone
<1>6. CASE \E d \in Clients : ManualStart(d) \/ ManualStop(d)
  BY <1>6, TaskTypes DEF ManualStart, ManualStop, Goto
<1>7. CASE SetProfiles \/ Signal \/ Startup \/ Roam \/ EngineDies \/ UNCHANGED vars
  BY <1>7 DEF SetProfiles, Signal, Startup, Roam, EngineDies, vars
<1> QED
  BY <1>2, <1>3, <1>4, <1>5, <1>6, <1>7 DEF ManualStarted, ManualStopped

-----------------------------------------------------------------------------
(* A manual start. *)

\* What a caller was told is up is the user's.
ByHandInv == byHand => engine.run = "alive" /\ inner.manual

\* A tunnel that stays up stays the user's.
LEMMA ManualKept ==
    ASSUME IInv, [Next]_vars, inner.manual, engine.run = "alive", engine'.run = "alive"
    PROVE  inner'.manual
<1>1. inner \in Inners
  BY TaskTypes
<1>2. CASE \E t \in Tasks : Transition(t)
  <2>1. PICK t \in Tasks : Transition(t)
    BY <1>2
  <2>2. ~StopRules(t)
    BY DEF StopRules, IInv, StepInv
  <2>3. CASE StartProxy(t) \/ StopEngine(t)
    BY <1>1, <2>3 DEF StartProxy, StartNoProfile, StartBegin, ResolveFails, ApplyRules,
       ApplyFails, StartEngine, EngineFails, Unwind, HealthOk, HealthFails, StopEngine,
       RecordFailure, Inners
  <2>4. CASE \/ t = Poller /\ PollPublish
             \/ t = Cleaner /\ CleanupDone
             \/ t \in Clients /\ (ManualStarted(t) \/ ManualStartFailed(t) \/ ManualStopped(t))
    BY <1>1, <2>4 DEF PollPublish, CleanupDone, ManualStarted, ManualStartFailed,
       ManualStopped, Inners
  <2> QED BY <2>1, <2>2, <2>3, <2>4 DEF Transition, StopProxy
<1>3. CASE PollNoWifi
  BY <1>1, <1>3 DEF PollNoWifi, Inners
<1>4. CASE PollWifi
  <2>1. inner' = Ticked(arg[Poller].wifi) \/ inner' = RecordFailure(Ticked(arg[Poller].wifi))
    BY <1>4 DEF PollWifi
  <2>2. Ticked(arg[Poller].wifi) \in Inners /\ Ticked(arg[Poller].wifi).manual
    <3>1. TypeOK /\ arg[Poller].wifi \in OptConn
      BY TaskTypes DEF IInv, Readings
    <3> QED BY <1>1, <3>1, TickedKeeps DEF Ticked, Inners
  <2> QED BY <2>1, <2>2 DEF RecordFailure, Inners
<1>5. CASE Crash \/ Exit
  BY <1>5 DEF Crash, Exit, ProcessGone, NoEngine
<1>6. ASSUME NEW c \in Clients, ManualStartLocked(c) \/ ManualStopLocked(c)
      PROVE  inner'.manual
  BY <1>1, <1>6 DEF ManualStartLocked, ManualStopLocked, Inners
<1>7. CASE Cleanup \/ Startup \/ UNCHANGED vars
  BY <1>7 DEF Cleanup, Startup, vars
<1>8. CASE \/ PollRead \/ PollExit \/ SetProfiles \/ Signal \/ Roam \/ EngineDies
           \/ \E c \in Clients : ManualStart(c) \/ ManualStop(c)
  BY <1>8, OutsideMoves
<1> QED BY <1>2, <1>3, <1>4, <1>5, <1>6, <1>7, <1>8 DEF Next, PollLocked

\* The poller comes to stop something only by the verdict of a poll.
LEMMA StopDecided ==
    ASSUME IInv, [Next]_vars, pc[Poller] = "waitPoll", pc'[Poller] = "stopEngine"
    PROVE  PollLocked
<1>1. pc[Poller] \notin Holding
  BY DEF Holding, StartSteps, StopSteps, Returns
<1>2. ASSUME NEW t \in Tasks, Transition(t) PROVE FALSE
  <2>1. pc[t] \in Holding /\ \A u \in Tasks \ {t} : pc'[u] = pc[u]
    BY <1>2, StepsKeepIInv, HolderStays
  <2> QED BY <1>1, <2>1, TaskTypes
<1>3. CASE PollRead \/ PollExit \/ Cleanup
  BY <1>3, TaskTypes DEF PollRead, PollExit, Cleanup, CallStop, Goto
<1>4. CASE Crash \/ Exit
  BY <1>4, TaskTypes DEF Crash, Exit, ProcessGone
<1>5. ASSUME NEW c \in Clients,
             ManualStart(c) \/ ManualStartLocked(c) \/ ManualStop(c) \/ ManualStopLocked(c)
      PROVE  FALSE
  BY <1>5, TaskTypes DEF ManualStart, ManualStartLocked, ManualStop, ManualStopLocked,
     CallStop, Goto
<1>6. CASE SetProfiles \/ Signal \/ Startup \/ Roam \/ EngineDies \/ UNCHANGED vars
  BY <1>6 DEF SetProfiles, Signal, Startup, Roam, EngineDies, vars
<1> QED BY <1>2, <1>3, <1>4, <1>5, <1>6 DEF Next

LEMMA StopsWell ==
    ASSUME IInv, ByHandInv, [Next]_vars, byHand,
           pc[Poller] = "waitPoll", pc'[Poller] = "stopEngine", engine.conn = arg[Poller].wifi
    PROVE  ~store[engine.conn].enabled
<1> DEFINE r == arg[Poller]
<1>1. /\ engine.run = "alive" /\ inner.manual
      /\ engine.conn = inner.active_uuid /\ inner.active_uuid # NoConn
  BY DEF ByHandInv, IInv, PlaneInv
<1>2. PollWifi
  BY <1>1, StopDecided DEF PollLocked, PollNoWifi
<1>3. Verdict(r) \in {"restart", "stop"}
  BY <1>2, TaskTypes DEF PollWifi, Goto
<1>4. ~Switched(r) /\ Healthy
  BY <1>1 DEF Switched, Healthy
<1>5. ~KeepManual(r)
  BY <1>3, <1>4 DEF Verdict
<1> QED BY <1>1, <1>5 DEF KeepManual, FindEnabledFor

\* The poller takes down no tunnel that a caller was told is up, as long as the network it
\* read is the tunnel's and the profile is enabled.
THEOREM ManualStartCorrect == HistorySpec => ManualStartSticks
<1>1. HistoryInit => ByHandInv
  BY DEF HistoryInit, ByHandInv
<1>2. IInv /\ ByHandInv /\ [HistoryNext]_historyVars => ByHandInv'
  <2>1. SUFFICES ASSUME IInv, ByHandInv, [HistoryNext]_historyVars, byHand'
                 PROVE  engine'.run = "alive" /\ inner'.manual
    BY DEF ByHandInv
  <2>2. CASE UNCHANGED historyVars
    BY <2>1, <2>2 DEF historyVars, vars, ByHandInv
  <2>3. CASE HistoryNext
    <3>1. Next /\ (byHand \/ StartAnswered) /\ engine'.run = "alive"
      BY <2>1, <2>3 DEF HistoryNext, ByHand
    <3>2. CASE byHand
      BY <2>1, <3>1, <3>2, ManualKept DEF ByHandInv
    <3>3. CASE StartAnswered
      <4>1. PICK c \in Clients : ManualStarted(c)
        BY <2>1, <3>1, <3>3, ReplyEffect DEF StartAnswered
      <4>2. inner'.manual
        BY <2>1, <4>1, TaskTypes DEF ManualStarted, Inners
      <4> QED BY <3>1, <4>2
    <3> QED BY <3>1, <3>2, <3>3
  <2> QED BY <2>1, <2>2, <2>3
<1>3. IInv /\ ByHandInv /\ [HistoryNext]_historyVars =>
        [byHand /\ pc[Poller] = "waitPoll" /\ pc'[Poller] = "stopEngine"
             /\ engine.conn = arg[Poller].wifi
           => ~store[engine.conn].enabled]_historyVars
  BY StopsWell DEF HistoryNext
<1> QED BY <1>1, <1>2, <1>3, HistoryIsDaemon, Invariance, PTL DEF HistorySpec, ManualStartSticks

-----------------------------------------------------------------------------
(* A manual stop. *)

\* Nobody takes the mutex for a network that is not the one in use any more: the poller for
\* the one NetworkManager told it, a client for the one of the snapshot.
Fresh ==
    /\ PollLocked => arg[Poller].wifi = nm.wifi
    /\ \A c \in Clients : ManualStartLocked(c) => arg[c].wifi = snap.wifi

NoStaleReading == [][Fresh]_historyVars

\* Outside a poll no tunnel is up for another network than the snapshot's, and no client
\* acts for another.
SnapshotInv ==
    /\ lock # Poller => inner.active_uuid \in {NoConn, snap.wifi}
    /\ arg[Cleaner] = NoReading
    /\ \A c \in Clients : pc[c] \in Holding => arg[c].wifi \in {NoConn, snap.wifi}

\* The poller is on its way to bring a tunnel up.
PollerStarts ==
    pc[Poller] \in StartSteps \/ (pc[Poller] \in StopSteps /\ call.ret = "begin")

\* What history remembers of a stop the daemon remembers, too, and keeps to it.
QuietInv ==
    /\ quiet # NoConn => quiet = nm.wifi /\ inner.user_stopped = quiet
    /\ PollerStarts => quiet = NoConn

LEMMA InsideKeepsSnapshot ==
    ASSUME IInv, SnapshotInv, NEW t \in Tasks, StartProxy(t) \/ StopProxy(t)
    PROVE  SnapshotInv'
<1>1. /\ UNCHANGED <<snap, arg, lock>> /\ pc[t] \in Holding
      /\ inner'.active_uuid \in {NoConn, inner.active_uuid, arg[t].wifi}
      /\ \A u \in Tasks \ {t} : pc'[u] = pc[u]
  BY InsideTouches
<1>2. lock = t
  BY <1>1, HolderAlone
<1>3. lock # Poller => arg[t].wifi \in {NoConn, snap.wifi}
  BY <1>1, <1>2 DEF SnapshotInv, Tasks, NoReading
<1>4. \A c \in Clients : pc'[c] \in Holding => pc[c] \in Holding
  BY <1>1, TaskTypes
<1> QED BY <1>1, <1>3, <1>4 DEF SnapshotInv

\* The last step of a transition.
LEMMA LeavingKeepsSnapshot ==
    ASSUME IInv, SnapshotInv, NEW t \in Tasks,
           \/ t = Poller /\ PollPublish
           \/ t = Cleaner /\ CleanupDone
           \/ t \in Clients /\ (ManualStarted(t) \/ ManualStartFailed(t) \/ ManualStopped(t))
    PROVE  SnapshotInv'
<1>1. pc[t] \in Returns
  BY DEF PollPublish, CleanupDone, ManualStarted, ManualStartFailed, ManualStopped, Returns
<1>2. lock = t /\ \A u \in Tasks : pc[u] \in Holding => u = t
  BY <1>1, HolderAlone DEF Holding
<1>3. /\ pc' = [pc EXCEPT ![t] = pc'[t]] /\ pc'[t] \in {"idle", "exited", "ok", "err"}
      /\ arg' = [arg EXCEPT ![t] = NoReading] /\ inner'.active_uuid = inner.active_uuid
  BY TaskTypes DEF PollPublish, CleanupDone, ManualStarted, ManualStartFailed,
     ManualStopped, Release, Goto, Inners
<1>4. \A c \in Clients : pc'[c] \notin Holding
  BY <1>2, <1>3, TaskTypes DEF Holding, StartSteps, StopSteps, Returns
<1>5. arg'[Cleaner] = NoReading
  BY <1>3, TaskTypes DEF SnapshotInv
<1>6. inner'.active_uuid \in {NoConn, snap'.wifi}
  <2>1. CASE t = Poller /\ PollPublish
    <3>1. inner.active_uuid \in {NoConn, arg[Poller].wifi}
      BY <2>1 DEF IInv, ReadingInv, PollPublish
    <3>2. arg[Poller].wifi = NoConn => inner.active_uuid = NoConn
      BY <3>1
    <3>3. snap'.wifi = arg[Poller].wifi
      BY <2>1 DEF PollPublish, DefaultSnapshot
    <3> QED BY <1>3, <3>1, <3>2, <3>3
  <2>2. CASE t # Poller
    <3>1. snap'.wifi = snap.wifi
      BY <2>2, TaskTypes DEF CleanupDone, ManualStarted, ManualStartFailed, ManualStopped,
         Published, Snapshots
    <3> QED BY <1>2, <1>3, <2>2, <3>1 DEF SnapshotInv
  <2> QED BY <2>1, <2>2, TaskTypes
<1> QED BY <1>4, <1>5, <1>6 DEF SnapshotInv

\* A task that enters the mutex.
LEMMA EnteringKeepsSnapshot ==
    ASSUME IInv, SnapshotInv, Fresh,
           \/ PollLocked \/ Cleanup
           \/ \E c \in Clients : ManualStartLocked(c) \/ ManualStopLocked(c)
    PROVE  SnapshotInv'
<1>1. lock = Nobody
  BY DEF PollLocked, PollNoWifi, PollWifi, PollLock, Cleanup, ManualStartLocked, ManualStopLocked
<1>2. /\ \A u \in Tasks : pc[u] \notin Holding
      /\ inner.active_uuid \in {NoConn, snap.wifi}
  BY <1>1, NobodyInside, TaskTypes DEF SnapshotInv
<1>3. CASE PollLocked
  <2>1. lock' = Poller /\ UNCHANGED <<snap, arg>>
    BY <1>3 DEF PollLocked, PollNoWifi, PollWifi, PollLock
  <2>2. \A c \in Clients : pc'[c] = pc[c]
    BY <1>3, TaskTypes DEF PollLocked, PollNoWifi, PollWifi, CallStop, Goto
  <2> QED BY <1>2, <2>1, <2>2, TaskTypes DEF SnapshotInv
<1>4. CASE Cleanup
  BY <1>2, <1>4, TaskTypes DEF Cleanup, CallStop, Goto, SnapshotInv
<1>5. ASSUME NEW c \in Clients, ManualStartLocked(c)
      PROVE  SnapshotInv'
  <2>1. arg[c].wifi = snap.wifi /\ inner'.active_uuid = inner.active_uuid
    BY <1>5, TaskTypes DEF Fresh, ManualStartLocked, Inners
  <2> QED BY <1>2, <1>5, <2>1, TaskTypes DEF ManualStartLocked, Goto, SnapshotInv
<1>6. ASSUME NEW c \in Clients, ManualStopLocked(c)
      PROVE  SnapshotInv'
  BY <1>2, <1>6, TaskTypes DEF ManualStopLocked, CallStop, Goto, SnapshotInv
<1> QED BY <1>3, <1>4, <1>5, <1>6

LEMMA SnapshotKept ==
    ASSUME IInv, SnapshotInv, [Next]_vars, Fresh \/ UNCHANGED vars
    PROVE  SnapshotInv'
<1>1. CASE \E t \in Tasks : Transition(t)
  BY <1>1, InsideKeepsSnapshot, LeavingKeepsSnapshot DEF Transition
<1>2. CASE Fresh /\ \/ PollLocked \/ Cleanup
                    \/ \E c \in Clients : ManualStartLocked(c) \/ ManualStopLocked(c)
  BY <1>2, EnteringKeepsSnapshot
<1>3. CASE Crash \/ Exit
  <2>1. \A c \in Clients : pc'[c] \notin Holding
    BY <1>3, TaskTypes
       DEF Crash, Exit, ProcessGone, Holding, StartSteps, StopSteps, Returns
  <2> QED
    BY <1>3, <2>1, TaskTypes DEF Crash, Exit, ProcessGone, NewInner, SnapshotInv
<1>4. CASE PollRead \/ PollExit
  BY <1>4, TaskTypes DEF PollRead, PollExit, Goto, SnapshotInv
<1>5. ASSUME NEW c \in Clients, ManualStart(c) \/ ManualStop(c)
      PROVE  SnapshotInv'
  BY <1>5, TaskTypes
     DEF ManualStart, ManualStop, Goto, SnapshotInv, Holding, StartSteps, StopSteps, Returns
<1>6. CASE SetProfiles \/ Signal \/ Startup \/ Roam \/ EngineDies \/ UNCHANGED vars
  BY <1>6 DEF SetProfiles, Signal, Startup, Roam, EngineDies, vars, SnapshotInv
<1>7. CASE UNCHANGED vars
  BY <1>6, <1>7
<1> QED BY <1>1, <1>2, <1>3, <1>4, <1>5, <1>6, <1>7 DEF Next

-----------------------------------------------------------------------------
(* What history remembers. *)

\* Who changes user_stopped.
LEMMA StopRemembered ==
    ASSUME IInv, [Next]_vars
    PROVE  \/ inner'.user_stopped = inner.user_stopped
           \/ PollLocked \/ Crash \/ Exit
           \/ \E c \in Clients : ManualStartLocked(c) \/ ManualStopped(c)
<1>1. CASE \E t \in Tasks : Transition(t)
  <2>1. PICK t \in Tasks : Transition(t)
    BY <1>1
  <2>2. CASE StartProxy(t) \/ StopProxy(t)
    BY <2>2, InsideTouches
  <2>3. CASE (t = Poller /\ PollPublish) \/ (t = Cleaner /\ CleanupDone)
    BY <2>3 DEF PollPublish, CleanupDone
  <2>4. CASE t \in Clients /\ (ManualStarted(t) \/ ManualStartFailed(t))
    BY <2>4, TaskTypes DEF ManualStarted, ManualStartFailed, Inners
  <2> QED BY <2>1, <2>2, <2>3, <2>4 DEF Transition
<1>2. CASE \/ PollRead \/ PollExit \/ SetProfiles \/ Signal \/ Roam \/ EngineDies \/ Cleanup
           \/ Startup \/ \E c \in Clients : ManualStart(c) \/ ManualStop(c) \/ ManualStopLocked(c)
  BY <1>2 DEF PollRead, PollExit, SetProfiles, Signal, Roam, EngineDies, Cleanup, Startup,
     ManualStart, ManualStop, ManualStopLocked
<1> QED BY <1>1, <1>2 DEF Next, vars

\* The poller comes to start nothing but by the verdict of a poll.
LEMMA StartDecided ==
    ASSUME IInv, [Next]_vars, PollerStarts'
    PROVE  PollerStarts \/ PollLocked
<1>1. SUFFICES ASSUME ~PollLocked PROVE PollerStarts
  OBVIOUS
<1>2. CASE \E t \in Tasks : Transition(t)
  <2>1. PICK t \in Tasks : Transition(t)
    BY <1>2
  <2>2. CASE t # Poller
    <3>1. pc[t] \in Holding
      BY <2>1, <2>2 DEF Transition, StartProxy, StopProxy, StartNoProfile, StartBegin,
         ResolveFails, ApplyRules, ApplyFails, StartEngine, EngineFails, Unwind, HealthOk,
         HealthFails, StopEngine, StopRules, CleanupDone, ManualStarted, ManualStartFailed,
         ManualStopped, Holding, StartSteps, StopSteps, Returns
    <3>2. pc[Poller] \notin Holding
      BY <2>2, <3>1, HolderAlone, TaskTypes
    <3>3. pc'[Poller] = pc[Poller]
      <4>1. CASE StartProxy(t) \/ StopProxy(t)
        BY <2>2, <4>1, InsideTouches, TaskTypes
      <4>2. CASE ~StartProxy(t) /\ ~StopProxy(t)
        BY <2>1, <2>2, <4>2, TaskTypes DEF Transition, CleanupDone, ManualStarted,
           ManualStartFailed, ManualStopped, Release, Goto
      <4> QED BY <4>1, <4>2
    <3> QED BY <3>2, <3>3 DEF PollerStarts, Holding
  <2>3. CASE t = Poller /\ StopRules(Poller)
    <3>1. pc'[Poller] = call.ret /\ pc[Poller] \in StopSteps
      BY <2>3, TaskTypes DEF StopRules, Goto, StopSteps
    <3>2. call.ret \in Returns \cup {"begin"}
      BY <3>1, TaskTypes DEF IInv, TypeOK, LocalsInv
    <3> QED BY <3>1, <3>2 DEF PollerStarts, Returns, StartSteps, StopSteps
  <2>4. CASE t = Poller /\ ~StopRules(Poller)
    <3>1. \/ pc[Poller] \in StartSteps
          \/ pc[Poller] = "stopEngine" /\ pc'[Poller] = "stopRules" /\ call' = call
          \/ pc'[Poller] = "idle"
      <4>1. CASE StartProxy(Poller)
        BY <4>1 DEF StartProxy, StartNoProfile, StartBegin, ResolveFails, ApplyRules, ApplyFails,
           StartEngine, EngineFails, Unwind, HealthOk, HealthFails, StartSteps
      <4>2. CASE StopEngine(Poller) \/ PollPublish
        BY <4>2, TaskTypes DEF StopEngine, PollPublish, Release, Goto
      <4>3. StartProxy(Poller) \/ StopEngine(Poller) \/ PollPublish
        BY <2>1, <2>4, TaskTypes DEF Transition, StopProxy
      <4> QED BY <4>1, <4>2, <4>3
    <3> QED BY <3>1 DEF PollerStarts, StartSteps, StopSteps
  <2> QED BY <2>1, <2>2, <2>3, <2>4
<1>3. CASE Crash \/ Exit
  BY <1>3, TaskTypes DEF Crash, Exit, ProcessGone, PollerStarts, StartSteps, StopSteps
<1>4. CASE \/ \E c \in Clients : ManualStartLocked(c) \/ ManualStopLocked(c)
           \/ Cleanup
  <2>1. pc[Poller] \notin Holding
    BY <1>4, NobodyInside, TaskTypes DEF ManualStartLocked, ManualStopLocked, Cleanup
  <2>2. pc'[Poller] = pc[Poller]
    BY <1>4, TaskTypes DEF ManualStartLocked, ManualStopLocked, Cleanup, CallStop, Goto
  <2> QED BY <2>1, <2>2 DEF PollerStarts, Holding
<1>5. CASE \/ PollRead \/ PollExit \/ SetProfiles \/ Signal \/ Roam \/ EngineDies
           \/ \E c \in Clients : ManualStart(c) \/ ManualStop(c)
  <2>1. call' = call /\ pc'[Poller] \in {pc[Poller], "waitPoll", "exited"}
    BY <1>5, TaskTypes DEF PollRead, PollExit, SetProfiles, Signal, Roam, EngineDies,
       ManualStart, ManualStop, Goto
  <2> QED BY <2>1 DEF PollerStarts, StartSteps, StopSteps
<1>6. CASE Startup \/ UNCHANGED vars
  BY <1>6 DEF Startup, vars, PollerStarts
<1> QED BY <1>1, <1>2, <1>3, <1>4, <1>5, <1>6 DEF Next

\* Only the call that stopped the proxy ends as one that did.
LEMMA StopEffect ==
    ASSUME IInv, [Next]_vars, StopTakesEffect
    PROVE  \E c \in Clients : ManualStopped(c)
BY ReplyEffect DEF StopTakesEffect

\* A stop that takes effect.
LEMMA StopKeepsQuiet ==
    ASSUME IInv, SnapshotInv, QuietInv, Quiet, NEW c \in Clients, ManualStopped(c)
    PROVE  QuietInv'
<1>1. pc[c] = "stopped" /\ pc'[c] = "ok" /\ pc[c] \in Holding
  BY TaskTypes DEF ManualStopped, Release, Goto, Holding, Returns
<1>2. quiet' = IF snap.wifi = nm.wifi THEN nm.wifi ELSE NoConn
  BY <1>1 DEF Quiet, StopTakesEffect
<1>3. inner'.user_stopped = snap.wifi /\ nm' = nm
  <2>1. arg[c].wifi \in {NoConn, snap.wifi}
    BY <1>1 DEF SnapshotInv
  <2> QED BY <2>1, TaskTypes DEF ManualStopped, Inners, svars
<1>4. ~PollerStarts'
  <2>1. pc[Poller] \notin Holding
    BY <1>1, HolderAlone, TaskTypes
  <2>2. pc'[Poller] = pc[Poller]
    BY TaskTypes DEF ManualStopped, Release, Goto
  <2> QED BY <2>1, <2>2 DEF PollerStarts, Holding
<1> QED BY <1>2, <1>3, <1>4 DEF QuietInv

\* A poll on the network that was stopped.
LEMMA PollKeepsQuiet ==
    ASSUME IInv, QuietInv, PollLocked, arg[Poller].wifi = nm.wifi, quiet # NoConn, nm' = nm
    PROVE  inner'.user_stopped = quiet /\ ~PollerStarts'
<1> DEFINE r == arg[Poller]
<1>1. r.wifi = quiet /\ inner.user_stopped = quiet /\ r.wifi # NoConn
  BY DEF QuietInv
<1>2. Ticked(r.wifi) \in Inners /\ Ticked(r.wifi).user_stopped = quiet
  <2>1. TypeOK /\ r.wifi \in OptConn
    BY TaskTypes DEF IInv, Readings
  <2> QED BY <1>1, <2>1, TaskTypes, TickedKeeps DEF Ticked, Inners
<1>3. ~ShouldStart(r)
  BY <1>1, <1>2 DEF ShouldStart
<1>4. Verdict(r) \notin {"restart", "start"}
  BY <1>3 DEF Verdict
<1>5. PollWifi
  BY <1>1 DEF PollLocked, PollNoWifi
<1>6. \/ inner' = Ticked(r.wifi) \/ inner' = RecordFailure(Ticked(r.wifi))
  BY <1>5 DEF PollWifi
<1>7. inner'.user_stopped = quiet
  BY <1>2, <1>6 DEF RecordFailure, Inners
<1>8. \/ pc'[Poller] = "publish"
      \/ pc'[Poller] = "stopEngine" /\ call'.ret = "publish"
  BY <1>4, <1>5, TaskTypes DEF PollWifi, CallStop, Goto, NoCall
<1> QED BY <1>7, <1>8 DEF PollerStarts, StartSteps, StopSteps

LEMMA QuietKept ==
    ASSUME IInv, SnapshotInv, QuietInv, Next, Fresh, Quiet
    PROVE  QuietInv'
<1>1. CASE StopTakesEffect
  BY <1>1, StopEffect, StopKeepsQuiet
<1>2. CASE ~StopTakesEffect
  <2>1. SUFFICES ASSUME quiet' # NoConn
                 PROVE  quiet' = nm'.wifi /\ inner'.user_stopped = quiet' /\ ~PollerStarts'
    BY DEF QuietInv
  <2>2. /\ quiet' = quiet /\ nm'.wifi = quiet /\ ~StartTakesEffect
        /\ phase' \in {"up", "stopping"}
    BY <1>2, <2>1 DEF Quiet
  <2>3. inner.user_stopped = quiet /\ ~PollerStarts /\ quiet = nm.wifi
    BY <2>1, <2>2 DEF QuietInv
  <2>4. CASE PollLocked
    <3>1. arg[Poller].wifi = nm.wifi /\ nm' = nm
      BY <2>4 DEF Fresh, PollLocked, PollNoWifi, PollWifi, PollLock, svars
    <3> QED BY <2>1, <2>2, <2>4, <3>1, PollKeepsQuiet
  <2>5. CASE ~PollLocked
    <3>1. ~PollerStarts'
      BY <2>3, <2>5, StartDecided
    <3>2. \A c \in Clients : ~ManualStartLocked(c) /\ ~ManualStopped(c)
      BY <1>2, <2>2, TaskTypes DEF StartTakesEffect, StopTakesEffect, ManualStartLocked,
         ManualStopped, Release, Goto
    <3>3. ~Crash /\ ~Exit
      BY <2>2 DEF Crash, Exit
    <3>4. inner'.user_stopped = inner.user_stopped
      BY <2>5, <3>2, <3>3, StopRemembered
    <3> QED BY <2>2, <2>3, <3>1, <3>4
  <2> QED BY <2>4, <2>5
<1> QED BY <1>1, <1>2

\* A manual stop is not undone by auto-connect as long as nobody acts on a stale reading.
\* Both halves of the premise are needed: TLC finds a way to undo it if either is dropped.
THEOREM StopSticksUnlessStale == HistorySpec /\ NoStaleReading => ManualStopSticks
<1>1. HistoryInit => SnapshotInv /\ QuietInv
  <2>1. SUFFICES ASSUME HistoryInit PROVE SnapshotInv /\ QuietInv
    OBVIOUS
  <2>2. /\ lock = Nobody /\ inner.active_uuid = NoConn /\ quiet = NoConn
        /\ pc = [t \in Tasks |-> "idle"] /\ arg = [t \in Tasks |-> NoReading]
    BY <2>1 DEF HistoryInit, Init, NewInner
  <2> QED BY <2>2 DEF SnapshotInv, QuietInv, Tasks, Holding, StartSteps, StopSteps, Returns
<1>2. IInv /\ SnapshotInv /\ QuietInv /\ [HistoryNext]_historyVars /\ [Fresh]_historyVars
        => SnapshotInv' /\ QuietInv'
  <2>1. SUFFICES ASSUME IInv, SnapshotInv, QuietInv, [HistoryNext]_historyVars,
                        [Fresh]_historyVars
                 PROVE  SnapshotInv' /\ QuietInv'
    OBVIOUS
  <2>2. CASE UNCHANGED historyVars
    BY <2>1, <2>2 DEF historyVars, vars, SnapshotInv, QuietInv, PollerStarts
  <2>3. CASE HistoryNext /\ Fresh
    BY <2>1, <2>3, SnapshotKept, QuietKept DEF HistoryNext
  <2> QED BY <2>1, <2>2, <2>3
<1>3. QuietInv => (pc[Poller] = "engine" /\ engine'.run = "alive" => quiet = NoConn)
  BY DEF QuietInv, PollerStarts, StartSteps
<1>4. HistorySpec => []IInv
  BY HistoryIsDaemon, Invariance, PTL
<1> QED BY <1>1, <1>2, <1>3, <1>4, PTL DEF HistorySpec, NoStaleReading, ManualStopSticks

-----------------------------------------------------------------------------
(* Without roaming no reading is ever stale. *)

StayInv ==
    /\ snap.wifi \in {NoConn, nm.wifi}
    /\ pc[Poller] \in {"waitPoll"} \cup Holding => arg[Poller].wifi = nm.wifi
    /\ \A c \in Clients : pc[c] = "waitStart" => arg[c].wifi = snap.wifi /\ snap.wifi = nm.wifi

LEMMA StayKept ==
    ASSUME IInv, StayInv, [Next]_vars, "roam" \notin Events
    PROVE  StayInv'
<1>1. IInv'
  BY StepsKeepIInv
<1>2. CASE \E t \in Tasks : Transition(t)
  <2>1. PICK t \in Tasks : Transition(t)
    BY <1>2
  <2>2. /\ pc[t] \in Holding
        /\ pc'[t] \in Holding \/ pc'[t] \in {"idle", "exited", "ok", "err"}
        /\ \A u \in Tasks \ {t} : pc'[u] = pc[u] /\ arg'[u] = arg[u]
        /\ (pc'[t] \in Holding => arg' = arg) /\ nm' = nm
        /\ (t # Poller => snap'.wifi = snap.wifi)
        /\ (t = Poller => snap' = snap \/ snap'.wifi = arg[Poller].wifi)
    BY <1>1, <2>1, HolderStays
  <2>3. pc'[t] \notin {"waitPoll", "waitStart"}
    BY <2>2 DEF Holding, StartSteps, StopSteps, Returns
  <2>4. t = Poller => arg[Poller].wifi = nm.wifi
    BY <2>2 DEF StayInv
  <2>5. snap'.wifi \in {NoConn, nm'.wifi} /\ (snap'.wifi = snap.wifi \/ snap'.wifi = nm.wifi)
    BY <2>2, <2>4 DEF StayInv
  <2>6. pc'[Poller] \in {"waitPoll"} \cup Holding => arg'[Poller].wifi = nm'.wifi
    BY <2>2, <2>3, <2>4, TaskTypes DEF StayInv
  <2>7. ASSUME NEW c \in Clients, pc'[c] = "waitStart"
        PROVE  arg'[c].wifi = snap'.wifi /\ snap'.wifi = nm'.wifi
    BY <2>2, <2>3, <2>5, <2>7, TaskTypes DEF StayInv
  <2> QED BY <2>5, <2>6, <2>7 DEF StayInv
<1>3. CASE PollRead
  BY <1>3, TaskTypes DEF PollRead, Goto, StayInv, svars
<1>4. CASE PollLocked
  <2>1. /\ UNCHANGED <<nm, snap, arg>> /\ pc[Poller] = "waitPoll"
        /\ \A c \in Clients : pc'[c] = pc[c]
    BY <1>4, TaskTypes
       DEF PollLocked, PollNoWifi, PollWifi, PollLock, CallStop, Goto, svars
  <2> QED BY <2>1 DEF StayInv
<1>5. CASE PollExit \/ Cleanup
  BY <1>5, TaskTypes DEF PollExit, Cleanup, CallStop, Goto, StayInv, svars, Holding,
     StartSteps, StopSteps, Returns
<1>6. CASE Crash \/ Exit
  BY <1>6, TaskTypes DEF Crash, Exit, ProcessGone, DefaultSnapshot, StayInv, svars, Holding,
     StartSteps, StopSteps, Returns
<1>7. ASSUME NEW c \in Clients,
             ManualStart(c) \/ ManualStartLocked(c) \/ ManualStop(c) \/ ManualStopLocked(c)
      PROVE  StayInv'
  <2>1. /\ UNCHANGED <<nm, snap>> /\ \A u \in Tasks \ {c} : pc'[u] = pc[u] /\ arg'[u] = arg[u]
        /\ pc'[c] = "waitStart" => arg'[c].wifi = snap.wifi /\ snap.wifi # NoConn
    BY <1>7, TaskTypes DEF ManualStart, ManualStartLocked, ManualStop, ManualStopLocked,
       CallStop, Goto, svars
  <2> QED BY <2>1, TaskTypes DEF StayInv
<1>8. CASE SetProfiles \/ Signal \/ Startup \/ EngineDies \/ UNCHANGED vars
  BY <1>8 DEF SetProfiles, Signal, Startup, EngineDies, vars, svars, StayInv
<1> QED
  BY <1>2, <1>3, <1>4, <1>5, <1>6, <1>7, <1>8 DEF Next, Roam

\* On one network a manual stop sticks, whatever fails, is edited or restarted.
THEOREM StopSticksAtHome == "roam" \notin Events => (HistorySpec => ManualStopSticks)
<1>1. SUFFICES ASSUME "roam" \notin Events PROVE HistorySpec => ManualStopSticks
  OBVIOUS
<1>2. HistoryInit => StayInv
  BY TaskTypes, InitTruthful
     DEF HistoryInit, Init, DefaultSnapshot, StayInv, Holding, StartSteps, StopSteps, Returns
<1>3. IInv /\ StayInv /\ [HistoryNext]_historyVars => StayInv'
  BY <1>1, StayKept DEF HistoryNext, historyVars
<1>4. StayInv => [Fresh]_historyVars
  BY DEF StayInv, Fresh, PollLocked, PollNoWifi, PollWifi, PollLock, ManualStartLocked
<1>5. HistorySpec => []IInv
  BY HistoryIsDaemon, Invariance, PTL
<1>6. HistorySpec => NoStaleReading
  BY <1>2, <1>3, <1>4, <1>5, PTL DEF HistorySpec, NoStaleReading
<1> QED BY <1>6, StopSticksUnlessStale, PTL
=============================================================================
