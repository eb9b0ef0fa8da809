-------------------------- MODULE TransitionProofs --------------------------
(***************************************************************************)
(* What a transition of the daemon promises while it has the mutex and     *)
(* when it gives it back, for every set of networks, clients and profiles: *)
(* rules that block stay until a stop that nothing in start_proxy asked    *)
(* for, as long as the child can be spawned, and a start that failed under *)
(* them is reported as one; the mutex is given back within nine steps,     *)
(* whatever happens around it; and what the last transition, the clean-up, *)
(* leaves behind.                                                          *)
(***************************************************************************)
EXTENDS DaemonProofs

\* What the task at a label knows of the kill switch: the loaded rules are those of the
\* profile in use; whoever undoes a start does so without a kill switch; and only then
\* is a start that returned without an error Disconnected.
Knows(t) ==
    /\ pc[t] \in {"engine", "health"} => table.kill = call.profile.kill
    /\ pc[t] \in StopSteps =>
           ~call.profile.kill /\ (call.profile = NoProfile \/ ~table.kill)
    /\ pc[t] = "started" /\ inner.proxy_state = "Disconnected" => ~call.profile.kill

KillInv ==
    /\ IInv
    /\ \A t \in Tasks : Knows(t)
    /\ ~Running => inner.active_uuid = NoConn

\* A child that is spawned whenever it is asked for leaves nothing to unwind.
SpawnInv == KillInv /\ \A t \in Tasks : pc[t] # "unwind"

\* A step of the task that is inside the mutex, or of one that enters it.
LEMMA OneInside ==
    ASSUME KillInv, IInv', NEW t \in Tasks, pc[t] \in Holding \/ lock = Nobody,
           \A u \in Tasks \ {t} : pc'[u] = pc[u], Running', Knows(t)'
    PROVE  KillInv'
<1>1. \A u \in Tasks \ {t} : pc'[u] \notin Holding
  BY HolderAlone, NobodyInside DEF KillInv
<1>2. \A u \in Tasks \ {t} : Knows(u)'
  BY <1>1 DEF Knows, Holding, StartSteps, StopSteps, Returns
<1> QED BY <1>2 DEF KillInv

\* A step that changes nothing a task inside the mutex knows.
LEMMA NothingKnown ==
    ASSUME KillInv, IInv', UNCHANGED <<inner, call, table>>, Running => Running',
           \A u \in Tasks : pc'[u] = pc[u] \/ pc'[u] \notin Holding
    PROVE  KillInv'
<1>1. \A u \in Tasks : Knows(u)'
  BY DEF KillInv, Knows, Holding, StartSteps, StopSteps, Returns
<1>2. ~Running' => inner'.active_uuid = NoConn
  BY DEF KillInv
<1> QED BY <1>1, <1>2 DEF KillInv

-----------------------------------------------------------------------------
(* The steps of the holder. *)

LEMMA StartProxyKnows ==
    ASSUME KillInv, NEW t \in Tasks, StartProxy(t)
    PROVE  /\ Knows(t)' /\ Running' /\ pc[t] \in Holding
           /\ \A u \in Tasks \ {t} : pc'[u] = pc[u]
<1>1. pc \in [Tasks -> Labels] /\ inner \in Inners /\ table \in Tables
  BY DEF KillInv, IInv, TypeOK
<1>2. CASE StartNoProfile(t)
  BY <1>1, <1>2 DEF StartNoProfile, Goto, Return, Knows, Holding, StartSteps, StopSteps, Running
<1>3. CASE StartBegin(t)
  BY <1>1, <1>3 DEF StartBegin, Goto, Knows, Holding, StartSteps, StopSteps, Running
<1>4. CASE ResolveFails(t)
  BY <1>1, <1>4 DEF ResolveFails, Goto, Return, Knows, Holding, StartSteps, StopSteps, Running
<1>5. CASE ApplyRules(t)
  BY <1>1, <1>5 DEF ApplyRules, Goto, Knows, Holding, StartSteps, StopSteps, Running
<1>6. CASE ApplyFails(t)
  BY <1>1, <1>6 DEF ApplyFails, Goto, Return, Knows, Holding, StartSteps, StopSteps, Running
<1>7. CASE StartEngine(t)
  BY <1>1, <1>7 DEF StartEngine, Goto, Knows, Holding, StartSteps, StopSteps, Running, KillInv
<1>8. CASE EngineFails(t)
  BY <1>1, <1>8 DEF EngineFails, Goto, Knows, Holding, StartSteps, StopSteps, Running
<1>9. CASE Unwind(t)
  BY <1>1, <1>9 DEF Unwind, Goto, Return, Knows, Holding, StartSteps, StopSteps, Running
<1>10. CASE HealthOk(t)
  <2>1. inner'.proxy_state = "Active"
    BY <1>1, <1>10 DEF HealthOk, Inners
  <2> QED
    BY <1>1, <1>10, <2>1
       DEF HealthOk, Goto, Return, Knows, Holding, StartSteps, StopSteps, Running
<1>11. CASE HealthFails(t)
  <2>1. inner'.proxy_state = "Failed" /\ table' = table
    BY <1>1, <1>11 DEF HealthFails, RecordFailure, Inners, plane
  <2>2. table.kill = call.profile.kill /\ pc[t] = "health" /\ Running
    BY <1>11 DEF HealthFails, KillInv, Knows
  <2>3. CASE call.profile.kill
    BY <1>1, <1>11, <2>1, <2>2, <2>3
       DEF HealthFails, Goto, Return, Knows, Holding, StartSteps, StopSteps, Running
  <2>4. CASE ~call.profile.kill
    <3>1. call'.profile = call.profile /\ pc' = [pc EXCEPT ![t] = "stopEngine"] /\ phase' = phase
      BY <1>11, <2>4 DEF HealthFails, Goto, KillInv, IInv, TypeOK
    <3> QED
      BY <1>1, <2>1, <2>2, <2>4, <3>1
         DEF Knows, Holding, StartSteps, StopSteps, Running
  <2> QED BY <2>3, <2>4
<1> QED
  BY <1>2, <1>3, <1>4, <1>5, <1>6, <1>7, <1>8, <1>9, <1>10, <1>11 DEF StartProxy

LEMMA TransitionKnows ==
    ASSUME KillInv, NEW t \in Tasks, Transition(t)
    PROVE  /\ Knows(t)' /\ Running' /\ pc[t] \in Holding
           /\ \A u \in Tasks \ {t} : pc'[u] = pc[u]
<1>1. pc \in [Tasks -> Labels] /\ inner \in Inners /\ table \in Tables
  BY DEF KillInv, IInv, TypeOK
<1>2. CASE StopEngine(t)
  BY <1>1, <1>2 DEF StopEngine, Goto, Knows, Holding, StartSteps, StopSteps, Running, KillInv
<1>3. CASE StopRules(t)
  <2>1. call.ret \in Returns \cup {"begin"}
    BY <1>3 DEF KillInv, IInv, TypeOK, LocalsInv, StopRules, StopSteps
  <2>2. ~call.profile.kill /\ call' = call
    BY <1>3 DEF KillInv, Knows, StopRules, StopSteps
  <2> QED
    BY <1>1, <1>3, <2>1, <2>2
       DEF StopRules, Goto, Knows, Holding, StartSteps, StopSteps, Returns, Running
<1>4. CASE \/ t = Poller /\ PollPublish
           \/ t = Cleaner /\ CleanupDone
           \/ t \in Clients /\ (ManualStarted(t) \/ ManualStartFailed(t) \/ ManualStopped(t))
  <2>1. /\ Running /\ phase' = phase /\ pc[t] \in Returns
        /\ \E label \in Resting \cup {"exited"} : pc' = [pc EXCEPT ![t] = label]
    BY <1>4 DEF PollPublish, CleanupDone, ManualStarted, ManualStartFailed, ManualStopped,
       Release, Goto, Returns, Resting, Running
  <2> QED
    BY <1>1, <2>1 DEF Knows, Holding, StartSteps, StopSteps, Returns, Resting, Running
<1> QED BY <1>2, <1>3, <1>4, StartProxyKnows DEF Transition, StopProxy

-----------------------------------------------------------------------------
(* Whoever enters the mutex begins a start, or a stop that no start asked for. *)

LEMMA StopCalled ==
    ASSUME NEW t \in Tasks, NEW ret, pc \in [Tasks -> Labels], CallStop(t, ret)
    PROVE  pc' = [pc EXCEPT ![t] = "stopEngine"] /\ call'.profile = NoProfile
BY DEF CallStop, Goto, NoCall

LEMMA EnterKnows ==
    ASSUME KillInv, NEW t \in Tasks, lock = Nobody,
           \/ t = Poller /\ PollLocked
           \/ t = Cleaner /\ Cleanup
           \/ t \in Clients /\ (ManualStartLocked(t) \/ ManualStopLocked(t))
    PROVE  /\ Knows(t)' /\ Running'
           /\ \A u \in Tasks \ {t} : pc'[u] = pc[u]
<1>1. pc \in [Tasks -> Labels]
  BY DEF KillInv, IInv, TypeOK
<1>2. /\ Running'
      /\ \/ pc' = [pc EXCEPT ![t] = "stopEngine"] /\ call'.profile = NoProfile
         \/ \E label \in {"begin", "publish"} : pc' = [pc EXCEPT ![t] = label]
  <2>1. CASE t = Poller /\ PollNoWifi
    BY <1>1, <2>1, StopCalled DEF PollNoWifi, PollLock, Goto, Running
  <2>2. CASE t = Poller /\ PollWifi
    BY <1>1, <2>2, StopCalled DEF PollWifi, PollLock, Goto, Running
  <2>3. CASE t = Cleaner /\ Cleanup
    BY <1>1, <2>3, StopCalled DEF Cleanup, Running
  <2>4. CASE ManualStartLocked(t)
    BY <1>1, <2>4 DEF ManualStartLocked, Goto, Running
  <2>5. CASE ManualStopLocked(t)
    BY <1>1, <2>5, StopCalled DEF ManualStopLocked, Running
  <2> QED BY <2>1, <2>2, <2>3, <2>4, <2>5 DEF PollLocked
<1> QED BY <1>1, <1>2 DEF Knows, StopSteps, NoProfile

-----------------------------------------------------------------------------
(* What happens outside the mutex. *)

LEMMA OutsideMoves ==
    ASSUME \/ PollRead \/ PollExit \/ SetProfiles \/ Signal \/ Roam \/ EngineDies
           \/ \E c \in Clients : ManualStart(c) \/ ManualStop(c)
    PROVE  /\ UNCHANGED <<inner, call, table>> /\ (Running => Running')
           /\ \/ pc' = pc
              \/ \E t \in Tasks, label \in {"waitPoll", "exited", "waitStart", "waitStop"} :
                    pc' = [pc EXCEPT ![t] = label]
BY DEF PollRead, PollExit, SetProfiles, Signal, Roam, EngineDies, ManualStart, ManualStop,
   Goto, plane, svars, Running, Tasks

LEMMA OutsideKeeps ==
    ASSUME KillInv, IInv',
           \/ PollRead \/ PollExit \/ SetProfiles \/ Signal \/ Roam \/ EngineDies
           \/ \E c \in Clients : ManualStart(c) \/ ManualStop(c)
    PROVE  KillInv'
<1>1. pc \in [Tasks -> Labels]
  BY DEF KillInv, IInv, TypeOK
<1>2. \A u \in Tasks : pc'[u] = pc[u] \/ pc'[u] \notin Holding
  BY <1>1, OutsideMoves DEF Holding, StartSteps, StopSteps, Returns
<1> QED BY <1>2, OutsideMoves, NothingKnown

LEMMA ProcessKeeps ==
    ASSUME KillInv, IInv', Crash \/ Exit \/ Startup
    PROVE  KillInv'
<1>1. CASE Crash \/ Exit
  <2>1. pc' = [t \in Tasks |-> "idle"] /\ inner' = NewInner
    BY <1>1 DEF Crash, Exit, ProcessGone
  <2> QED BY <2>1 DEF KillInv, Knows, StopSteps, NewInner
<1>2. CASE Startup
  <2>1. pc' = pc /\ ~Running /\ Running'
    BY <1>2 DEF Startup, Running
  <2>2. \A t \in Tasks : pc[t] \notin Holding
    BY <2>1, NobodyInside DEF KillInv, IInv, LockInv
  <2> QED BY <2>1, <2>2 DEF KillInv, Knows, Holding, StartSteps, StopSteps, Returns
<1> QED BY <1>1, <1>2

-----------------------------------------------------------------------------

LEMMA InitKills == Init => KillInv
BY InitTruthful DEF KillInv, Init, Knows, StopSteps, Running

LEMMA StepKills == KillInv /\ [Next]_vars => KillInv'
<1>1. SUFFICES ASSUME KillInv, [Next]_vars PROVE KillInv'
  OBVIOUS
<1>2. IInv'
  BY <1>1, StepsKeepIInv DEF KillInv
<1>3. ASSUME NEW t \in Tasks, Transition(t) PROVE KillInv'
  BY <1>1, <1>2, <1>3, TransitionKnows, OneInside
<1>4. ASSUME NEW c \in Clients, ManualStartLocked(c) \/ ManualStopLocked(c) PROVE KillInv'
  <2>1. c \in Tasks /\ lock = Nobody
    BY <1>4 DEF Tasks, ManualStartLocked, ManualStopLocked
  <2> QED BY <1>1, <1>2, <1>4, <2>1, EnterKnows, OneInside
<1>5. CASE PollLocked
  <2>1. Poller \in Tasks /\ lock = Nobody
    BY <1>5 DEF Tasks, PollLocked, PollNoWifi, PollWifi, PollLock
  <2> QED BY <1>1, <1>2, <1>5, <2>1, EnterKnows, OneInside
<1>6. CASE Cleanup
  <2>1. Cleaner \in Tasks /\ lock = Nobody
    BY <1>6 DEF Tasks, Cleanup
  <2> QED BY <1>1, <1>2, <1>6, <2>1, EnterKnows, OneInside
<1>7. CASE UNCHANGED vars
  BY <1>1, <1>2, <1>7 DEF vars, KillInv, Knows, Running
<1> QED
  BY <1>1, <1>2, <1>3, <1>4, <1>5, <1>6, <1>7, OutsideKeeps, ProcessKeeps DEF Next

\* What the tasks know of the kill switch holds in every behaviour.
THEOREM KillInvariance == Spec => []KillInv
BY InitKills, StepKills, PTL DEF Spec

-----------------------------------------------------------------------------
(* A failed start is reported. *)

LEMMA OnlyManualStarted ==
    ASSUME KillInv, Next, NEW c \in Clients, pc[c] = "started", pc'[c] = "ok"
    PROVE  ManualStarted(c)
<1>1. pc \in [Tasks -> Labels] /\ c \in Tasks
  BY DEF KillInv, IInv, TypeOK, Tasks
<1>2. lock = c /\ lock # Nobody /\ \A u \in Tasks : pc[u] \in Holding => u = c
  BY <1>1, HolderAlone DEF KillInv, Holding, Returns
<1>3. ASSUME NEW t \in Tasks, Transition(t) PROVE t = c
  BY <1>2, <1>3, TransitionKnows
<1>4. CASE Transition(c)
  BY <1>1, <1>4, ClientsAssumption
     DEF Transition, StartProxy, StopProxy, StartNoProfile, StartBegin, ResolveFails, ApplyRules,
         ApplyFails, StartEngine, EngineFails, Unwind, HealthOk, HealthFails, StopEngine,
         StopRules, ManualStartFailed, ManualStopped
<1>5. ~PollLocked /\ ~Cleanup /\ ~Exit
  BY <1>2 DEF PollLocked, PollNoWifi, PollWifi, PollLock, Cleanup, Exit
<1>6. \A d \in Clients : ~ManualStartLocked(d) /\ ~ManualStopLocked(d)
  BY <1>2 DEF ManualStartLocked, ManualStopLocked
<1>7. ~Crash /\ ~Startup
  BY <1>1 DEF Crash, Startup, ProcessGone
<1>8. ~(\/ PollRead \/ PollExit \/ SetProfiles \/ Signal \/ Roam \/ EngineDies
        \/ \E d \in Clients : ManualStart(d) \/ ManualStop(d))
  BY <1>1, OutsideMoves
<1> QED BY <1>3, <1>4, <1>5, <1>6, <1>7, <1>8 DEF Next

\* A caller whose profile has the kill switch is told of success only if the proxy is
\* Active, whatever failed.
THEOREM FailureReported == Spec => StartReportsFailure
<1> DEFINE Reported == \A c \in Clients : pc[c] = "started" /\ pc'[c] = "ok"
                          => inner'.proxy_state = "Active" \/ ~call.profile.kill
<1>1. KillInv /\ [Next]_vars => [Reported]_vars
  <2>1. SUFFICES ASSUME KillInv, Next, NEW c \in Clients, pc[c] = "started", pc'[c] = "ok"
                 PROVE  inner'.proxy_state = "Active" \/ ~call.profile.kill
    OBVIOUS
  <2>2. ManualStarted(c) /\ c \in Tasks
    BY <2>1, OnlyManualStarted DEF Tasks
  <2>3. inner.proxy_state # "Failed" /\ inner'.proxy_state = inner.proxy_state
    BY <2>1, <2>2 DEF ManualStarted, Release, Goto, KillInv, IInv, TypeOK, Inners
  <2>4. inner.proxy_state \in {"Active", "Disconnected"}
    BY <2>1, <2>2, <2>3 DEF KillInv, IInv, StateInv, Truthful, Returns
  <2> QED BY <2>1, <2>2, <2>3, <2>4 DEF KillInv, Knows
<1> QED BY <1>1, KillInvariance, PTL DEF Spec, StartReportsFailure

-----------------------------------------------------------------------------
(* What blocks stays, if the child can be spawned. *)

\* Who may leave the kernel with another table.
LEMMA TableMoves ==
    ASSUME Next, table' # table
    PROVE  Startup \/ \E t \in Tasks : ApplyRules(t) \/ Unwind(t) \/ StopRules(t)
<1>1. ASSUME NEW t \in Tasks, Transition(t) PROVE ApplyRules(t) \/ Unwind(t) \/ StopRules(t)
  BY <1>1
     DEF Transition, StartProxy, StopProxy, StartNoProfile, StartBegin, ResolveFails, ApplyFails,
         StartEngine, EngineFails, HealthOk, HealthFails, StopEngine, PollPublish, CleanupDone,
         ManualStarted, ManualStartFailed, ManualStopped, plane
<1>2. ~PollLocked /\ ~Cleanup /\ ~Exit /\ ~Crash
  BY DEF PollLocked, PollNoWifi, PollWifi, PollLock, Cleanup, Exit, Crash, ProcessGone, plane
<1>3. \A d \in Clients : ~ManualStartLocked(d) /\ ~ManualStopLocked(d)
  BY DEF ManualStartLocked, ManualStopLocked, plane
<1>4. ~(\/ PollRead \/ PollExit \/ SetProfiles \/ Signal \/ Roam \/ EngineDies
        \/ \E d \in Clients : ManualStart(d) \/ ManualStop(d))
  BY OutsideMoves
<1> QED BY <1>1, <1>2, <1>3, <1>4 DEF Next

\* No task comes to the label where a child that could not be spawned is given up.
LEMMA NothingToUnwind ==
    ASSUME "engineStart" \notin Events, SpawnInv, [Next]_vars
    PROVE  SpawnInv'
<1>1. KillInv' /\ pc \in [Tasks -> Labels]
  BY StepKills DEF SpawnInv, KillInv, IInv, TypeOK
<1>2. ASSUME NEW t \in Tasks, pc'[t] = "unwind" PROVE FALSE
  <2>1. pc[t] # "unwind"
    BY DEF SpawnInv
  <2>2. ASSUME NEW u \in Tasks, Transition(u) PROVE FALSE
    <3>1. u = t
      BY <1>2, <2>1, <2>2, TransitionKnows DEF SpawnInv
    <3>2. CASE StopRules(t)
      BY <1>1, <1>2, <3>2 DEF StopRules, Goto, Returns, SpawnInv, KillInv, IInv, TypeOK
    <3>3. CASE StartProxy(t)
      BY <1>1, <1>2, <3>3
         DEF StartProxy, StartNoProfile, StartBegin, ResolveFails, ApplyRules, ApplyFails,
             StartEngine, EngineFails, Unwind, HealthOk, HealthFails, Goto, Return
    <3> QED
      BY <1>1, <1>2, <2>2, <3>1, <3>2, <3>3
         DEF Transition, StopProxy, StopEngine, PollPublish, CleanupDone, ManualStarted,
             ManualStartFailed, ManualStopped, Release, Goto
  <2>3. ~PollLocked /\ ~Cleanup
    BY <1>1, <1>2, <2>1
       DEF PollLocked, PollNoWifi, PollWifi, PollLock, Cleanup, CallStop, Goto
  <2>4. \A d \in Clients : ~ManualStartLocked(d) /\ ~ManualStopLocked(d)
    BY <1>1, <1>2, <2>1 DEF ManualStartLocked, ManualStopLocked, CallStop, Goto
  <2>5. ~Crash /\ ~Exit /\ ~Startup
    BY <1>2, <2>1 DEF Crash, Exit, Startup, ProcessGone
  <2>6. ~(\/ PollRead \/ PollExit \/ SetProfiles \/ Signal \/ Roam \/ EngineDies
          \/ \E d \in Clients : ManualStart(d) \/ ManualStop(d))
    BY <1>1, <1>2, <2>1, OutsideMoves
  <2>7. pc' # pc
    BY <1>2, <2>1
  <2> QED BY <2>2, <2>3, <2>4, <2>5, <2>6, <2>7 DEF Next, vars
<1> QED BY <1>1, <1>2 DEF SpawnInv

\* Rules that block and under which a tunnel came up are removed only by a stop that no
\* start asked for, provided that the child can be spawned whenever it is asked for.
THEOREM KillSwitchCorrect ==
    ASSUME "engineStart" \notin Events
    PROVE  Spec => KillSwitchHolds
<1> DEFINE Held == table.kill /\ inner.active_uuid = table.conn /\ table' = NoTable
                      => \E t \in Tasks : pc[t] = "stopRules" /\ call.profile = NoProfile
<1>1. Init => SpawnInv
  BY InitKills DEF Init, SpawnInv
<1>2. SpawnInv /\ [Next]_vars => [Held]_vars
  <2>1. SUFFICES ASSUME SpawnInv, Next, table.kill, inner.active_uuid = table.conn,
                        table' = NoTable
                 PROVE  \E t \in Tasks : pc[t] = "stopRules" /\ call.profile = NoProfile
    OBVIOUS
  <2>2. table' # table /\ table.conn # NoConn
    BY <2>1 DEF NoTable, SpawnInv, KillInv, IInv, PlaneInv
  <2>3. ~Startup
    BY <2>1, <2>2 DEF Startup, Running, SpawnInv, KillInv
  <2>4. ASSUME NEW t \in Tasks, ApplyRules(t) PROVE FALSE
    BY <2>1, <2>4 DEF ApplyRules, NoTable, SpawnInv, KillInv, IInv, LocalsInv, Bound
  <2>5. ASSUME NEW t \in Tasks, Unwind(t) PROVE FALSE
    BY <2>1, <2>5 DEF Unwind, SpawnInv
  <2>6. PICK t \in Tasks : StopRules(t)
    BY <2>1, <2>2, <2>3, <2>4, <2>5, TableMoves
  <2> QED BY <2>1, <2>6 DEF StopRules, StopSteps, SpawnInv, KillInv, Knows
<1> QED BY <1>1, <1>2, NothingToUnwind, PTL DEF Spec, KillSwitchHolds

-----------------------------------------------------------------------------
(* What a step of a transition touches. *)

\* The types the steps below rest on.
LEMMA TaskTypes ==
    ASSUME IInv
    PROVE  /\ inner \in Inners /\ snap \in Snapshots /\ pc \in [Tasks -> Labels]
           /\ arg \in [Tasks -> Readings] /\ nm \in Readings
           /\ Poller \in Tasks /\ Cleaner \in Tasks /\ Poller # Cleaner /\ Nobody # Poller
           /\ Clients \subseteq Tasks /\ Poller \notin Clients /\ Cleaner \notin Clients
           /\ Nobody \notin Tasks
BY ClientsAssumption DEF IInv, TypeOK, Tasks, Poller, Cleaner, Nobody

\* A step of start_proxy or stop_proxy.
LEMMA InsideTouches ==
    ASSUME IInv, NEW t \in Tasks, StartProxy(t) \/ StopProxy(t)
    PROVE  /\ UNCHANGED <<nm, snap, arg, lock, phase>> /\ pc[t] \in Holding
           /\ inner'.user_stopped = inner.user_stopped
           /\ inner'.active_uuid \in {NoConn, inner.active_uuid, arg[t].wifi}
           /\ \A u \in Tasks \ {t} : pc'[u] = pc[u]
<1>1. inner \in Inners /\ pc \in [Tasks -> Labels]
  BY TaskTypes
<1>2. /\ pc[t] \in Holding /\ UNCHANGED <<nm, snap, arg, lock, phase>>
      /\ pc' = [pc EXCEPT ![t] = pc'[t]]
  BY <1>1 DEF StartProxy, StopProxy, StartNoProfile, StartBegin, ResolveFails, ApplyRules,
     ApplyFails, StartEngine, EngineFails, Unwind, HealthOk, HealthFails, StopEngine, StopRules,
     Goto, svars, Holding, StartSteps, StopSteps
<1>3. CASE \/ StartNoProfile(t) \/ ApplyRules(t) \/ EngineFails(t) \/ StopEngine(t)
  BY <1>1, <1>2, <1>3 DEF StartNoProfile, ApplyRules, EngineFails, StopEngine
<1>4. CASE \/ ResolveFails(t) \/ ApplyFails(t) \/ Unwind(t) \/ HealthFails(t)
  BY <1>1, <1>2, <1>4
     DEF ResolveFails, ApplyFails, Unwind, HealthFails, RecordFailure, Inners
<1>5. CASE StartBegin(t) \/ StartEngine(t) \/ HealthOk(t) \/ StopRules(t)
  BY <1>1, <1>2, <1>5
     DEF StartBegin, StartEngine, HealthOk, StopRules, Stopped, NewInner, Inners
<1> QED BY <1>3, <1>4, <1>5 DEF StartProxy, StopProxy

\* A task that is inside stays there, or leaves to rest.
LEMMA HolderStays ==
    ASSUME IInv, IInv', NEW t \in Tasks, Transition(t)
    PROVE  /\ pc[t] \in Holding
           /\ pc'[t] \in Holding \/ pc'[t] \in {"idle", "exited", "ok", "err"}
           /\ \A u \in Tasks \ {t} : pc'[u] = pc[u] /\ arg'[u] = arg[u]
           /\ (pc'[t] \in Holding => arg' = arg) /\ nm' = nm
           /\ (t # Poller => snap'.wifi = snap.wifi)
           /\ (t = Poller => snap' = snap \/ snap'.wifi = arg[Poller].wifi)
<1>1. CASE StartProxy(t) \/ StopProxy(t)
  <2>1. /\ UNCHANGED <<nm, snap, arg, lock>> /\ pc[t] \in Holding
        /\ \A u \in Tasks \ {t} : pc'[u] = pc[u]
    BY <1>1, InsideTouches
  <2>2. lock' = t
    BY <2>1, HolderAlone
  <2>3. pc'[t] \in Holding
    BY <2>2 DEF IInv, LockInv
  <2> QED BY <2>1, <2>3
<1>2. CASE \/ t = Poller /\ PollPublish
           \/ t = Cleaner /\ CleanupDone
           \/ t \in Clients /\ (ManualStarted(t) \/ ManualStartFailed(t) \/ ManualStopped(t))
  <2>1. /\ pc[t] \in Returns /\ nm' = nm
        /\ pc' = [pc EXCEPT ![t] = pc'[t]] /\ pc'[t] \in {"idle", "exited", "ok", "err"}
        /\ arg' = [arg EXCEPT ![t] = NoReading]
    BY <1>2, TaskTypes DEF PollPublish, CleanupDone, ManualStarted, ManualStartFailed,
       ManualStopped, Release, Goto, Returns, svars
  <2>2. pc'[t] \notin Holding /\ pc[t] \in Holding
    BY <2>1 DEF Holding, StartSteps, StopSteps, Returns
  <2>3. t # Poller => snap'.wifi = snap.wifi
    BY <1>2, TaskTypes DEF CleanupDone, ManualStarted, ManualStartFailed, ManualStopped,
       Published, Snapshots
  <2>4. t = Poller => snap'.wifi = arg[Poller].wifi
    BY <1>2, TaskTypes DEF PollPublish, DefaultSnapshot
  <2> QED BY <2>1, <2>2, <2>3, <2>4, TaskTypes
<1> QED BY <1>1, <1>2 DEF Transition

-----------------------------------------------------------------------------
(* The mutex is given back. *)

\* Where a transition of a task may end, and where it may go on after a stop.
Ends(t) ==
    IF t = Poller THEN {"publish"}
    ELSE IF t = Cleaner THEN {"cleaned"}
    ELSE {"started", "failed", "stopped"}

InPlace(t) ==
    /\ pc[t] \in Returns => pc[t] \in Ends(t)
    /\ pc[t] \in StopSteps => call.ret \in Ends(t) \/ (t = Poller /\ call.ret = "begin")

\* Whoever is inside is at a label it has a step from, and comes back from a stop to one;
\* the main task only stops, once the poller is gone.
PlaceInv ==
    /\ \A t \in Tasks : InPlace(t)
    /\ pc[Cleaner] \in {"idle", "cleaned", "exited"} \cup StopSteps
    /\ pc[Cleaner] # "idle" => pc[Poller] = "exited" /\ phase = "stopping"

LEMMA InsideGoes ==
    ASSUME IInv, PlaceInv, NEW t \in Tasks, StartProxy(t) \/ StopProxy(t)
    PROVE  \/ pc[t] = "begin" /\ pc'[t] \in {"apply"} \cup Ends(t)
           \/ pc[t] = "apply" /\ pc'[t] \in {"engine"} \cup Ends(t)
           \/ pc[t] = "engine" /\ pc'[t] \in {"health", "unwind"}
           \/ pc[t] = "unwind" /\ pc'[t] \in Ends(t)
           \/ pc[t] = "health" /\ pc'[t] \in Ends(t)
           \/ pc[t] = "health" /\ pc'[t] = "stopEngine" /\ call'.ret \in Ends(t)
           \/ pc[t] = "stopEngine" /\ pc'[t] = "stopRules" /\ call' = call
           \/ /\ pc[t] = "stopRules" /\ pc'[t] = call.ret
              /\ call.ret \in Ends(t) \/ (t = Poller /\ call.ret = "begin")
<1>1. /\ pc \in [Tasks -> Labels]
      /\ call \in [profile : Profiles, ret : Returns \cup {"begin", "idle"}]
  BY DEF IInv, TypeOK
<1>2. CASE StopProxy(t)
  BY <1>1, <1>2 DEF StopProxy, StopEngine, StopRules, Goto, PlaceInv, InPlace, StopSteps
<1>3. CASE StartProxy(t)
  <2>1. pc[t] \in StartSteps
    BY <1>3 DEF StartProxy, StartNoProfile, StartBegin, ResolveFails, ApplyRules, ApplyFails,
       StartEngine, EngineFails, Unwind, HealthOk, HealthFails, StartSteps
  <2>2. t # Cleaner
    BY <2>1 DEF PlaceInv, StartSteps, StopSteps
  <2>3. \A ok \in BOOLEAN : Return(t, ok) \in Ends(t)
    BY <2>2 DEF Return, Ends
  <2>4. CASE StartNoProfile(t) \/ StartBegin(t) \/ ResolveFails(t)
    BY <1>1, <2>3, <2>4 DEF StartNoProfile, StartBegin, ResolveFails, Goto
  <2>5. CASE ApplyRules(t) \/ ApplyFails(t) \/ StartEngine(t) \/ EngineFails(t)
    BY <1>1, <2>3, <2>5 DEF ApplyRules, ApplyFails, StartEngine, EngineFails, Goto
  <2>6. CASE Unwind(t) \/ HealthOk(t)
    BY <1>1, <2>3, <2>6 DEF Unwind, HealthOk, Goto
  <2>7. CASE HealthFails(t)
    BY <1>1, <2>3, <2>7 DEF HealthFails, Goto
  <2> QED BY <1>3, <2>4, <2>5, <2>6, <2>7 DEF StartProxy
<1> QED BY <1>2, <1>3

\* It is enough to look at the task that moves, when all others are outside.
LEMMA OneMoves ==
    ASSUME PlaceInv, TypeOK, NEW t \in Tasks, phase' = phase, InPlace(t)',
           \A u \in Tasks \ {t} : pc'[u] = pc[u] /\ pc[u] \notin Holding,
           t = Poller => pc[Cleaner] = "idle",
           t = Cleaner => /\ pc'[t] \in {"cleaned", "exited"} \cup StopSteps
                          /\ pc[Poller] = "exited" /\ phase = "stopping"
    PROVE  PlaceInv'
<1>1. Poller \in Tasks /\ Cleaner \in Tasks /\ Poller # Cleaner
  BY DEF Tasks, Poller, Cleaner
<1>2. \A u \in Tasks \ {t} : InPlace(u)'
  BY DEF InPlace, Holding
<1>3. \A u \in Tasks : InPlace(u)'
  BY <1>2
<1>4. CASE t = Poller
  BY <1>1, <1>3, <1>4 DEF PlaceInv
<1>5. CASE t = Cleaner
  BY <1>1, <1>3, <1>5 DEF PlaceInv
<1>6. CASE t # Poller /\ t # Cleaner
  BY <1>1, <1>3, <1>6 DEF PlaceInv
<1> QED BY <1>4, <1>5, <1>6

LEMMA PlaceKept ==
    ASSUME IInv, PlaceInv, [Next]_vars
    PROVE  PlaceInv'
<1>0. TypeOK
  BY DEF IInv
<1>1. ASSUME NEW t \in Tasks, StartProxy(t) \/ StopProxy(t) PROVE PlaceInv'
  <2>0. /\ phase' = phase /\ pc[t] \in Holding
        /\ \A u \in Tasks \ {t} : pc'[u] = pc[u]
    BY <1>1, InsideTouches
  <2>1. /\ phase' = phase /\ pc[t] \in Holding
        /\ \A u \in Tasks \ {t} : pc'[u] = pc[u] /\ pc[u] \notin Holding
    BY <2>0, HolderAlone
  <2>2. InPlace(t)'
    BY <1>1, InsideGoes DEF PlaceInv, InPlace, Ends, Returns, StopSteps
  <2>3. t = Poller => pc[Cleaner] = "idle"
    BY <2>1 DEF PlaceInv, Holding, StartSteps, StopSteps, Returns
  <2>4. t = Cleaner => pc[t] \in StopSteps \cup {"cleaned"}
    BY <2>1 DEF PlaceInv, Holding, StartSteps, StopSteps, Returns
  <2>5. t = Cleaner => pc'[t] \in StopSteps \cup {"cleaned"}
    BY <1>1, <2>4, InsideGoes DEF Ends, StopSteps, Poller, Cleaner
  <2>6. t = Cleaner => pc[Poller] = "exited" /\ phase = "stopping"
    BY <2>4 DEF PlaceInv, StopSteps
  <2> QED BY <1>0, <2>1, <2>2, <2>3, <2>5, <2>6, OneMoves
<1>2. ASSUME NEW t \in Tasks,
             \/ t = Poller /\ PollPublish
             \/ t = Cleaner /\ CleanupDone
             \/ t \in Clients /\ (ManualStarted(t) \/ ManualStartFailed(t) \/ ManualStopped(t))
      PROVE  PlaceInv'
  <2>1. /\ phase' = phase /\ pc[t] \in Returns /\ pc' = [pc EXCEPT ![t] = pc'[t]]
        /\ pc'[t] \in IF t = Cleaner THEN {"exited"} ELSE {"idle", "ok", "err"}
    BY <1>2, TaskTypes DEF PollPublish, CleanupDone, ManualStarted, ManualStartFailed,
       ManualStopped, Release, Goto, Returns
  <2>2. \A u \in Tasks \ {t} : pc'[u] = pc[u] /\ pc[u] \notin Holding
    BY <2>1, HolderAlone, TaskTypes DEF Holding
  <2>3. InPlace(t)'
    BY <2>1 DEF InPlace, Returns, StopSteps
  <2>4. t = Poller => pc[Cleaner] = "idle"
    BY <2>1 DEF PlaceInv, Returns
  <2>5. t = Cleaner => pc[Poller] = "exited" /\ phase = "stopping"
    BY <2>1 DEF PlaceInv, Returns
  <2>6. t = Cleaner => pc'[t] = "exited"
    BY <2>1
  <2> QED BY <1>0, <2>1, <2>2, <2>3, <2>4, <2>5, <2>6, OneMoves
<1>3. CASE PollLocked
  <2>1. /\ pc[Poller] = "waitPoll" /\ lock = Nobody /\ phase' = phase
        /\ pc' = [pc EXCEPT ![Poller] = pc'[Poller]]
        /\ \/ pc'[Poller] \in {"begin", "publish"}
           \/ pc'[Poller] = "stopEngine" /\ call'.ret \in {"begin", "publish"}
    BY <1>3, TaskTypes DEF PollLocked, PollNoWifi, PollWifi, PollLock, CallStop, NoCall, Goto
  <2>2. \A u \in Tasks \ {Poller} : pc'[u] = pc[u] /\ pc[u] \notin Holding
    BY <2>1, NobodyInside, TaskTypes
  <2>3. InPlace(Poller)'
    BY <2>1 DEF InPlace, Ends, Returns, StopSteps
  <2>4. Poller \in Tasks /\ Poller # Cleaner /\ pc[Cleaner] = "idle"
    BY <2>1 DEF PlaceInv, Tasks, Poller, Cleaner
  <2> QED BY <1>0, <2>1, <2>2, <2>3, <2>4, OneMoves
<1>4. CASE Cleanup
  <2>1. /\ pc[Poller] = "exited" /\ lock = Nobody /\ phase' = phase /\ phase = "stopping"
        /\ pc' = [pc EXCEPT ![Cleaner] = "stopEngine"] /\ call'.ret = "cleaned"
    BY <1>4 DEF Cleanup, CallStop, NoCall, Goto
  <2>2. \A u \in Tasks \ {Cleaner} : pc'[u] = pc[u] /\ pc[u] \notin Holding
    BY <2>1, NobodyInside, TaskTypes
  <2>3. Cleaner \in Tasks /\ Poller # Cleaner /\ pc'[Cleaner] = "stopEngine"
    BY <2>1, TaskTypes DEF Tasks, Poller, Cleaner
  <2>4. InPlace(Cleaner)'
    BY <2>1, <2>3 DEF InPlace, Ends, Returns
  <2>5. pc'[Cleaner] \in StopSteps
    BY <2>3 DEF StopSteps
  <2> QED BY <1>0, <2>1, <2>2, <2>3, <2>4, <2>5, OneMoves
<1>5. ASSUME NEW c \in Clients, ManualStartLocked(c) \/ ManualStopLocked(c) PROVE PlaceInv'
  <2>1. /\ lock = Nobody /\ phase' = phase /\ pc' = [pc EXCEPT ![c] = pc'[c]]
        /\ pc'[c] = "begin" \/ (pc'[c] = "stopEngine" /\ call'.ret = "stopped")
    BY <1>5, TaskTypes DEF ManualStartLocked, ManualStopLocked, CallStop, NoCall, Goto, Tasks
  <2>2. \A u \in Tasks \ {c} : pc'[u] = pc[u] /\ pc[u] \notin Holding
    BY <2>1, NobodyInside, TaskTypes
  <2>3. c \in Tasks /\ c # Poller /\ c # Cleaner
    BY ClientsAssumption DEF Tasks
  <2>4. InPlace(c)'
    BY <2>1, <2>3 DEF InPlace, Ends, Returns, StopSteps
  <2> QED BY <1>0, <2>1, <2>2, <2>3, <2>4, OneMoves
<1>6. CASE Crash \/ Exit
  BY <1>6, TaskTypes DEF Crash, Exit, ProcessGone, PlaceInv, InPlace, Returns, StopSteps
<1>7. CASE PollRead \/ PollExit
  <2>1. /\ call' = call /\ phase' = phase /\ pc[Poller] = "idle"
        /\ \/ pc' = [pc EXCEPT ![Poller] = "waitPoll"]
           \/ pc' = [pc EXCEPT ![Poller] = "exited"] /\ phase = "stopping"
    BY <1>7 DEF PollRead, PollExit, Goto
  <2> QED BY <2>1, TaskTypes DEF PlaceInv, InPlace, Returns, StopSteps
<1>8. ASSUME NEW c \in Clients, ManualStart(c) \/ ManualStop(c) PROVE PlaceInv'
  <2>1. /\ call' = call /\ phase' = phase
        /\ pc' = [pc EXCEPT ![c] = "waitStart"] \/ pc' = [pc EXCEPT ![c] = "waitStop"]
    BY <1>8 DEF ManualStart, ManualStop, Goto
  <2> QED BY <2>1, TaskTypes DEF PlaceInv, InPlace, Returns, StopSteps
<1>9. CASE SetProfiles \/ Signal \/ Roam \/ EngineDies \/ UNCHANGED vars
  BY <1>9 DEF SetProfiles, Signal, Roam, EngineDies, vars, PlaceInv, InPlace
<1>10. CASE Startup
  BY <1>10 DEF Startup, PlaceInv, InPlace
<1> QED
  BY <1>1, <1>2, <1>3, <1>4, <1>5, <1>6, <1>7, <1>8, <1>9, <1>10 DEF Next, Transition

\* Whoever is inside the mutex is at a label it has a step from.
THEOREM PlaceInvariance == Spec => []PlaceInv
<1>1. Init => PlaceInv
  BY DEF Init, PlaceInv, InPlace, Returns, StopSteps, Tasks, Cleaner
<1>2. IInv /\ PlaceInv /\ [Next]_vars => PlaceInv'
  BY PlaceKept
<1> QED BY <1>1, <1>2, Invariance, PTL DEF Spec

\* How many steps of its own whoever is at a label is away from giving the mutex back.
Left(label, ret) ==
    CASE label \in Returns -> 1
      [] label = "stopRules" -> IF ret = "begin" THEN 8 ELSE 2
      [] label = "stopEngine" -> IF ret = "begin" THEN 9 ELSE 3
      [] label \in {"health", "unwind"} -> 4
      [] label = "engine" -> 5
      [] label = "apply" -> 6
      [] label = "begin" -> 7
      [] OTHER -> 0

StepsLeft == IF lock = Nobody THEN 0 ELSE Left(pc[lock], call.ret)

\* A task that has the mutex gives it back, keeps its distance, or comes nearer.
Nearer ==
    lock # Nobody =>
        \/ lock' = Nobody
        \/ lock' = lock /\ pc'[lock] = pc[lock] /\ StepsLeft' = StepsLeft
        \/ lock' = lock /\ pc[lock] # pc'[lock] /\ StepsLeft' < StepsLeft

\* What the labels are worth.
LEMMA LeftValues ==
    ASSUME NEW label \in Labels, NEW ret
    PROVE  /\ Left(label, ret) \in 0 .. 9
           /\ label \in Returns => Left(label, ret) = 1
           /\ label = "stopRules" => Left(label, ret) = IF ret = "begin" THEN 8 ELSE 2
           /\ label = "stopEngine" => Left(label, ret) = IF ret = "begin" THEN 9 ELSE 3
           /\ label \in {"health", "unwind"} => Left(label, ret) = 4
           /\ label = "engine" => Left(label, ret) = 5
           /\ label = "apply" => Left(label, ret) = 6
           /\ label = "begin" => Left(label, ret) = 7
           /\ label \in Holding => Left(label, ret) > 0
BY DEF Left, Labels, Holding, StartSteps, StopSteps, Returns

LEMMA HolderNears ==
    ASSUME IInv, IInv', PlaceInv, NEW t \in Tasks, StartProxy(t) \/ StopProxy(t)
    PROVE  lock' = lock /\ pc[lock] # pc'[lock] /\ StepsLeft' < StepsLeft
<1>1. pc[t] \in Holding /\ lock' = lock
  BY InsideTouches
<1>2. lock = t /\ t # Nobody
  BY <1>1, HolderAlone
<1>3. StepsLeft = Left(pc[t], call.ret) /\ StepsLeft' = Left(pc'[t], call'.ret)
  BY <1>1, <1>2 DEF StepsLeft
<1>4. pc[t] \in Labels /\ pc'[t] \in Labels
  BY DEF IInv, TypeOK
<1>5. Ends(t) \subseteq Returns /\ "begin" \notin Returns
  BY DEF Ends, Returns
<1>6. \A r : /\ pc[t] \in Returns => Left(pc[t], r) = 1
             /\ pc'[t] \in Returns => Left(pc'[t], r) = 1
  BY <1>4, LeftValues
<1>7. CASE pc[t] \in {"begin", "apply", "engine", "unwind"}
  <2>1. \/ pc'[t] \in Returns
        \/ pc[t] = "begin" /\ pc'[t] = "apply"
        \/ pc[t] = "apply" /\ pc'[t] = "engine"
        \/ pc[t] = "engine" /\ pc'[t] \in {"health", "unwind"}
    BY <1>5, <1>7, InsideGoes
  <2>2. pc[t] \notin Returns
    BY <1>7 DEF Returns
  <2>3. Left(pc'[t], call'.ret) < Left(pc[t], call.ret)
    BY <1>4, <1>7, <2>1, LeftValues
  <2> QED BY <1>1, <1>2, <1>3, <1>7, <2>1, <2>2, <2>3
<1>8. CASE pc[t] = "health"
  <2>1. pc'[t] \in Returns \/ (pc'[t] = "stopEngine" /\ call'.ret # "begin")
    BY <1>5, <1>8, InsideGoes
  <2>2. Left(pc'[t], call'.ret) < Left(pc[t], call.ret)
    BY <1>4, <1>8, <2>1, LeftValues
  <2> QED BY <1>1, <1>2, <1>3, <1>8, <2>1, <2>2 DEF Returns
<1>9. CASE pc[t] = "stopEngine"
  <2>1. pc'[t] = "stopRules" /\ call' = call
    BY <1>9, InsideGoes
  <2> QED BY <1>1, <1>2, <1>3, <1>4, <1>9, <2>1, LeftValues
<1>10. CASE pc[t] = "stopRules"
  <2>1. \/ pc'[t] \in Returns /\ call.ret \in Returns
        \/ pc'[t] = "begin" /\ call.ret = "begin"
    BY <1>5, <1>10, InsideGoes
  <2>2. Left(pc'[t], call'.ret) < Left(pc[t], call.ret)
    BY <1>4, <1>5, <1>10, <2>1, LeftValues
  <2> QED BY <1>1, <1>2, <1>3, <1>10, <2>1, <2>2 DEF Returns
<1> QED BY <1>7, <1>8, <1>9, <1>10, InsideGoes

\* A transition is over after at most nine steps of the task that is inside, and no step of
\* anyone else takes the mutex from it or puts it further back: start_proxy and stop_proxy
\* wait for nothing that another task of the daemon does.
THEOREM TransitionsEnd == Spec => [](StepsLeft \in 0 .. 9) /\ [][Nearer]_vars
<1>1. IInv => StepsLeft \in 0 .. 9
  <2>1. SUFFICES ASSUME IInv, lock # Nobody PROVE Left(pc[lock], call.ret) \in 0 .. 9
    BY DEF StepsLeft
  <2>2. pc[lock] \in Labels
    BY <2>1 DEF IInv, TypeOK
  <2> QED BY <2>2, LeftValues
<1>2. IInv /\ IInv' /\ PlaceInv /\ [Next]_vars => [Nearer]_vars
  <2>1. SUFFICES ASSUME IInv, IInv', PlaceInv, Next, lock # Nobody
                 PROVE  Nearer
    BY DEF Nearer
  <2>2. lock \in Tasks /\ pc[lock] \in Holding
    BY <2>1 DEF IInv, TypeOK, LockInv
  <2>3. ASSUME NEW t \in Tasks, StartProxy(t) \/ StopProxy(t) PROVE Nearer
    BY <2>1, <2>3, HolderNears DEF Nearer
  <2>4. CASE \/ PollPublish \/ CleanupDone \/ Crash \/ Exit
             \/ \E c \in Clients : ManualStarted(c) \/ ManualStartFailed(c) \/ ManualStopped(c)
    BY <2>4 DEF PollPublish, CleanupDone, Crash, Exit, ProcessGone, ManualStarted,
       ManualStartFailed, ManualStopped, Release, Nearer
  <2>5. ~PollLocked /\ ~Cleanup /\ \A c \in Clients : ~ManualStartLocked(c) /\ ~ManualStopLocked(c)
    BY <2>1 DEF PollLocked, PollNoWifi, PollWifi, PollLock, Cleanup, ManualStartLocked,
       ManualStopLocked
  <2>6. ASSUME lock' = lock, call' = call, pc'[lock] = pc[lock] PROVE Nearer
    BY <2>6 DEF Nearer, StepsLeft
  <2>7. CASE PollRead \/ PollExit
    <3>1. /\ lock' = lock /\ call' = call /\ pc[Poller] = "idle"
          /\ pc' = [pc EXCEPT ![Poller] = pc'[Poller]]
      BY <2>1, <2>7, TaskTypes DEF PollRead, PollExit, Goto
    <3>2. lock # Poller
      BY <2>2, <3>1 DEF Holding, StartSteps, StopSteps, Returns
    <3> QED BY <2>1, <2>2, <2>6, <3>1, <3>2, TaskTypes
  <2>8. ASSUME NEW c \in Clients, ManualStart(c) \/ ManualStop(c) PROVE Nearer
    <3>1. /\ lock' = lock /\ call' = call /\ pc[c] \in Resting
          /\ pc' = [pc EXCEPT ![c] = pc'[c]]
      BY <2>1, <2>8, TaskTypes DEF ManualStart, ManualStop, Goto
    <3>2. lock # c
      BY <2>2, <3>1 DEF Holding, StartSteps, StopSteps, Returns, Resting
    <3> QED BY <2>1, <2>2, <2>6, <3>1, <3>2, TaskTypes
  <2>9. CASE SetProfiles \/ Signal \/ Startup \/ Roam \/ EngineDies
    BY <2>6, <2>9 DEF SetProfiles, Signal, Startup, Roam, EngineDies
  <2> QED BY <2>1, <2>3, <2>4, <2>5, <2>7, <2>8, <2>9 DEF Next, Transition
<1> QED BY <1>1, <1>2, Invariance, PlaceInvariance, PTL DEF Spec

-----------------------------------------------------------------------------
(* What the clean-up leaves behind. *)

\* Nothing is loaded once the main task has stopped the proxy, and no client is on its way
\* to load something.
CleanInv ==
    /\ pc[Cleaner] = "cleaned" => table = NoTable
    /\ pc[Cleaner] = "exited" => table = NoTable /\ \A c \in Clients : pc[c] \notin StartSteps
    /\ phase = "exited" => table = NoTable

\* No client gets the mutex for a start after the clean-up had it.
InTime == \A c \in Clients : ManualStartLocked(c) => pc[Cleaner] # "exited"

\* Who comes to a step of start_proxy, and who gives up its guard.
LEMMA StartsComeFrom ==
    ASSUME IInv, IInv', PlaceInv, Next, InTime, pc[Cleaner] = "exited",
           NEW c \in Clients, pc'[c] \in StartSteps
    PROVE  pc[c] \in StartSteps
<1>1. c \in Tasks /\ c # Poller /\ c # Cleaner
  BY ClientsAssumption DEF Tasks
<1>2. SUFFICES ASSUME pc[c] \notin StartSteps PROVE FALSE
  OBVIOUS
<1>3. pc'[c] # pc[c]
  BY <1>2
<1>4. ASSUME NEW t \in Tasks, StartProxy(t) \/ StopProxy(t) PROVE FALSE
  <2>1. \A u \in Tasks \ {t} : pc'[u] = pc[u]
    BY <1>4, InsideTouches
  <2>2. t = c
    BY <1>1, <1>3, <2>1
  <2>3. pc[c] \notin {"begin", "apply", "engine", "unwind", "health"}
    BY <1>2 DEF StartSteps
  <2>4. pc'[c] = "stopRules" \/ pc'[c] \in Ends(c)
    BY <1>1, <1>4, <2>2, <2>3, InsideGoes
  <2> QED BY <1>1, <2>4 DEF Ends, StartSteps
<1>5. ~\E t \in Tasks : Transition(t)
  <2>1. ASSUME NEW t \in Tasks, Transition(t), ~StartProxy(t), ~StopProxy(t) PROVE FALSE
    <3>1. /\ pc' = [pc EXCEPT ![t] = pc'[t]]
          /\ pc'[t] \in {"idle", "exited", "ok", "err"}
      BY <2>1, TaskTypes DEF Transition, PollPublish, CleanupDone, ManualStarted,
         ManualStartFailed, ManualStopped, Release, Goto
    <3> QED BY <1>1, <1>3, <3>1, TaskTypes DEF StartSteps
  <2> QED BY <1>4, <2>1
<1>6. ~PollLocked /\ ~PollRead /\ ~PollExit /\ ~Cleanup
  BY <1>1, <1>3, TaskTypes DEF PollLocked, PollNoWifi, PollWifi, PollLock, PollRead, PollExit,
     Cleanup, CallStop, Goto
<1>7. ~Exit /\ ~Crash
  BY <1>1 DEF Exit, Crash, ProcessGone, StartSteps
<1>8. ASSUME NEW d \in Clients, ManualStart(d) \/ ManualStop(d) \/ ManualStopLocked(d) PROVE FALSE
  <2>1. pc' = [pc EXCEPT ![d] = pc'[d]] /\ pc'[d] \in {"waitStart", "waitStop", "stopEngine"}
    BY <1>8, TaskTypes DEF ManualStart, ManualStop, ManualStopLocked, CallStop, Goto, Tasks
  <2> QED BY <1>1, <1>3, <2>1, TaskTypes DEF StartSteps
<1>9. ~\E d \in Clients : ManualStartLocked(d)
  BY DEF InTime
<1>10. ~(SetProfiles \/ Signal \/ Startup \/ Roam \/ EngineDies)
  BY <1>3 DEF SetProfiles, Signal, Startup, Roam, EngineDies
<1> QED BY <1>5, <1>6, <1>7, <1>8, <1>9, <1>10 DEF Next

\* Only the end of the main task ends the daemon.
LEMMA OnlyExitExits ==
    ASSUME Next, phase' = "exited", phase # "exited"
    PROVE  Exit
<1>1. ~\E t \in Tasks : Transition(t)
  BY DEF Transition, StartProxy, StopProxy, StartNoProfile, StartBegin, ResolveFails, ApplyRules,
     ApplyFails, StartEngine, EngineFails, Unwind, HealthOk, HealthFails, StopEngine, StopRules,
     PollPublish, CleanupDone, ManualStarted, ManualStartFailed, ManualStopped
<1>2. ~PollLocked /\ ~PollRead /\ ~PollExit /\ ~Cleanup /\ ~Crash
  BY DEF PollLocked, PollNoWifi, PollWifi, PollLock, PollRead, PollExit, Cleanup, Crash
<1>3. ~\E c \in Clients : \/ ManualStart(c) \/ ManualStartLocked(c)
                         \/ ManualStop(c) \/ ManualStopLocked(c)
  BY DEF ManualStart, ManualStartLocked, ManualStop, ManualStopLocked
<1>4. ~(SetProfiles \/ Signal \/ Startup \/ Roam \/ EngineDies)
  BY DEF SetProfiles, Signal, Startup, Roam, EngineDies
<1> QED BY <1>1, <1>2, <1>3, <1>4 DEF Next

\* The main task is done when its own stop has returned.
LEMMA CleanerMoves ==
    ASSUME IInv, PlaceInv, Next
    PROVE  /\ pc'[Cleaner] = "cleaned" => pc[Cleaner] = "cleaned" \/ StopRules(Cleaner)
           /\ pc'[Cleaner] = "exited" => pc[Cleaner] = "exited" \/ CleanupDone
<1>1. ASSUME NEW t \in Tasks, StartProxy(t) \/ StopProxy(t), pc'[Cleaner] # pc[Cleaner]
      PROVE  pc'[Cleaner] = "stopRules" \/ (StopRules(Cleaner) /\ pc'[Cleaner] = "cleaned")
  <2>1. t = Cleaner /\ pc[t] \in Holding
    BY <1>1, InsideTouches, TaskTypes
  <2>2. pc[t] \in StopSteps \cup {"cleaned"}
    BY <2>1 DEF PlaceInv, Holding, StartSteps, StopSteps, Returns
  <2>3. \/ pc[t] = "stopEngine" /\ pc'[t] = "stopRules"
        \/ pc[t] = "stopRules" /\ pc'[t] \in Ends(t)
    BY <1>1, <2>1, <2>2, InsideGoes DEF StopSteps, Poller, Cleaner
  <2>4. pc[t] = "stopRules" => StopRules(t)
    BY <1>1, TaskTypes DEF StartProxy, StopProxy, StartNoProfile, StartBegin, ResolveFails,
       ApplyRules, ApplyFails, StartEngine, EngineFails, Unwind, HealthOk, HealthFails, StopEngine
  <2>5. Ends(t) = {"cleaned"}
    BY <2>1 DEF Ends, Poller, Cleaner
  <2> QED BY <2>1, <2>3, <2>4, <2>5 DEF StopRules
<1>2. CASE pc'[Cleaner] = pc[Cleaner]
  BY <1>2
<1>3. ASSUME NEW t \in Tasks,
             \/ t = Poller /\ PollPublish
             \/ t \in Clients /\ (ManualStarted(t) \/ ManualStartFailed(t) \/ ManualStopped(t))
      PROVE  pc'[Cleaner] = pc[Cleaner]
  BY <1>3, TaskTypes DEF PollPublish, ManualStarted, ManualStartFailed, ManualStopped, Release, Goto
<1>4. CASE CleanupDone
  BY <1>4, TaskTypes DEF CleanupDone, Release, Goto
<1>5. ASSUME PollLocked \/ PollRead \/ PollExit PROVE pc'[Cleaner] = pc[Cleaner]
  BY <1>5, TaskTypes DEF PollLocked, PollNoWifi, PollWifi, PollLock, PollRead, PollExit,
     CallStop, Goto
<1>6. CASE Cleanup \/ Exit \/ Crash
  BY <1>6, TaskTypes DEF Cleanup, Exit, Crash, ProcessGone, CallStop, Goto
<1>7. ASSUME NEW c \in Clients, \/ ManualStart(c) \/ ManualStartLocked(c)
                                \/ ManualStop(c) \/ ManualStopLocked(c)
      PROVE  pc'[Cleaner] = pc[Cleaner]
  BY <1>7, TaskTypes DEF ManualStart, ManualStartLocked, ManualStop, ManualStopLocked, CallStop,
     Goto
<1>8. ASSUME SetProfiles \/ Signal \/ Startup \/ Roam \/ EngineDies
      PROVE  pc'[Cleaner] = pc[Cleaner]
  BY <1>8 DEF SetProfiles, Signal, Startup, Roam, EngineDies
<1> QED BY <1>1, <1>2, <1>3, <1>4, <1>5, <1>6, <1>7, <1>8 DEF Next, Transition

LEMMA CleanKept ==
    ASSUME "nftDelete" \notin Events, IInv, IInv', PlaceInv, CleanInv, Next, InTime
    PROVE  CleanInv'
<1>1. RemoveRules => table' = NoTable
  BY DEF RemoveRules
<1>2. CASE table' = NoTable /\ table' # table
  <2>1. pc[Cleaner] # "exited" \/ table = NoTable
    BY DEF CleanInv
  <2>2. pc[Cleaner] # "exited"
    BY <1>2, <2>1
  <2>3. pc'[Cleaner] # "exited"
    <3>1. ~CleanupDone
      BY <1>2 DEF CleanupDone, plane
    <3> QED BY <2>2, <3>1, CleanerMoves
  <2> QED BY <1>2, <2>3 DEF CleanInv
<1>3. CASE table' # NoTable /\ table' # table
  <2>1. PICK t \in Tasks : ApplyRules(t)
    BY <1>1, <1>3, TableMoves DEF Startup, Unwind, StopRules
  <2>2. /\ pc[t] = "apply" /\ pc'= [pc EXCEPT ![t] = "engine"] /\ phase' = phase /\ Running
    BY <2>1 DEF ApplyRules, Goto
  <2>3. t # Cleaner /\ pc[Cleaner] # "cleaned"
    BY <2>2, HolderAlone, TaskTypes DEF PlaceInv, Holding, StartSteps, StopSteps, Returns
  <2>4. pc[Cleaner] # "exited"
    BY <2>2, <2>3 DEF CleanInv, PlaceInv, StartSteps, Tasks
  <2>5. pc'[Cleaner] = pc[Cleaner]
    BY <2>2, <2>3, TaskTypes
  <2> QED BY <2>2, <2>3, <2>4, <2>5 DEF CleanInv, Running
<1>4. CASE table' = table
  <2>1. pc'[Cleaner] = "cleaned" => table' = NoTable
    BY <1>1, <1>4, CleanerMoves DEF CleanInv, StopRules
  <2>2. pc'[Cleaner] = "exited" => table' = NoTable
    BY <1>4, CleanerMoves DEF CleanInv, CleanupDone
  <2>3. ASSUME pc'[Cleaner] = "exited", NEW c \in Clients PROVE pc'[c] \notin StartSteps
    <3>1. CASE pc[Cleaner] = "exited"
      BY <3>1, StartsComeFrom DEF CleanInv
    <3>2. CASE CleanupDone
      <4>1. pc[Cleaner] = "cleaned" /\ pc' = [pc EXCEPT ![Cleaner] = "exited"]
        BY <3>2 DEF CleanupDone, Release, Goto
      <4>2. pc[c] \notin Holding /\ c # Cleaner
        BY <4>1, HolderAlone, TaskTypes DEF Holding, Returns
      <4> QED BY <4>1, <4>2, TaskTypes DEF Holding
    <3> QED BY <2>3, <3>1, <3>2, CleanerMoves
  <2>4. phase' = "exited" => table' = NoTable
    <3>1. CASE phase = "exited"
      BY <1>4, <3>1 DEF CleanInv
    <3>2. CASE Exit
      BY <1>4, <3>2 DEF CleanInv, Exit
    <3>3. CASE phase # "exited" /\ ~Exit
      BY <3>3, OnlyExitExits
    <3> QED BY <3>1, <3>2, <3>3
  <2> QED BY <2>1, <2>2, <2>3, <2>4 DEF CleanInv
<1> QED BY <1>2, <1>3, <1>4

\* A daemon that ends leaves no rules behind, provided that nft deletes what it is asked to
\* and that no client is still on its way to start the proxy when the clean-up is over.
THEOREM NothingLeftBehindCorrect ==
    ASSUME "nftDelete" \notin Events
    PROVE  Spec /\ [][InTime]_vars => []NothingLeftBehind
<1>1. Init => CleanInv
  BY DEF Init, CleanInv, Tasks, Cleaner
<1>2. IInv /\ IInv' /\ PlaceInv /\ CleanInv /\ [Next]_vars /\ [InTime]_vars => CleanInv'
  <2>1. CASE UNCHANGED vars
    BY <2>1 DEF vars, CleanInv
  <2> QED BY <2>1, CleanKept
<1>3. CleanInv => NothingLeftBehind
  BY DEF CleanInv, NothingLeftBehind
<1> QED BY <1>1, <1>2, <1>3, Invariance, PlaceInvariance, PTL DEF Spec
=============================================================================
