---------------------------- MODULE DaemonProofs ----------------------------
(***************************************************************************)
(* IInv is an invariant of ProxyDaemon for every set of networks, clients  *)
(* and profiles, every retry count and every choice of Events; what the    *)
(* runs check of safety on small instances follows from it.  One lemma per *)
(* action shows that the action keeps IInv, conjunct by conjunct.          *)
(***************************************************************************)
EXTENDS DaemonInvariant, TLAPS

\* Whoever is at a label inside the mutex holds it, alone.
LEMMA HolderAlone ==
    ASSUME IInv, NEW t \in Tasks, pc[t] \in Holding
    PROVE  /\ lock = t /\ t # Nobody
           /\ \A u \in Tasks : pc[u] \in Holding => u = t
BY ClientsAssumption DEF IInv, LockInv, Tasks, Poller, Cleaner, Nobody

\* Nobody is inside a free mutex, and the last transition left the truth.
LEMMA NobodyInside ==
    ASSUME IInv, lock = Nobody
    PROVE  /\ \A u \in Tasks : pc[u] \notin Holding
           /\ Truthful
BY ClientsAssumption DEF IInv, LockInv, StateInv, Tasks, Poller, Cleaner, Nobody

\* Removing the rules clears what the daemon believes, and the table or nothing.
LEMMA RulesRemoved ==
    ASSUME table \in Tables, RemoveRules
    PROVE  /\ applied' = NoTable /\ NoTable \in Tables
           /\ table' \in Tables /\ table' \in {table, NoTable}
<1>1. NoTable \in Tables /\ applied' = NoTable
  BY DEF RemoveRules, NoTable, Tables, OptConn
<1>2. table' \in {table, NoTable}
  BY DEF RemoveRules
<1> QED BY <1>1, <1>2

\* The assignments to DaemonStateInner stay within its type.
LEMMA InnersKept ==
    ASSUME NEW i \in Inners
    PROVE  /\ NewInner \in Inners /\ RecordFailure(i) \in Inners /\ Stopped(i) \in Inners
           /\ \A u \in OptConn :
                [i EXCEPT !.proxy_active = TRUE, !.proxy_state = "HealthCheck",
                          !.active_uuid = u, !.failed_ticks = 0] \in Inners
<1> DEFINE Ticks == 0 .. RetryTicks
<1>1. 0 \in Ticks
  BY RetryAssumption
<1>2. Inners = [proxy_state : States, proxy_active : BOOLEAN, last_error : BOOLEAN,
                active_uuid : OptConn, failed_ticks : Ticks, user_stopped : OptConn,
                manual : BOOLEAN]
  BY DEF Inners
<1> HIDE DEF Ticks
<1>3. RecordFailure(i) \in Inners
  BY <1>1, <1>2 DEF RecordFailure, States
<1>4. NewInner \in Inners
  BY <1>1, <1>2 DEF NewInner, States, OptConn
<1>5. Stopped(i) \in Inners
  BY <1>2, <1>4 DEF Stopped
<1>6. \A u \in OptConn :
        [i EXCEPT !.proxy_active = TRUE, !.proxy_state = "HealthCheck",
                  !.active_uuid = u, !.failed_ticks = 0] \in Inners
  BY <1>1, <1>2 DEF States
<1> QED BY <1>3, <1>4, <1>5, <1>6

-----------------------------------------------------------------------------
(* start_proxy and stop_proxy, by the task that holds the mutex. *)

\* No profile matches any more: the transition ends as it began.
LEMMA StartNoProfileKeeps ==
    ASSUME IInv, NEW t \in Tasks, StartNoProfile(t)
    PROVE  IInv'
<1>1. pc[t] \in Holding /\ lock = t /\ t # Nobody
  BY HolderAlone DEF StartNoProfile, Holding, StartSteps, StopSteps, Returns
<1>2. \A u \in Tasks : pc[u] \in Holding => u = t
  BY <1>1, HolderAlone
<1>3. TypeOK'
  <2>1. pc' \in [Tasks -> Labels]
    BY DEF StartNoProfile, IInv, TypeOK, Goto, Labels, Holding, StartSteps,
           StopSteps, Returns, Return
  <2> QED
    BY <2>1 DEF StartNoProfile, IInv, TypeOK, svars, plane
<1>4. LockInv'
  BY <1>1, <1>2 DEF StartNoProfile, IInv, TypeOK, Goto, LockInv, Running,
         Holding, StartSteps, StopSteps, Returns, Return
<1>5. LocalsInv'
  BY <1>1, <1>2 DEF StartNoProfile, IInv, TypeOK, Goto, LocalsInv, Bound,
         Holding, StartSteps, StopSteps, Returns, Return
<1>6. PlaneInv'
  BY <1>1, <1>2 DEF StartNoProfile, IInv, TypeOK, Goto, svars, plane, PlaneInv,
         Holding, StartSteps, StopSteps, Returns, Return
<1>7. StepInv'
  BY <1>1, <1>2 DEF StartNoProfile, IInv, TypeOK, Goto, svars, plane, StepInv,
         Holding, StartSteps, StopSteps, Returns, Return
<1>8. StateInv'
  BY <1>1, <1>2 DEF StartNoProfile, IInv, TypeOK, Goto, svars, plane, StateInv,
         Truthful, Holding, StartSteps, StopSteps, Returns, Return
<1>9. ReadingInv'
  BY <1>1, <1>2 DEF StartNoProfile, IInv, TypeOK, Goto, ReadingInv, Tasks,
         Holding, StartSteps, StopSteps, Returns, Return, LocalsInv, Bound
<1>10. SnapInv'
  BY <1>1 DEF StartNoProfile, SnapInv
<1> QED
  BY <1>3, <1>4, <1>5, <1>6, <1>7, <1>8, <1>9, <1>10 DEF IInv

\* The profile matched: the state says Starting from here on.
LEMMA StartBeginKeeps ==
    ASSUME IInv, NEW t \in Tasks, StartBegin(t)
    PROVE  IInv'
<1>1. pc[t] \in Holding /\ lock = t /\ t # Nobody
  BY HolderAlone DEF StartBegin, Holding, StartSteps, StopSteps, Returns
<1>2. \A u \in Tasks : pc[u] \in Holding => u = t
  BY <1>1, HolderAlone
<1>3. TypeOK'
  <2>1. inner' \in Inners
    BY InnersKept DEF StartBegin, IInv, TypeOK, Inners, States
  <2>2. pc' \in [Tasks -> Labels]
    BY DEF StartBegin, IInv, TypeOK, Goto, Labels, Holding, StartSteps, StopSteps,
           Returns
  <2>3. call' \in [profile : Profiles, ret : Returns \cup {"begin", "idle"}]
    BY DEF StartBegin, IInv, TypeOK, Goto, Returns, Profiles, FindEnabledFor,
           NoProfile, LocalsInv, Bound, OptConn, Readings
  <2> QED
    BY <2>1, <2>2, <2>3 DEF StartBegin, IInv, TypeOK, svars, plane
<1>4. LockInv'
  BY <1>1, <1>2 DEF StartBegin, IInv, TypeOK, Goto, LockInv, Running, Holding,
         StartSteps, StopSteps, Returns
<1>5. LocalsInv'
  BY <1>1, <1>2 DEF StartBegin, IInv, TypeOK, Goto, LocalsInv, Bound, Holding,
         StartSteps, StopSteps, Returns
<1>6. PlaneInv'
  BY <1>1, <1>2 DEF StartBegin, IInv, TypeOK, Goto, svars, plane, PlaneInv,
         Holding, StartSteps, StopSteps, Returns, Inners
<1>7. StepInv'
  BY <1>1, <1>2 DEF StartBegin, IInv, TypeOK, Goto, svars, plane, StepInv,
         Holding, StartSteps, StopSteps, Returns, Inners
<1>8. StateInv'
  BY <1>1, <1>2 DEF StartBegin, IInv, TypeOK, Goto, svars, plane, StateInv,
         Truthful, Holding, StartSteps, StopSteps, Returns, Inners
<1>9. ReadingInv'
  BY <1>1, <1>2 DEF StartBegin, IInv, TypeOK, Goto, ReadingInv, Tasks, Holding,
         StartSteps, StopSteps, Returns, Inners
<1>10. SnapInv'
  BY <1>1 DEF StartBegin, SnapInv
<1> QED
  BY <1>3, <1>4, <1>5, <1>6, <1>7, <1>8, <1>9, <1>10 DEF IInv

\* The host name did not resolve, before anything was touched.
LEMMA ResolveFailsKeeps ==
    ASSUME IInv, NEW t \in Tasks, ResolveFails(t)
    PROVE  IInv'
<1>1. pc[t] \in Holding /\ lock = t /\ t # Nobody
  BY HolderAlone DEF ResolveFails, Holding, StartSteps, StopSteps, Returns
<1>2. \A u \in Tasks : pc[u] \in Holding => u = t
  BY <1>1, HolderAlone
<1>3. TypeOK'
  <2>1. inner' \in Inners
    BY InnersKept DEF ResolveFails, IInv, TypeOK
  <2>2. pc' \in [Tasks -> Labels]
    BY DEF ResolveFails, IInv, TypeOK, Goto, Labels, Holding, StartSteps,
           StopSteps, Returns, Return
  <2> QED
    BY <2>1, <2>2 DEF ResolveFails, IInv, TypeOK, svars, plane
<1>4. LockInv'
  BY <1>1, <1>2 DEF ResolveFails, IInv, TypeOK, Goto, LockInv, Running, Holding,
         StartSteps, StopSteps, Returns, Return
<1>5. LocalsInv'
  BY <1>1, <1>2 DEF ResolveFails, IInv, TypeOK, Goto, LocalsInv, Bound, Holding,
         StartSteps, StopSteps, Returns, Return
<1>6. PlaneInv'
  BY <1>1, <1>2 DEF ResolveFails, IInv, TypeOK, Goto, svars, plane, PlaneInv,
         Holding, StartSteps, StopSteps, Returns, Inners, RecordFailure, Return
<1>7. StepInv'
  BY <1>1, <1>2 DEF ResolveFails, IInv, TypeOK, Goto, svars, plane, StepInv,
         Holding, StartSteps, StopSteps, Returns, Inners, RecordFailure, Return
<1>8. StateInv'
  BY <1>1, <1>2 DEF ResolveFails, IInv, TypeOK, Goto, svars, plane, StateInv,
         Truthful, Holding, StartSteps, StopSteps, Returns, Inners,
         RecordFailure, Return
<1>9. ReadingInv'
  BY <1>1, <1>2 DEF ResolveFails, IInv, TypeOK, Goto, ReadingInv, Tasks,
         Holding, StartSteps, StopSteps, Returns, Inners, RecordFailure, Return,
         LocalsInv, Bound
<1>10. SnapInv'
  BY <1>1 DEF ResolveFails, SnapInv
<1> QED
  BY <1>3, <1>4, <1>5, <1>6, <1>7, <1>8, <1>9, <1>10 DEF IInv

\* The new table replaces the old one, also under a tunnel that still runs.
LEMMA ApplyRulesKeeps ==
    ASSUME IInv, NEW t \in Tasks, ApplyRules(t)
    PROVE  IInv'
<1>1. pc[t] \in Holding /\ lock = t /\ t # Nobody
  BY HolderAlone DEF ApplyRules, Holding, StartSteps, StopSteps, Returns
<1>2. \A u \in Tasks : pc[u] \in Holding => u = t
  BY <1>1, HolderAlone
<1>3. TypeOK'
  <2>1. pc' \in [Tasks -> Labels]
    BY DEF ApplyRules, IInv, TypeOK, Goto, Labels, Holding, StartSteps, StopSteps,
           Returns
  <2>2. table' \in Tables /\ applied' \in Tables
    BY DEF ApplyRules, IInv, TypeOK, Tables, Readings, Profiles
  <2> QED
    BY <2>1, <2>2 DEF ApplyRules, IInv, TypeOK, svars, plane
<1>4. LockInv'
  BY <1>1, <1>2 DEF ApplyRules, IInv, TypeOK, Goto, LockInv, Running, Holding,
         StartSteps, StopSteps, Returns
<1>5. LocalsInv'
  BY <1>1, <1>2 DEF ApplyRules, IInv, TypeOK, Goto, LocalsInv, Bound, Holding,
         StartSteps, StopSteps, Returns
<1>6. PlaneInv'
  BY <1>1, <1>2 DEF ApplyRules, IInv, TypeOK, Goto, svars, plane, PlaneInv,
         Holding, StartSteps, StopSteps, Returns, LocalsInv, Bound
<1>7. StepInv'
  BY <1>1, <1>2 DEF ApplyRules, IInv, TypeOK, Goto, svars, plane, StepInv,
         Holding, StartSteps, StopSteps, Returns
<1>8. StateInv'
  BY <1>1, <1>2 DEF ApplyRules, IInv, TypeOK, Goto, svars, plane, StateInv,
         Truthful, Holding, StartSteps, StopSteps, Returns
<1>9. ReadingInv'
  BY <1>1, <1>2 DEF ApplyRules, IInv, TypeOK, Goto, ReadingInv, Tasks, Holding,
         StartSteps, StopSteps, Returns
<1>10. SnapInv'
  BY <1>1 DEF ApplyRules, SnapInv
<1> QED
  BY <1>3, <1>4, <1>5, <1>6, <1>7, <1>8, <1>9, <1>10 DEF IInv

\* nft refused the ruleset: the old table stays.
LEMMA ApplyFailsKeeps ==
    ASSUME IInv, NEW t \in Tasks, ApplyFails(t)
    PROVE  IInv'
<1>1. pc[t] \in Holding /\ lock = t /\ t # Nobody
  BY HolderAlone DEF ApplyFails, Holding, StartSteps, StopSteps, Returns
<1>2. \A u \in Tasks : pc[u] \in Holding => u = t
  BY <1>1, HolderAlone
<1>3. TypeOK'
  <2>1. inner' \in Inners
    BY InnersKept DEF ApplyFails, IInv, TypeOK
  <2>2. pc' \in [Tasks -> Labels]
    BY DEF ApplyFails, IInv, TypeOK, Goto, Labels, Holding, StartSteps, StopSteps,
           Returns, Return
  <2> QED
    BY <2>1, <2>2 DEF ApplyFails, IInv, TypeOK, svars, plane
<1>4. LockInv'
  BY <1>1, <1>2 DEF ApplyFails, IInv, TypeOK, Goto, LockInv, Running, Holding,
         StartSteps, StopSteps, Returns, Return
<1>5. LocalsInv'
  BY <1>1, <1>2 DEF ApplyFails, IInv, TypeOK, Goto, LocalsInv, Bound, Holding,
         StartSteps, StopSteps, Returns, Return
<1>6. PlaneInv'
  BY <1>1, <1>2 DEF ApplyFails, IInv, TypeOK, Goto, svars, plane, PlaneInv,
         Holding, StartSteps, StopSteps, Returns, Inners, RecordFailure, Return
<1>7. StepInv'
  BY <1>1, <1>2 DEF ApplyFails, IInv, TypeOK, Goto, svars, plane, StepInv,
         Holding, StartSteps, StopSteps, Returns, Inners, RecordFailure, Return
<1>8. StateInv'
  BY <1>1, <1>2 DEF ApplyFails, IInv, TypeOK, Goto, svars, plane, StateInv,
         Truthful, Holding, StartSteps, StopSteps, Returns, Inners,
         RecordFailure, Return
<1>9. ReadingInv'
  BY <1>1, <1>2 DEF ApplyFails, IInv, TypeOK, Goto, ReadingInv, Tasks, Holding,
         StartSteps, StopSteps, Returns, Inners, RecordFailure, Return,
         LocalsInv, Bound
<1>10. SnapInv'
  BY <1>1 DEF ApplyFails, SnapInv
<1> QED
  BY <1>3, <1>4, <1>5, <1>6, <1>7, <1>8, <1>9, <1>10 DEF IInv

\* The child comes up under the table that was just loaded.
LEMMA StartEngineKeeps ==
    ASSUME IInv, NEW t \in Tasks, StartEngine(t)
    PROVE  IInv'
<1>1. pc[t] \in Holding /\ lock = t /\ t # Nobody
  BY HolderAlone DEF StartEngine, Holding, StartSteps, StopSteps, Returns
<1>2. \A u \in Tasks : pc[u] \in Holding => u = t
  BY <1>1, HolderAlone
<1>3. TypeOK'
  <2>1. inner' \in Inners
    BY InnersKept DEF StartEngine, IInv, TypeOK, OptConn, Readings, Inners, States
  <2>2. pc' \in [Tasks -> Labels]
    BY DEF StartEngine, IInv, TypeOK, Goto, Labels, Holding, StartSteps,
           StopSteps, Returns
  <2>3. engine' \in Engines
    BY DEF StartEngine, IInv, TypeOK, Engines, OptConn, Readings
  <2> QED
    BY <2>1, <2>2, <2>3 DEF StartEngine, IInv, TypeOK, svars, plane
<1>4. LockInv'
  BY <1>1, <1>2 DEF StartEngine, IInv, TypeOK, Goto, LockInv, Running, Holding,
         StartSteps, StopSteps, Returns, NoEngine
<1>5. LocalsInv'
  BY <1>1, <1>2 DEF StartEngine, IInv, TypeOK, Goto, LocalsInv, Bound, Holding,
         StartSteps, StopSteps, Returns
<1>6. PlaneInv'
  BY <1>1, <1>2 DEF StartEngine, IInv, TypeOK, Goto, svars, plane, PlaneInv,
         Holding, StartSteps, StopSteps, Returns, Inners, StepInv, LocalsInv,
         Bound, Engines
<1>7. StepInv'
  BY <1>1, <1>2 DEF StartEngine, IInv, TypeOK, Goto, svars, plane, StepInv,
         Holding, StartSteps, StopSteps, Returns, Inners
<1>8. StateInv'
  BY <1>1, <1>2 DEF StartEngine, IInv, TypeOK, Goto, svars, plane, StateInv,
         Truthful, Holding, StartSteps, StopSteps, Returns, Inners
<1>9. ReadingInv'
  BY <1>1, <1>2 DEF StartEngine, IInv, TypeOK, Goto, ReadingInv, Tasks, Holding,
         StartSteps, StopSteps, Returns, Inners
<1>10. SnapInv'
  BY <1>1 DEF StartEngine, SnapInv
<1> QED
  BY <1>3, <1>4, <1>5, <1>6, <1>7, <1>8, <1>9, <1>10 DEF IInv

\* No child is left, the rules still are.
LEMMA EngineFailsKeeps ==
    ASSUME IInv, NEW t \in Tasks, EngineFails(t)
    PROVE  IInv'
<1>1. pc[t] \in Holding /\ lock = t /\ t # Nobody
  BY HolderAlone DEF EngineFails, Holding, StartSteps, StopSteps, Returns
<1>2. \A u \in Tasks : pc[u] \in Holding => u = t
  BY <1>1, HolderAlone
<1>3. TypeOK'
  <2>1. pc' \in [Tasks -> Labels]
    BY DEF EngineFails, IInv, TypeOK, Goto, Labels, Holding, StartSteps,
           StopSteps, Returns
  <2>2. engine' \in Engines
    BY DEF EngineFails, IInv, TypeOK, Engines, OptConn, NoEngine
  <2> QED
    BY <2>1, <2>2 DEF EngineFails, IInv, TypeOK, svars, plane
<1>4. LockInv'
  BY <1>1, <1>2 DEF EngineFails, IInv, TypeOK, Goto, LockInv, Running, Holding,
         StartSteps, StopSteps, Returns, NoEngine
<1>5. LocalsInv'
  BY <1>1, <1>2 DEF EngineFails, IInv, TypeOK, Goto, LocalsInv, Bound, Holding,
         StartSteps, StopSteps, Returns
<1>6. PlaneInv'
  BY <1>1, <1>2 DEF EngineFails, IInv, TypeOK, Goto, svars, plane, PlaneInv,
         Holding, StartSteps, StopSteps, Returns, NoEngine, Engines
<1>7. StepInv'
  BY <1>1, <1>2 DEF EngineFails, IInv, TypeOK, Goto, svars, plane, StepInv,
         Holding, StartSteps, StopSteps, Returns, NoEngine
<1>8. StateInv'
  BY <1>1, <1>2 DEF EngineFails, IInv, TypeOK, Goto, svars, plane, StateInv,
         Truthful, Holding, StartSteps, StopSteps, Returns
<1>9. ReadingInv'
  BY <1>1, <1>2 DEF EngineFails, IInv, TypeOK, Goto, ReadingInv, Tasks, Holding,
         StartSteps, StopSteps, Returns
<1>10. SnapInv'
  BY <1>1 DEF EngineFails, SnapInv
<1> QED
  BY <1>3, <1>4, <1>5, <1>6, <1>7, <1>8, <1>9, <1>10 DEF IInv

\* The rules of a start that failed are removed.
LEMMA UnwindKeeps ==
    ASSUME IInv, NEW t \in Tasks, Unwind(t)
    PROVE  IInv'
<1>1. pc[t] \in Holding /\ lock = t /\ t # Nobody
  BY HolderAlone DEF Unwind, Holding, StartSteps, StopSteps, Returns
<1>2. \A u \in Tasks : pc[u] \in Holding => u = t
  BY <1>1, HolderAlone
<1>3. TypeOK'
  <2>1. inner' \in Inners
    BY InnersKept DEF Unwind, IInv, TypeOK
  <2>2. pc' \in [Tasks -> Labels]
    BY DEF Unwind, IInv, TypeOK, Goto, Labels, Holding, StartSteps, StopSteps,
           Returns, Return
  <2>3. table' \in Tables /\ applied' \in Tables
    BY RulesRemoved DEF Unwind, IInv, TypeOK
  <2> QED
    BY <2>1, <2>2, <2>3 DEF Unwind, IInv, TypeOK, svars, plane
<1>4. LockInv'
  BY <1>1, <1>2 DEF Unwind, IInv, TypeOK, Goto, LockInv, Running, Holding,
         StartSteps, StopSteps, Returns, Return
<1>5. LocalsInv'
  BY <1>1, <1>2 DEF Unwind, IInv, TypeOK, Goto, LocalsInv, Bound, Holding,
         StartSteps, StopSteps, Returns, Return
<1>6. PlaneInv'
  BY <1>1, <1>2, RulesRemoved DEF Unwind, IInv, TypeOK, Goto, svars, plane,
         PlaneInv, Holding, StartSteps, StopSteps, Returns, Inners,
         RecordFailure, Return, NoTable, StepInv
<1>7. StepInv'
  BY <1>1, <1>2, RulesRemoved DEF Unwind, IInv, TypeOK, Goto, svars, plane,
         StepInv, Holding, StartSteps, StopSteps, Returns, Inners,
         RecordFailure, Return
<1>8. StateInv'
  BY <1>1, <1>2, RulesRemoved DEF Unwind, IInv, TypeOK, Goto, svars, plane,
         StateInv, Truthful, Holding, StartSteps, StopSteps, Returns, Inners,
         RecordFailure, Return, NoTable
<1>9. ReadingInv'
  BY <1>1, <1>2 DEF Unwind, IInv, TypeOK, Goto, ReadingInv, Tasks, Holding,
         StartSteps, StopSteps, Returns, Inners, RecordFailure, Return,
         LocalsInv, Bound
<1>10. SnapInv'
  BY <1>1 DEF Unwind, SnapInv
<1> QED
  BY <1>3, <1>4, <1>5, <1>6, <1>7, <1>8, <1>9, <1>10 DEF IInv

\* The only way to Active.
LEMMA HealthOkKeeps ==
    ASSUME IInv, NEW t \in Tasks, HealthOk(t)
    PROVE  IInv'
<1>1. pc[t] \in Holding /\ lock = t /\ t # Nobody
  BY HolderAlone DEF HealthOk, Holding, StartSteps, StopSteps, Returns
<1>2. \A u \in Tasks : pc[u] \in Holding => u = t
  BY <1>1, HolderAlone
<1>3. TypeOK'
  <2>1. inner' \in Inners
    BY InnersKept DEF HealthOk, IInv, TypeOK, Inners, States
  <2>2. pc' \in [Tasks -> Labels]
    BY DEF HealthOk, IInv, TypeOK, Goto, Labels, Holding, StartSteps, StopSteps,
           Returns, Return
  <2> QED
    BY <2>1, <2>2 DEF HealthOk, IInv, TypeOK, svars, plane
<1>4. LockInv'
  BY <1>1, <1>2 DEF HealthOk, IInv, TypeOK, Goto, LockInv, Running, Holding,
         StartSteps, StopSteps, Returns, Return
<1>5. LocalsInv'
  BY <1>1, <1>2 DEF HealthOk, IInv, TypeOK, Goto, LocalsInv, Bound, Holding,
         StartSteps, StopSteps, Returns, Return
<1>6. PlaneInv'
  BY <1>1, <1>2 DEF HealthOk, IInv, TypeOK, Goto, svars, plane, PlaneInv,
         Holding, StartSteps, StopSteps, Returns, Inners, Return
<1>7. StepInv'
  BY <1>1, <1>2 DEF HealthOk, IInv, TypeOK, Goto, svars, plane, StepInv,
         Holding, StartSteps, StopSteps, Returns, Inners, Return
<1>8. StateInv'
  BY <1>1, <1>2 DEF HealthOk, IInv, TypeOK, Goto, svars, plane, StateInv,
         Truthful, Holding, StartSteps, StopSteps, Returns, Inners, Return,
         Healthy, StepInv
<1>9. ReadingInv'
  BY <1>1, <1>2 DEF HealthOk, IInv, TypeOK, Goto, ReadingInv, Tasks, Holding,
         StartSteps, StopSteps, Returns, Inners, Return, LocalsInv, Bound
<1>10. SnapInv'
  BY <1>1 DEF HealthOk, SnapInv
<1> QED
  BY <1>3, <1>4, <1>5, <1>6, <1>7, <1>8, <1>9, <1>10 DEF IInv

\* Fail closed, or go on to stop.
LEMMA HealthFailsKeeps ==
    ASSUME IInv, NEW t \in Tasks, HealthFails(t)
    PROVE  IInv'
<1>1. pc[t] \in Holding /\ lock = t /\ t # Nobody
  BY HolderAlone DEF HealthFails, Holding, StartSteps, StopSteps, Returns
<1>2. \A u \in Tasks : pc[u] \in Holding => u = t
  BY <1>1, HolderAlone
<1>3. TypeOK'
  <2>1. inner' \in Inners
    BY InnersKept DEF HealthFails, IInv, TypeOK
  <2>2. pc' \in [Tasks -> Labels]
    BY DEF HealthFails, IInv, TypeOK, Goto, Labels, Holding, StartSteps,
           StopSteps, Returns, Return
  <2>3. call' \in [profile : Profiles, ret : Returns \cup {"begin", "idle"}]
    BY DEF HealthFails, IInv, TypeOK, Goto, Returns, Profiles, Return
  <2> QED
    BY <2>1, <2>2, <2>3 DEF HealthFails, IInv, TypeOK, svars, plane
<1>4. LockInv'
  BY <1>1, <1>2 DEF HealthFails, IInv, TypeOK, Goto, LockInv, Running, Holding,
         StartSteps, StopSteps, Returns, Return
<1>5. LocalsInv'
  BY <1>1, <1>2 DEF HealthFails, IInv, TypeOK, Goto, LocalsInv, Bound, Holding,
         StartSteps, StopSteps, Returns, Return
<1>6. PlaneInv'
  BY <1>1, <1>2 DEF HealthFails, IInv, TypeOK, Goto, svars, plane, PlaneInv,
         Holding, StartSteps, StopSteps, Returns, Inners, RecordFailure, Return
<1>7. StepInv'
  BY <1>1, <1>2 DEF HealthFails, IInv, TypeOK, Goto, svars, plane, StepInv,
         Holding, StartSteps, StopSteps, Returns, Inners, RecordFailure, Return
<1>8. StateInv'
  BY <1>1, <1>2 DEF HealthFails, IInv, TypeOK, Goto, svars, plane, StateInv,
         Truthful, Holding, StartSteps, StopSteps, Returns, Inners,
         RecordFailure, Return, Healthy
<1>9. ReadingInv'
  BY <1>1, <1>2 DEF HealthFails, IInv, TypeOK, Goto, ReadingInv, Tasks, Holding,
         StartSteps, StopSteps, Returns, Inners, RecordFailure, Return,
         LocalsInv, Bound
<1>10. SnapInv'
  BY <1>1 DEF HealthFails, SnapInv
<1> QED
  BY <1>3, <1>4, <1>5, <1>6, <1>7, <1>8, <1>9, <1>10 DEF IInv

\* The child goes first.
LEMMA StopEngineKeeps ==
    ASSUME IInv, NEW t \in Tasks, StopEngine(t)
    PROVE  IInv'
<1>1. pc[t] \in Holding /\ lock = t /\ t # Nobody
  BY HolderAlone DEF StopEngine, Holding, StartSteps, StopSteps, Returns
<1>2. \A u \in Tasks : pc[u] \in Holding => u = t
  BY <1>1, HolderAlone
<1>3. TypeOK'
  <2>1. pc' \in [Tasks -> Labels]
    BY DEF StopEngine, IInv, TypeOK, Goto, Labels, Holding, StartSteps, StopSteps,
           Returns
  <2>2. engine' \in Engines
    BY DEF StopEngine, IInv, TypeOK, Engines, OptConn, NoEngine
  <2> QED
    BY <2>1, <2>2 DEF StopEngine, IInv, TypeOK, svars, plane
<1>4. LockInv'
  BY <1>1, <1>2 DEF StopEngine, IInv, TypeOK, Goto, LockInv, Running, Holding,
         StartSteps, StopSteps, Returns, NoEngine
<1>5. LocalsInv'
  BY <1>1, <1>2 DEF StopEngine, IInv, TypeOK, Goto, LocalsInv, Bound, Holding,
         StartSteps, StopSteps, Returns
<1>6. PlaneInv'
  BY <1>1, <1>2 DEF StopEngine, IInv, TypeOK, Goto, svars, plane, PlaneInv,
         Holding, StartSteps, StopSteps, Returns, NoEngine, Engines
<1>7. StepInv'
  BY <1>1, <1>2 DEF StopEngine, IInv, TypeOK, Goto, svars, plane, StepInv,
         Holding, StartSteps, StopSteps, Returns, NoEngine
<1>8. StateInv'
  BY <1>1, <1>2 DEF StopEngine, IInv, TypeOK, Goto, svars, plane, StateInv,
         Truthful, Holding, StartSteps, StopSteps, Returns
<1>9. ReadingInv'
  BY <1>1, <1>2 DEF StopEngine, IInv, TypeOK, Goto, ReadingInv, Tasks, Holding,
         StartSteps, StopSteps, Returns
<1>10. SnapInv'
  BY <1>1 DEF StopEngine, SnapInv
<1> QED
  BY <1>3, <1>4, <1>5, <1>6, <1>7, <1>8, <1>9, <1>10 DEF IInv

\* The rules go when no child is left.
LEMMA StopRulesKeeps ==
    ASSUME IInv, NEW t \in Tasks, StopRules(t)
    PROVE  IInv'
<1>1. pc[t] \in Holding /\ lock = t /\ t # Nobody
  BY HolderAlone DEF StopRules, Holding, StartSteps, StopSteps, Returns
<1>2. \A u \in Tasks : pc[u] \in Holding => u = t
  BY <1>1, HolderAlone
<1>3. TypeOK'
  <2>1. inner' \in Inners
    BY InnersKept DEF StopRules, IInv, TypeOK
  <2>2. pc' \in [Tasks -> Labels]
    BY DEF StopRules, IInv, TypeOK, Goto, Labels, Holding, StartSteps, StopSteps,
           Returns, Resting
  <2>3. table' \in Tables /\ applied' \in Tables
    BY RulesRemoved DEF StopRules, IInv, TypeOK
  <2> QED
    BY <2>1, <2>2, <2>3 DEF StopRules, IInv, TypeOK, svars, plane
<1>4. LockInv'
  BY <1>1, <1>2 DEF StopRules, IInv, TypeOK, Goto, LockInv, Running, Holding,
         StartSteps, StopSteps, Returns, LocalsInv
<1>5. LocalsInv'
  BY <1>1, <1>2 DEF StopRules, IInv, TypeOK, Goto, LocalsInv, Bound, Holding,
         StartSteps, StopSteps, Returns
<1>6. PlaneInv'
  BY <1>1, <1>2, RulesRemoved DEF StopRules, IInv, TypeOK, Goto, svars, plane,
         PlaneInv, Holding, StartSteps, StopSteps, Returns, Inners, Stopped,
         NewInner, NoTable, StepInv
<1>7. StepInv'
  BY <1>1, <1>2, RulesRemoved DEF StopRules, IInv, TypeOK, Goto, svars, plane,
         StepInv, Holding, StartSteps, StopSteps, Returns, Inners, Stopped,
         NewInner
<1>8. StateInv'
  BY <1>1, <1>2, RulesRemoved DEF StopRules, IInv, TypeOK, Goto, svars, plane,
         StateInv, Truthful, Holding, StartSteps, StopSteps, Returns, Inners,
         Stopped, NewInner, NoTable
<1>9. ReadingInv'
  BY <1>1, <1>2 DEF StopRules, IInv, TypeOK, Goto, ReadingInv, Tasks, Holding,
         StartSteps, StopSteps, Returns, Inners, Stopped, NewInner
<1>10. SnapInv'
  BY <1>1 DEF StopRules, SnapInv
<1> QED
  BY <1>3, <1>4, <1>5, <1>6, <1>7, <1>8, <1>9, <1>10 DEF IInv

-----------------------------------------------------------------------------
(* The poller, the callers, shutdown and the environment. *)

\* A reading is taken outside the mutex.
LEMMA PollReadKeeps ==
    ASSUME IInv, PollRead
    PROVE  IInv'
<1>1. TypeOK'
  <2>1. pc' \in [Tasks -> Labels]
    BY DEF PollRead, IInv, TypeOK, Goto, Labels, Resting, Holding, StopSteps,
           Returns
  <2>2. arg' \in [Tasks -> Readings]
    BY DEF PollRead, IInv, TypeOK, Goto, Readings
  <2> QED
    BY <2>1, <2>2 DEF PollRead, IInv, TypeOK, Goto, svars, plane
<1>2. LockInv' /\ LocalsInv'
  BY DEF PollRead, IInv, TypeOK, Goto, svars, plane, LockInv, Running,
         LocalsInv, Bound, Tasks, Poller, Cleaner, Holding, StartSteps,
         StopSteps, Returns
<1>3. PlaneInv' /\ StepInv'
  BY DEF PollRead, IInv, TypeOK, Goto, svars, plane, PlaneInv, StepInv, Holding,
         StartSteps, StopSteps, Returns
<1>4. StateInv' /\ ReadingInv' /\ SnapInv'
  BY DEF PollRead, IInv, TypeOK, Goto, svars, plane, StateInv, ReadingInv,
         SnapInv, Truthful, Tasks, Poller, Cleaner, Holding, StartSteps,
         StopSteps, Returns
<1> QED
  BY <1>1, <1>2, <1>3, <1>4 DEF IInv

\* Without Wi-Fi the poll stops what is up.
LEMMA PollNoWifiKeeps ==
    ASSUME IInv, PollNoWifi
    PROVE  IInv'
<1>1. lock = Nobody /\ (\A u \in Tasks : pc[u] \notin Holding) /\ Truthful
  BY NobodyInside DEF PollNoWifi, PollLock
<1>2. Poller \in Tasks /\ Poller # Nobody /\ Poller # Cleaner
  BY DEF Tasks, Poller, Cleaner, Nobody
<1>3. CASE WasUp
  <2>1. /\ inner' = [inner EXCEPT !.user_stopped = NoConn, !.proxy_state = "Stopping"]
        /\ pc' = [pc EXCEPT ![Poller] = "stopEngine"]
        /\ call' = [NoCall EXCEPT !.ret = "publish"] /\ lock' = Poller
        /\ UNCHANGED <<nm, store, snap, arg, engine, table, applied, phase>>
    BY <1>3 DEF PollNoWifi, PollLock, CallStop, Goto, svars, plane
  <2>2. inner' \in Inners
    BY <2>1 DEF IInv, TypeOK, Inners, States, OptConn
  <2>3. TypeOK'
    BY <1>2, <2>1, <2>2 DEF IInv, TypeOK, Labels, Holding, StopSteps, NoCall, NoProfile,
           Profiles, Returns
  <2>4. LockInv' /\ LocalsInv'
    BY <1>1, <1>2, <2>1 DEF PollNoWifi, PollLock, IInv, TypeOK, LockInv, LocalsInv, Running, Bound,
           NoCall, Holding, StartSteps, StopSteps
  <2>5. PlaneInv' /\ StepInv'
    BY <1>1, <1>2, <2>1 DEF IInv, TypeOK, PlaneInv, StepInv, Inners, Holding, StartSteps,
           StopSteps
  <2>6. StateInv' /\ ReadingInv' /\ SnapInv'
    BY <1>1, <1>2, <2>1 DEF IInv, TypeOK, StateInv, ReadingInv, SnapInv, Holding,
           StartSteps, StopSteps, Returns
  <2> QED
    BY <2>3, <2>4, <2>5, <2>6 DEF IInv
<1>4. CASE ~WasUp
  <2>1. /\ inner' = [inner EXCEPT !.user_stopped = NoConn]
        /\ pc' = [pc EXCEPT ![Poller] = "publish"] /\ lock' = Poller
        /\ UNCHANGED <<nm, store, snap, arg, call, engine, table, applied, phase>>
    BY <1>4 DEF PollNoWifi, PollLock, Goto, svars, plane
  <2>2. inner' \in Inners
    BY <2>1 DEF IInv, TypeOK, Inners, OptConn
  <2>3. TypeOK'
    BY <1>2, <2>1, <2>2 DEF IInv, TypeOK, Labels, Holding, Returns
  <2>4. LockInv' /\ LocalsInv'
    BY <1>1, <1>2, <2>1 DEF PollNoWifi, PollLock, IInv, TypeOK, LockInv, LocalsInv, Running, Bound,
           Holding, StartSteps, StopSteps, Returns
  <2>5. PlaneInv' /\ StepInv'
    BY <1>1, <1>2, <2>1 DEF IInv, TypeOK, PlaneInv, StepInv, Inners, Holding, StartSteps,
           Returns
  <2>6. inner.proxy_state = "Disconnected" /\ inner.active_uuid = NoConn
    BY <1>1, <1>4 DEF WasUp, Truthful
  <2>7. Truthful'
    BY <1>1, <2>1 DEF IInv, TypeOK, Inners, Truthful
  <2>8. StateInv' /\ ReadingInv' /\ SnapInv'
    BY <1>1, <1>2, <2>1, <2>6, <2>7 DEF IInv, TypeOK, Inners, StateInv, ReadingInv, SnapInv,
           Holding, StartSteps, Returns
  <2> QED
    BY <2>3, <2>4, <2>5, <2>8 DEF IInv
<1> QED
  BY <1>3, <1>4

\* The poll ends: the snapshot says what the state machine says.
LEMMA PollPublishKeeps ==
    ASSUME IInv, PollPublish
    PROVE  IInv'
<1>1. pc[Poller] \in Holding /\ lock = Poller /\ Poller # Nobody
  BY HolderAlone DEF PollPublish, Tasks, Holding, StartSteps, StopSteps, Returns
<1>2. \A u \in Tasks : pc[u] \in Holding => u = Poller
  BY <1>1, HolderAlone DEF Tasks
<1>3. TypeOK'
  <2>1. snap' \in Snapshots
    <3>1. DefaultSnapshot \in Snapshots
      BY DEF DefaultSnapshot, Snapshots, OptConn, States
    <3>2. [wifi |-> arg[Poller].wifi, proxy_state |-> inner.proxy_state,
           proxy_active |-> inner.proxy_active, last_error |-> inner.last_error] \in Snapshots
      BY DEF IInv, TypeOK, Snapshots, Inners, Readings, Tasks
    <3> QED
      BY <3>1, <3>2 DEF PollPublish
  <2>2. lock' \in Tasks \cup {Nobody}
    BY DEF PollPublish, Goto, Release, Tasks
  <2>3. pc' \in [Tasks -> Labels]
    BY DEF PollPublish, IInv, TypeOK, Goto, Release, Labels, Resting, Holding,
           StopSteps, Returns
  <2>4. arg' \in [Tasks -> Readings]
    BY DEF PollPublish, IInv, TypeOK, Goto, Release, Readings, NoReading, OptConn
  <2>5. call' \in [profile : Profiles, ret : Returns \cup {"begin", "idle"}]
    BY DEF PollPublish, IInv, TypeOK, Goto, Release, NoCall, NoProfile, Profiles,
           Returns
  <2> QED
    BY <2>1, <2>2, <2>3, <2>4, <2>5 DEF PollPublish, IInv, TypeOK, Goto, Release,
           svars, plane
<1>4. LockInv'
  BY ClientsAssumption, <1>1, <1>2 DEF PollPublish, IInv, TypeOK, Goto, Release, svars, plane,
         LockInv, Running, Tasks, Poller, Cleaner, Nobody, Holding, StartSteps,
         StopSteps, Returns
<1>5. LocalsInv'
  BY <1>1, <1>2 DEF PollPublish, IInv, TypeOK, Goto, Release, svars, plane,
         LocalsInv, Bound, NoCall, NoReading, Tasks, Poller, Cleaner, Nobody,
         Holding, StartSteps, StopSteps, Returns
<1>6. PlaneInv'
  BY <1>1, <1>2 DEF PollPublish, IInv, TypeOK, Goto, Release, svars, plane,
         PlaneInv, Holding, StartSteps, StopSteps, Returns
<1>7. StepInv'
  BY <1>1, <1>2 DEF PollPublish, IInv, TypeOK, Goto, Release, svars, plane,
         StepInv, Holding, StartSteps, StopSteps, Returns
<1>8. StateInv'
  BY <1>1, <1>2 DEF PollPublish, IInv, TypeOK, Goto, Release, svars, plane,
         StateInv, Truthful, Holding, StartSteps, StopSteps, Returns
<1>9. ReadingInv'
  BY <1>1, <1>2 DEF PollPublish, IInv, TypeOK, Goto, Release, svars, plane,
         ReadingInv, Tasks, Poller, Cleaner, Nobody, Holding, StartSteps,
         StopSteps, Returns
<1>10. SnapInv'
  <2>1. CASE arg[Poller].wifi = NoConn
    <3>1. inner.proxy_state = "Disconnected" /\ Truthful
      BY <2>1 DEF PollPublish, IInv, ReadingInv, StateInv, Tasks, Returns
    <3>2. snap' = DefaultSnapshot /\ UNCHANGED inner
      BY <2>1 DEF PollPublish
    <3>3. ~inner.proxy_active /\ ~inner.last_error
      BY <3>1 DEF Truthful
    <3> QED
      BY <3>1, <3>2, <3>3 DEF IInv, TypeOK, Inners, SnapInv, DefaultSnapshot
  <2>2. CASE arg[Poller].wifi # NoConn
    BY <2>2 DEF PollPublish, SnapInv
  <2> QED
    BY <2>1, <2>2
<1> QED
  BY <1>3, <1>4, <1>5, <1>6, <1>7, <1>8, <1>9, <1>10 DEF IInv

\* A request waits for the mutex with the network it is for.
LEMMA ManualStartKeeps ==
    ASSUME IInv, NEW c \in Clients, ManualStart(c)
    PROVE  IInv'
<1>1. TypeOK'
  <2>1. pc' \in [Tasks -> Labels]
    BY DEF ManualStart, IInv, TypeOK, Goto, Labels, Resting, Holding, StopSteps,
           Returns
  <2>2. arg' \in [Tasks -> Readings]
    BY DEF ManualStart, IInv, TypeOK, Goto, Readings, OptConn, Snapshots
  <2> QED
    BY <2>1, <2>2 DEF ManualStart, IInv, TypeOK, Goto, svars, plane
<1>2. LockInv' /\ LocalsInv'
  BY ClientsAssumption DEF ManualStart, IInv, TypeOK, Goto, svars, plane,
         LockInv, Running, LocalsInv, Bound, Tasks, Poller, Cleaner, Resting,
         Holding, StartSteps, StopSteps, Returns
<1>3. PlaneInv' /\ StepInv'
  BY ClientsAssumption DEF ManualStart, IInv, TypeOK, Goto, svars, plane,
         PlaneInv, StepInv, Resting, Holding, StartSteps, StopSteps, Returns
<1>4. StateInv' /\ ReadingInv' /\ SnapInv'
  BY ClientsAssumption DEF ManualStart, IInv, TypeOK, Goto, svars, plane,
         StateInv, ReadingInv, SnapInv, Truthful, Tasks, Poller, Cleaner,
         Resting, Holding, StartSteps, StopSteps, Returns
<1> QED
  BY <1>1, <1>2, <1>3, <1>4 DEF IInv

\* A start gets the mutex.
LEMMA ManualStartLockedKeeps ==
    ASSUME IInv, NEW c \in Clients, ManualStartLocked(c)
    PROVE  IInv'
<1>1. lock = Nobody /\ (\A u \in Tasks : pc[u] \notin Holding) /\ Truthful
  BY NobodyInside DEF ManualStartLocked
<1>3. TypeOK'
  <2>1. inner' \in Inners
    BY DEF ManualStartLocked, IInv, TypeOK, Goto, Inners, OptConn, Snapshots,
           Readings
  <2>2. lock' \in Tasks \cup {Nobody}
    BY DEF ManualStartLocked, Goto, Tasks
  <2>3. pc' \in [Tasks -> Labels]
    BY DEF ManualStartLocked, IInv, TypeOK, Goto, Labels, Resting, Holding,
           StopSteps, StartSteps, Returns
  <2> QED
    BY <2>1, <2>2, <2>3 DEF ManualStartLocked, IInv, TypeOK, Goto, svars, plane
<1>4. LockInv'
  BY <1>1, ClientsAssumption DEF ManualStartLocked, IInv, TypeOK, Goto, svars,
         plane, LockInv, Running, Resting, Tasks, Poller, Cleaner, Nobody,
         Holding, StartSteps, StopSteps, Returns
<1>5. LocalsInv'
  BY <1>1, ClientsAssumption DEF ManualStartLocked, IInv, TypeOK, Goto, svars,
         plane, LocalsInv, Bound, Resting, Tasks, Poller, Cleaner, Nobody,
         Holding, StartSteps, StopSteps, Returns
<1>6. PlaneInv'
  BY <1>1 DEF ManualStartLocked, IInv, TypeOK, Goto, svars, plane, PlaneInv,
         Inners, Resting, Holding, StartSteps, StopSteps, Returns
<1>7. StepInv'
  BY <1>1 DEF ManualStartLocked, IInv, TypeOK, Goto, svars, plane, StepInv,
         Inners, Resting, Holding, StartSteps, StopSteps, Returns
<1>8. StateInv'
  BY <1>1 DEF ManualStartLocked, IInv, TypeOK, Goto, svars, plane, StateInv,
         Truthful, Inners, Resting, Holding, StartSteps, StopSteps, Returns
<1>9. ReadingInv'
  BY <1>1, ClientsAssumption DEF ManualStartLocked, IInv, TypeOK, Goto, svars,
         plane, ReadingInv, Inners, Resting, Tasks, Poller, Cleaner, Nobody,
         Holding, StartSteps, StopSteps, Returns
<1>10. SnapInv'
  BY <1>1, ClientsAssumption DEF ManualStartLocked, IInv, TypeOK, Goto, svars,
         plane, SnapInv, Inners, Resting, Tasks, Poller, Cleaner, Nobody,
         Holding, StartSteps, StopSteps, Returns
<1> QED
  BY <1>3, <1>4, <1>5, <1>6, <1>7, <1>8, <1>9, <1>10 DEF IInv

\* A start that returned Ok publishes and leaves the mutex.
LEMMA ManualStartedKeeps ==
    ASSUME IInv, NEW c \in Clients, ManualStarted(c)
    PROVE  IInv'
<1>1. pc[c] \in Holding /\ lock = c /\ c # Nobody
  BY HolderAlone DEF ManualStarted, Tasks, Holding, StartSteps, StopSteps,
         Returns
<1>2. \A u \in Tasks : pc[u] \in Holding => u = c
  BY <1>1, HolderAlone DEF Tasks
<1>3. TypeOK'
  <2>1. inner' \in Inners
    BY DEF ManualStarted, IInv, TypeOK, Goto, Release, Inners, OptConn, Snapshots,
           Readings
  <2>2. snap' \in Snapshots
    BY DEF ManualStarted, IInv, TypeOK, Goto, Release, Snapshots, OptConn, States,
           Published, Inners, Readings
  <2>3. lock' \in Tasks \cup {Nobody}
    BY DEF ManualStarted, Goto, Release, Tasks
  <2>4. pc' \in [Tasks -> Labels]
    BY DEF ManualStarted, IInv, TypeOK, Goto, Release, Labels, Resting, Holding,
           StopSteps, Returns
  <2>5. arg' \in [Tasks -> Readings]
    BY DEF ManualStarted, IInv, TypeOK, Goto, Release, Readings, NoReading,
           OptConn
  <2>6. call' \in [profile : Profiles, ret : Returns \cup {"begin", "idle"}]
    BY DEF ManualStarted, IInv, TypeOK, Goto, Release, NoCall, NoProfile,
           Profiles, Returns
  <2> QED
    BY <2>1, <2>2, <2>3, <2>4, <2>5, <2>6 DEF ManualStarted, IInv, TypeOK, Goto,
           Release, svars, plane
<1>4. LockInv'
  BY <1>1, <1>2, ClientsAssumption DEF ManualStarted, IInv, TypeOK, Goto,
         Release, svars, plane, LockInv, Running, Resting, Tasks, Poller,
         Cleaner, Nobody, Holding, StartSteps, StopSteps, Returns
<1>5. LocalsInv'
  BY <1>1, <1>2, ClientsAssumption DEF ManualStarted, IInv, TypeOK, Goto,
         Release, svars, plane, LocalsInv, Bound, NoCall, NoReading, Resting,
         Tasks, Poller, Cleaner, Nobody, Holding, StartSteps, StopSteps, Returns
<1>6. PlaneInv'
  BY <1>1, <1>2 DEF ManualStarted, IInv, TypeOK, Goto, Release, svars, plane,
         PlaneInv, Inners, Resting, Holding, StartSteps, StopSteps, Returns
<1>7. StepInv'
  BY <1>1, <1>2 DEF ManualStarted, IInv, TypeOK, Goto, Release, svars, plane,
         StepInv, Inners, Resting, Holding, StartSteps, StopSteps, Returns
<1>8. StateInv'
  BY <1>1, <1>2 DEF ManualStarted, IInv, TypeOK, Goto, Release, svars, plane,
         StateInv, Truthful, Inners, Resting, Holding, StartSteps, StopSteps,
         Returns
<1>9. ReadingInv'
  BY <1>1, <1>2, ClientsAssumption DEF ManualStarted, IInv, TypeOK, Goto,
         Release, svars, plane, ReadingInv, Inners, Resting, Tasks, Poller,
         Cleaner, Nobody, Holding, StartSteps, StopSteps, Returns
<1>10. SnapInv'
  BY <1>1, <1>2, ClientsAssumption DEF ManualStarted, IInv, TypeOK, Goto,
         Release, svars, plane, SnapInv, Inners, Published, Snapshots, Resting,
         Tasks, Poller, Cleaner, Nobody, Holding, StartSteps, StopSteps, Returns
<1> QED
  BY <1>3, <1>4, <1>5, <1>6, <1>7, <1>8, <1>9, <1>10 DEF IInv

\* A start that returned an error does too.
LEMMA ManualStartFailedKeeps ==
    ASSUME IInv, NEW c \in Clients, ManualStartFailed(c)
    PROVE  IInv'
<1>1. pc[c] \in Holding /\ lock = c /\ c # Nobody
  BY HolderAlone DEF ManualStartFailed, Tasks, Holding, StartSteps, StopSteps,
         Returns
<1>2. \A u \in Tasks : pc[u] \in Holding => u = c
  BY <1>1, HolderAlone DEF Tasks
<1>3. TypeOK'
  <2>1. snap' \in Snapshots
    BY DEF ManualStartFailed, IInv, TypeOK, Goto, Release, Snapshots, OptConn,
           States, Published, Inners, Readings
  <2>2. lock' \in Tasks \cup {Nobody}
    BY DEF ManualStartFailed, Goto, Release, Tasks
  <2>3. pc' \in [Tasks -> Labels]
    BY DEF ManualStartFailed, IInv, TypeOK, Goto, Release, Labels, Resting,
           Holding, StopSteps, Returns
  <2>4. arg' \in [Tasks -> Readings]
    BY DEF ManualStartFailed, IInv, TypeOK, Goto, Release, Readings, NoReading,
           OptConn
  <2>5. call' \in [profile : Profiles, ret : Returns \cup {"begin", "idle"}]
    BY DEF ManualStartFailed, IInv, TypeOK, Goto, Release, NoCall, NoProfile,
           Profiles, Returns
  <2> QED
    BY <2>1, <2>2, <2>3, <2>4, <2>5 DEF ManualStartFailed, IInv, TypeOK, Goto,
           Release, svars, plane
<1>4. LockInv'
  BY <1>1, <1>2, ClientsAssumption DEF ManualStartFailed, IInv, TypeOK, Goto,
         Release, svars, plane, LockInv, Running, Resting, Tasks, Poller,
         Cleaner, Nobody, Holding, StartSteps, StopSteps, Returns
<1>5. LocalsInv'
  BY <1>1, <1>2, ClientsAssumption DEF ManualStartFailed, IInv, TypeOK, Goto,
         Release, svars, plane, LocalsInv, Bound, NoCall, NoReading, Resting,
         Tasks, Poller, Cleaner, Nobody, Holding, StartSteps, StopSteps, Returns
<1>6. PlaneInv'
  BY <1>1, <1>2 DEF ManualStartFailed, IInv, TypeOK, Goto, Release, svars,
         plane, PlaneInv, Resting, Holding, StartSteps, StopSteps, Returns
<1>7. StepInv'
  BY <1>1, <1>2 DEF ManualStartFailed, IInv, TypeOK, Goto, Release, svars,
         plane, StepInv, Resting, Holding, StartSteps, StopSteps, Returns
<1>8. StateInv'
  BY <1>1, <1>2 DEF ManualStartFailed, IInv, TypeOK, Goto, Release, svars,
         plane, StateInv, Truthful, Resting, Holding, StartSteps, StopSteps,
         Returns
<1>9. ReadingInv'
  BY <1>1, <1>2, ClientsAssumption DEF ManualStartFailed, IInv, TypeOK, Goto,
         Release, svars, plane, ReadingInv, Resting, Tasks, Poller, Cleaner,
         Nobody, Holding, StartSteps, StopSteps, Returns
<1>10. SnapInv'
  BY <1>1, <1>2, ClientsAssumption DEF ManualStartFailed, IInv, TypeOK, Goto,
         Release, svars, plane, SnapInv, Published, Snapshots, Resting, Tasks,
         Poller, Cleaner, Nobody, Holding, StartSteps, StopSteps, Returns
<1> QED
  BY <1>3, <1>4, <1>5, <1>6, <1>7, <1>8, <1>9, <1>10 DEF IInv

\* A request to stop waits for the mutex.
LEMMA ManualStopKeeps ==
    ASSUME IInv, NEW c \in Clients, ManualStop(c)
    PROVE  IInv'
<1>1. TypeOK'
  <2>1. pc' \in [Tasks -> Labels]
    BY DEF ManualStop, IInv, TypeOK, Goto, Labels, Resting, Holding, StopSteps,
           Returns
  <2> QED
    BY <2>1 DEF ManualStop, IInv, TypeOK, Goto, svars, plane
<1>2. LockInv' /\ LocalsInv'
  BY ClientsAssumption DEF ManualStop, IInv, TypeOK, Goto, svars, plane,
         LockInv, Running, LocalsInv, Bound, Tasks, Poller, Cleaner, Resting,
         Holding, StartSteps, StopSteps, Returns
<1>3. PlaneInv' /\ StepInv'
  BY ClientsAssumption DEF ManualStop, IInv, TypeOK, Goto, svars, plane,
         PlaneInv, StepInv, Resting, Holding, StartSteps, StopSteps, Returns
<1>4. StateInv' /\ ReadingInv' /\ SnapInv'
  BY ClientsAssumption DEF ManualStop, IInv, TypeOK, Goto, svars, plane,
         StateInv, ReadingInv, SnapInv, Truthful, Tasks, Poller, Cleaner,
         Resting, Holding, StartSteps, StopSteps, Returns
<1> QED
  BY <1>1, <1>2, <1>3, <1>4 DEF IInv

\* A stop gets the mutex.
LEMMA ManualStopLockedKeeps ==
    ASSUME IInv, NEW c \in Clients, ManualStopLocked(c)
    PROVE  IInv'
<1>1. lock = Nobody /\ (\A u \in Tasks : pc[u] \notin Holding) /\ Truthful
  BY NobodyInside DEF ManualStopLocked
<1>3. TypeOK'
  <2>1. lock' \in Tasks \cup {Nobody}
    BY DEF ManualStopLocked, Goto, CallStop, Tasks
  <2>2. pc' \in [Tasks -> Labels]
    BY DEF ManualStopLocked, IInv, TypeOK, Goto, CallStop, Labels, Resting,
           Holding, StopSteps, Returns
  <2>3. arg' \in [Tasks -> Readings]
    BY DEF ManualStopLocked, IInv, TypeOK, Goto, CallStop, Readings, OptConn,
           Inners
  <2>4. call' \in [profile : Profiles, ret : Returns \cup {"begin", "idle"}]
    BY DEF ManualStopLocked, IInv, TypeOK, Goto, CallStop, NoCall, NoProfile,
           Profiles, Returns
  <2> QED
    BY <2>1, <2>2, <2>3, <2>4 DEF ManualStopLocked, IInv, TypeOK, Goto, CallStop,
           svars, plane
<1>4. LockInv'
  BY <1>1, ClientsAssumption DEF ManualStopLocked, IInv, TypeOK, Goto, CallStop,
         svars, plane, LockInv, Running, Resting, Tasks, Poller, Cleaner,
         Nobody, Holding, StartSteps, StopSteps, Returns
<1>5. LocalsInv'
  BY <1>1, ClientsAssumption DEF ManualStopLocked, IInv, TypeOK, Goto, CallStop,
         svars, plane, LocalsInv, Bound, NoCall, Resting, Tasks, Poller,
         Cleaner, Nobody, Holding, StartSteps, StopSteps, Returns
<1>6. PlaneInv'
  BY <1>1 DEF ManualStopLocked, IInv, TypeOK, Goto, CallStop, svars, plane,
         PlaneInv, Resting, Holding, StartSteps, StopSteps, Returns
<1>7. StepInv'
  BY <1>1 DEF ManualStopLocked, IInv, TypeOK, Goto, CallStop, svars, plane,
         StepInv, Resting, Holding, StartSteps, StopSteps, Returns
<1>8. StateInv'
  BY <1>1 DEF ManualStopLocked, IInv, TypeOK, Goto, CallStop, svars, plane,
         StateInv, Truthful, Resting, Holding, StartSteps, StopSteps, Returns
<1>9. ReadingInv'
  BY <1>1, ClientsAssumption DEF ManualStopLocked, IInv, TypeOK, Goto, CallStop,
         svars, plane, ReadingInv, Resting, Tasks, Poller, Cleaner, Nobody,
         Holding, StartSteps, StopSteps, Returns
<1>10. SnapInv'
  BY <1>1, ClientsAssumption DEF ManualStopLocked, IInv, TypeOK, Goto, CallStop,
         svars, plane, SnapInv, Resting, Tasks, Poller, Cleaner, Nobody,
         Holding, StartSteps, StopSteps, Returns
<1> QED
  BY <1>3, <1>4, <1>5, <1>6, <1>7, <1>8, <1>9, <1>10 DEF IInv

\* A stop publishes Disconnected, which is what stop_proxy left.
LEMMA ManualStoppedKeeps ==
    ASSUME IInv, NEW c \in Clients, ManualStopped(c)
    PROVE  IInv'
<1>1. pc[c] \in Holding /\ lock = c /\ c # Nobody
  BY HolderAlone DEF ManualStopped, Tasks, Holding, StartSteps, StopSteps,
         Returns
<1>2. \A u \in Tasks : pc[u] \in Holding => u = c
  BY <1>1, HolderAlone DEF Tasks
<1>3. TypeOK'
  <2>1. inner' \in Inners
    <3>1. arg[c].wifi \in OptConn /\ snap.wifi \in OptConn
      BY DEF IInv, TypeOK, Tasks, Readings, Snapshots
    <3>2. \A u \in OptConn : [inner EXCEPT !.user_stopped = u] \in Inners
      BY DEF IInv, TypeOK, Inners
    <3> QED
      BY <3>1, <3>2 DEF ManualStopped
  <2>2. snap' \in Snapshots
    BY DEF ManualStopped, IInv, TypeOK, Goto, Release, Snapshots, OptConn, States,
           Inners, Readings
  <2>3. lock' \in Tasks \cup {Nobody}
    BY DEF ManualStopped, Goto, Release, Tasks
  <2>4. pc' \in [Tasks -> Labels]
    BY DEF ManualStopped, IInv, TypeOK, Goto, Release, Labels, Resting, Holding,
           StopSteps, Returns
  <2>5. arg' \in [Tasks -> Readings]
    BY DEF ManualStopped, IInv, TypeOK, Goto, Release, Readings, NoReading,
           OptConn
  <2>6. call' \in [profile : Profiles, ret : Returns \cup {"begin", "idle"}]
    BY DEF ManualStopped, IInv, TypeOK, Goto, Release, NoCall, NoProfile,
           Profiles, Returns
  <2> QED
    BY <2>1, <2>2, <2>3, <2>4, <2>5, <2>6 DEF ManualStopped, IInv, TypeOK, Goto,
           Release, svars, plane
<1>4. LockInv'
  BY <1>1, <1>2, ClientsAssumption DEF ManualStopped, IInv, TypeOK, Goto,
         Release, svars, plane, LockInv, Running, Resting, Tasks, Poller,
         Cleaner, Nobody, Holding, StartSteps, StopSteps, Returns
<1>5. LocalsInv'
  BY <1>1, <1>2, ClientsAssumption DEF ManualStopped, IInv, TypeOK, Goto,
         Release, svars, plane, LocalsInv, Bound, NoCall, NoReading, Resting,
         Tasks, Poller, Cleaner, Nobody, Holding, StartSteps, StopSteps, Returns
<1>6. PlaneInv'
  BY <1>1, <1>2 DEF ManualStopped, IInv, TypeOK, Goto, Release, svars, plane,
         PlaneInv, Inners, Resting, Holding, StartSteps, StopSteps, Returns
<1>7. StepInv'
  BY <1>1, <1>2 DEF ManualStopped, IInv, TypeOK, Goto, Release, svars, plane,
         StepInv, Inners, Resting, Holding, StartSteps, StopSteps, Returns
<1>8. StateInv'
  BY <1>1, <1>2 DEF ManualStopped, IInv, TypeOK, Goto, Release, svars, plane,
         StateInv, Truthful, Inners, Resting, Holding, StartSteps, StopSteps,
         Returns
<1>9. ReadingInv'
  BY <1>1, <1>2, ClientsAssumption DEF ManualStopped, IInv, TypeOK, Goto,
         Release, svars, plane, ReadingInv, Inners, Resting, Tasks, Poller,
         Cleaner, Nobody, Holding, StartSteps, StopSteps, Returns
<1>10. SnapInv'
  BY <1>1, <1>2, ClientsAssumption DEF ManualStopped, IInv, TypeOK, Goto,
         Release, svars, plane, SnapInv, Inners, Snapshots, StateInv, Truthful,
         ReadingInv, Resting, Tasks, Poller, Cleaner, Nobody, Holding,
         StartSteps, StopSteps, Returns
<1> QED
  BY <1>3, <1>4, <1>5, <1>6, <1>7, <1>8, <1>9, <1>10 DEF IInv

\* The store is no part of the invariant.
LEMMA SetProfilesKeeps ==
    ASSUME IInv, SetProfiles
    PROVE  IInv'
<1>1. TypeOK'
  <2>1. NoProfile \in Profiles
    BY DEF Profiles, NoProfile
  <2>2. store' \in [Conns -> Profiles]
    BY <2>1, ProfilesAssumption DEF SetProfiles
  <2> QED
    BY <2>2 DEF SetProfiles, IInv, TypeOK, svars, plane
<1>2. LockInv' /\ LocalsInv'
  BY DEF SetProfiles, IInv, TypeOK, svars, plane, LockInv, Running, LocalsInv,
         Bound
<1>3. PlaneInv' /\ StepInv'
  BY DEF SetProfiles, IInv, TypeOK, svars, plane, PlaneInv, StepInv
<1>4. StateInv' /\ ReadingInv' /\ SnapInv'
  BY DEF SetProfiles, IInv, TypeOK, svars, plane, StateInv, ReadingInv, SnapInv,
         Truthful
<1> QED
  BY <1>1, <1>2, <1>3, <1>4 DEF IInv

\* The signal changes nothing but the phase.
LEMMA SignalKeeps ==
    ASSUME IInv, Signal
    PROVE  IInv'
<1>1. TypeOK'
  <2>1. phase' \in {"up", "stopping", "crashed", "exited"}
    BY DEF Signal
  <2> QED
    BY <2>1 DEF Signal, IInv, TypeOK, svars, plane
<1>2. LockInv' /\ LocalsInv' /\ PlaneInv' /\ StepInv'
  BY DEF Signal, IInv, TypeOK, svars, plane, LockInv, LocalsInv, PlaneInv,
         StepInv, Bound, Running
<1>3. StateInv' /\ ReadingInv' /\ SnapInv'
  BY DEF Signal, IInv, TypeOK, svars, plane, StateInv, ReadingInv, SnapInv,
         Truthful
<1> QED
  BY <1>1, <1>2, <1>3 DEF IInv

\* The poller leaves between two polls.
LEMMA PollExitKeeps ==
    ASSUME IInv, PollExit
    PROVE  IInv'
<1>1. TypeOK'
  <2>1. pc' \in [Tasks -> Labels]
    BY DEF PollExit, IInv, TypeOK, Goto, Labels, Resting, Holding, StopSteps,
           Returns
  <2> QED
    BY <2>1 DEF PollExit, IInv, TypeOK, Goto, svars, plane
<1>2. LockInv' /\ LocalsInv'
  BY DEF PollExit, IInv, TypeOK, Goto, svars, plane, LockInv, Running,
         LocalsInv, Bound, Tasks, Poller, Cleaner, Holding, StartSteps,
         StopSteps, Returns
<1>3. PlaneInv' /\ StepInv'
  BY DEF PollExit, IInv, TypeOK, Goto, svars, plane, PlaneInv, StepInv, Holding,
         StartSteps, StopSteps, Returns
<1>4. StateInv' /\ ReadingInv' /\ SnapInv'
  BY DEF PollExit, IInv, TypeOK, Goto, svars, plane, StateInv, ReadingInv,
         SnapInv, Truthful, Tasks, Poller, Cleaner, Holding, StartSteps,
         StopSteps, Returns
<1> QED
  BY <1>1, <1>2, <1>3, <1>4 DEF IInv

\* Clean-up gets the mutex.
LEMMA CleanupKeeps ==
    ASSUME IInv, Cleanup
    PROVE  IInv'
<1>1. lock = Nobody /\ (\A u \in Tasks : pc[u] \notin Holding) /\ Truthful
  BY NobodyInside DEF Cleanup
<1>3. TypeOK'
  <2>1. lock' \in Tasks \cup {Nobody}
    BY DEF Cleanup, Goto, CallStop, Tasks
  <2>2. pc' \in [Tasks -> Labels]
    BY DEF Cleanup, IInv, TypeOK, Goto, CallStop, Labels, Resting, Holding,
           StopSteps, Returns
  <2>3. call' \in [profile : Profiles, ret : Returns \cup {"begin", "idle"}]
    BY DEF Cleanup, IInv, TypeOK, Goto, CallStop, NoCall, NoProfile, Profiles,
           Returns
  <2> QED
    BY <2>1, <2>2, <2>3 DEF Cleanup, IInv, TypeOK, Goto, CallStop, svars, plane
<1>4. LockInv'
  BY <1>1 DEF Cleanup, IInv, TypeOK, Goto, CallStop, svars, plane, LockInv,
         Running, Tasks, Poller, Cleaner, Nobody, Holding, StartSteps,
         StopSteps, Returns
<1>5. LocalsInv'
  BY <1>1 DEF Cleanup, IInv, TypeOK, Goto, CallStop, svars, plane, LocalsInv,
         Bound, NoCall, Tasks, Poller, Cleaner, Nobody, Holding, StartSteps,
         StopSteps, Returns
<1>6. PlaneInv'
  BY <1>1 DEF Cleanup, IInv, TypeOK, Goto, CallStop, svars, plane, PlaneInv,
         Holding, StartSteps, StopSteps, Returns
<1>7. StepInv'
  BY <1>1 DEF Cleanup, IInv, TypeOK, Goto, CallStop, svars, plane, StepInv,
         Holding, StartSteps, StopSteps, Returns
<1>8. StateInv'
  BY <1>1 DEF Cleanup, IInv, TypeOK, Goto, CallStop, svars, plane, StateInv,
         Truthful, Holding, StartSteps, StopSteps, Returns
<1>9. ReadingInv'
  BY <1>1 DEF Cleanup, IInv, TypeOK, Goto, CallStop, svars, plane, ReadingInv,
         Tasks, Poller, Cleaner, Nobody, Holding, StartSteps, StopSteps, Returns
<1>10. SnapInv'
  BY <1>1 DEF Cleanup, IInv, TypeOK, Goto, CallStop, svars, plane, SnapInv,
         Tasks, Poller, Cleaner, Nobody, Holding, StartSteps, StopSteps, Returns
<1> QED
  BY <1>3, <1>4, <1>5, <1>6, <1>7, <1>8, <1>9, <1>10 DEF IInv

\* Clean-up leaves the mutex without publishing.
LEMMA CleanupDoneKeeps ==
    ASSUME IInv, CleanupDone
    PROVE  IInv'
<1>1. pc[Cleaner] \in Holding /\ lock = Cleaner /\ Cleaner # Nobody
  BY HolderAlone DEF CleanupDone, Tasks, Holding, StartSteps, StopSteps, Returns
<1>2. \A u \in Tasks : pc[u] \in Holding => u = Cleaner
  BY <1>1, HolderAlone DEF Tasks
<1>3. TypeOK'
  <2>1. lock' \in Tasks \cup {Nobody}
    BY DEF CleanupDone, Goto, Release, Tasks
  <2>2. pc' \in [Tasks -> Labels]
    BY DEF CleanupDone, IInv, TypeOK, Goto, Release, Labels, Resting, Holding,
           StopSteps, Returns
  <2>3. arg' \in [Tasks -> Readings]
    BY DEF CleanupDone, IInv, TypeOK, Goto, Release, Readings, NoReading, OptConn
  <2>4. call' \in [profile : Profiles, ret : Returns \cup {"begin", "idle"}]
    BY DEF CleanupDone, IInv, TypeOK, Goto, Release, NoCall, NoProfile, Profiles,
           Returns
  <2> QED
    BY <2>1, <2>2, <2>3, <2>4 DEF CleanupDone, IInv, TypeOK, Goto, Release, svars,
           plane
<1>4. LockInv'
  BY ClientsAssumption, <1>1, <1>2 DEF CleanupDone, IInv, TypeOK, Goto, Release, svars, plane,
         LockInv, Running, Tasks, Poller, Cleaner, Nobody, Holding, StartSteps,
         StopSteps, Returns
<1>5. LocalsInv'
  BY <1>1, <1>2 DEF CleanupDone, IInv, TypeOK, Goto, Release, svars, plane,
         LocalsInv, Bound, NoCall, NoReading, Tasks, Poller, Cleaner, Nobody,
         Holding, StartSteps, StopSteps, Returns
<1>6. PlaneInv'
  BY <1>1, <1>2 DEF CleanupDone, IInv, TypeOK, Goto, Release, svars, plane,
         PlaneInv, Holding, StartSteps, StopSteps, Returns
<1>7. StepInv'
  BY <1>1, <1>2 DEF CleanupDone, IInv, TypeOK, Goto, Release, svars, plane,
         StepInv, Holding, StartSteps, StopSteps, Returns
<1>8. StateInv'
  BY <1>1, <1>2 DEF CleanupDone, IInv, TypeOK, Goto, Release, svars, plane,
         StateInv, Truthful, Holding, StartSteps, StopSteps, Returns
<1>9. ReadingInv'
  BY <1>1, <1>2 DEF CleanupDone, IInv, TypeOK, Goto, Release, svars, plane,
         ReadingInv, Tasks, Poller, Cleaner, Nobody, Holding, StartSteps,
         StopSteps, Returns
<1>10. SnapInv'
  BY <1>1, <1>2 DEF CleanupDone, IInv, TypeOK, Goto, Release, svars, plane,
         SnapInv, Tasks, Poller, Cleaner, Nobody, Holding, StartSteps,
         StopSteps, Returns
<1> QED
  BY <1>3, <1>4, <1>5, <1>6, <1>7, <1>8, <1>9, <1>10 DEF IInv

\* The process ends; what it held ends with it.
LEMMA ExitKeeps ==
    ASSUME IInv, Exit
    PROVE  IInv'
<1>3. TypeOK'
  <2>1. inner' \in Inners
    BY InnersKept DEF Exit, IInv, TypeOK, ProcessGone
  <2>2. snap' \in Snapshots
    BY DEF Exit, IInv, TypeOK, ProcessGone, Snapshots, OptConn, States,
           DefaultSnapshot
  <2>3. lock' \in Tasks \cup {Nobody}
    BY DEF Exit, ProcessGone, Tasks
  <2>4. pc' \in [Tasks -> Labels]
    BY DEF Exit, IInv, TypeOK, ProcessGone, Labels, Resting, Holding, StopSteps,
           Returns
  <2>5. arg' \in [Tasks -> Readings]
    BY DEF Exit, IInv, TypeOK, ProcessGone, Readings, NoReading, OptConn
  <2>6. call' \in [profile : Profiles, ret : Returns \cup {"begin", "idle"}]
    BY DEF Exit, IInv, TypeOK, ProcessGone, NoCall, NoProfile, Profiles, Returns
  <2>7. applied' \in Tables
    BY DEF Exit, ProcessGone, Tables, NoTable, OptConn
  <2>8. engine' \in Engines
    BY DEF Exit, IInv, TypeOK, ProcessGone, Engines, OptConn, NoEngine
  <2>9. phase' \in {"up", "stopping", "crashed", "exited"}
    BY DEF Exit
  <2> QED
    BY <2>1, <2>2, <2>3, <2>4, <2>5, <2>6, <2>7, <2>8, <2>9 DEF Exit, IInv,
           TypeOK, ProcessGone, svars, plane
<1>4. LockInv'
  BY ClientsAssumption DEF Exit, IInv, TypeOK, ProcessGone, svars, plane, LockInv, Running,
         NoEngine, Tasks, Poller, Cleaner, Nobody, Holding, StartSteps,
         StopSteps, Returns
<1>5. LocalsInv'
  BY DEF Exit, IInv, TypeOK, ProcessGone, svars, plane, LocalsInv, Bound,
         NoCall, NoReading, Tasks, Poller, Cleaner, Nobody, Holding, StartSteps,
         StopSteps, Returns
<1>6. PlaneInv'
  BY DEF Exit, IInv, TypeOK, ProcessGone, svars, plane, PlaneInv, Inners,
         NoEngine, NoTable, NewInner, Engines, Holding, StartSteps, StopSteps,
         Returns
<1>7. StepInv'
  BY DEF Exit, IInv, TypeOK, ProcessGone, svars, plane, StepInv, Inners,
         Holding, StartSteps, StopSteps, Returns
<1>8. StateInv'
  BY DEF Exit, IInv, TypeOK, ProcessGone, svars, plane, StateInv, Truthful,
         Inners, NewInner, NoTable, Holding, StartSteps, StopSteps, Returns
<1>9. ReadingInv'
  BY DEF Exit, IInv, TypeOK, ProcessGone, svars, plane, ReadingInv, Inners,
         NewInner, Tasks, Poller, Cleaner, Nobody, Holding, StartSteps,
         StopSteps, Returns
<1>10. SnapInv'
  BY DEF Exit, IInv, TypeOK, ProcessGone, svars, plane, SnapInv, Inners,
         NewInner, DefaultSnapshot, Snapshots, Tasks, Poller, Cleaner, Nobody,
         Holding, StartSteps, StopSteps, Returns
<1> QED
  BY <1>3, <1>4, <1>5, <1>6, <1>7, <1>8, <1>9, <1>10 DEF IInv

\* A crash leaves the table behind and nothing else.
LEMMA CrashKeeps ==
    ASSUME IInv, Crash
    PROVE  IInv'
<1>3. TypeOK'
  <2>1. inner' \in Inners
    BY InnersKept DEF Crash, IInv, TypeOK, ProcessGone
  <2>2. snap' \in Snapshots
    BY DEF Crash, IInv, TypeOK, ProcessGone, Snapshots, OptConn, States,
           DefaultSnapshot
  <2>3. lock' \in Tasks \cup {Nobody}
    BY DEF Crash, ProcessGone, Tasks
  <2>4. pc' \in [Tasks -> Labels]
    BY DEF Crash, IInv, TypeOK, ProcessGone, Labels, Resting, Holding, StopSteps,
           Returns
  <2>5. arg' \in [Tasks -> Readings]
    BY DEF Crash, IInv, TypeOK, ProcessGone, Readings, NoReading, OptConn
  <2>6. call' \in [profile : Profiles, ret : Returns \cup {"begin", "idle"}]
    BY DEF Crash, IInv, TypeOK, ProcessGone, NoCall, NoProfile, Profiles, Returns
  <2>7. applied' \in Tables
    BY DEF Crash, ProcessGone, Tables, NoTable, OptConn
  <2>8. engine' \in Engines
    BY DEF Crash, IInv, TypeOK, ProcessGone, Engines, OptConn, NoEngine
  <2>9. phase' \in {"up", "stopping", "crashed", "exited"}
    BY DEF Crash
  <2> QED
    BY <2>1, <2>2, <2>3, <2>4, <2>5, <2>6, <2>7, <2>8, <2>9 DEF Crash, IInv,
           TypeOK, ProcessGone, svars, plane
<1>4. LockInv'
  BY ClientsAssumption DEF Crash, IInv, TypeOK, ProcessGone, svars, plane, LockInv, Running,
         NoEngine, Tasks, Poller, Cleaner, Nobody, Holding, StartSteps,
         StopSteps, Returns
<1>5. LocalsInv'
  BY DEF Crash, IInv, TypeOK, ProcessGone, svars, plane, LocalsInv, Bound,
         NoCall, NoReading, Tasks, Poller, Cleaner, Nobody, Holding, StartSteps,
         StopSteps, Returns
<1>6. PlaneInv'
  BY DEF Crash, IInv, TypeOK, ProcessGone, svars, plane, PlaneInv, Inners,
         NoEngine, NoTable, NewInner, Engines, Holding, StartSteps, StopSteps,
         Returns
<1>7. StepInv'
  BY DEF Crash, IInv, TypeOK, ProcessGone, svars, plane, StepInv, Inners,
         Holding, StartSteps, StopSteps, Returns
<1>8. StateInv'
  BY DEF Crash, IInv, TypeOK, ProcessGone, svars, plane, StateInv, Truthful,
         Inners, NewInner, NoTable, Holding, StartSteps, StopSteps, Returns
<1>9. ReadingInv'
  BY DEF Crash, IInv, TypeOK, ProcessGone, svars, plane, ReadingInv, Inners,
         NewInner, Tasks, Poller, Cleaner, Nobody, Holding, StartSteps,
         StopSteps, Returns
<1>10. SnapInv'
  BY DEF Crash, IInv, TypeOK, ProcessGone, svars, plane, SnapInv, Inners,
         NewInner, DefaultSnapshot, Snapshots, Tasks, Poller, Cleaner, Nobody,
         Holding, StartSteps, StopSteps, Returns
<1> QED
  BY <1>3, <1>4, <1>5, <1>6, <1>7, <1>8, <1>9, <1>10 DEF IInv

\* The next run starts by removing that table.
LEMMA StartupKeeps ==
    ASSUME IInv, Startup
    PROVE  IInv'
<1>1. lock = Nobody /\ engine.run = "none" /\ \A u \in Tasks : pc[u] \notin Holding
  BY NobodyInside DEF Startup, IInv, LockInv, Running, NoEngine
<1>2. inner.proxy_state # "Active"
  BY <1>1, NobodyInside DEF Truthful
<1>3. TypeOK'
  <2>1. table' \in Tables /\ applied' \in Tables
    BY RulesRemoved DEF Startup, IInv, TypeOK
  <2>2. phase' \in {"up", "stopping", "crashed", "exited"}
    BY DEF Startup
  <2> QED
    BY <2>1, <2>2 DEF Startup, IInv, TypeOK, svars, plane
<1>4. LockInv'
  BY <1>1 DEF Startup, IInv, TypeOK, svars, plane, LockInv, Running
<1>5. LocalsInv'
  BY <1>1 DEF Startup, IInv, TypeOK, svars, plane, LocalsInv, Bound
<1>6. PlaneInv'
  BY <1>1, RulesRemoved DEF Startup, IInv, TypeOK, svars, plane, PlaneInv,
         NoTable
<1>7. StepInv'
  BY <1>1 DEF Startup, svars, StepInv, Holding, StartSteps, StopSteps
<1>8. StateInv'
  <2>1. Truthful /\ Truthful'
    BY <1>1, <1>2, NobodyInside, RulesRemoved DEF Startup, IInv, TypeOK, svars, Truthful
  <2> QED
    BY <1>1, <2>1 DEF Startup, StateInv, Holding, Returns, StartSteps
<1>9. ReadingInv'
  BY <1>1 DEF Startup, IInv, TypeOK, svars, plane, ReadingInv
<1>10. SnapInv'
  BY <1>1 DEF Startup, IInv, TypeOK, svars, plane, SnapInv
<1> QED
  BY <1>3, <1>4, <1>5, <1>6, <1>7, <1>8, <1>9, <1>10 DEF IInv

\* NetworkManager moves as it likes.
LEMMA RoamKeeps ==
    ASSUME IInv, Roam
    PROVE  IInv'
<1>1. TypeOK'
  <2>1. nm' \in Readings
    BY DEF Roam, WifiReadings
  <2> QED
    BY <2>1 DEF Roam, IInv, TypeOK, svars, plane
<1>2. LockInv' /\ LocalsInv'
  BY DEF Roam, IInv, TypeOK, svars, plane, LockInv, Running, LocalsInv, Bound
<1>3. PlaneInv' /\ StepInv'
  BY DEF Roam, IInv, TypeOK, svars, plane, PlaneInv, StepInv
<1>4. StateInv' /\ ReadingInv' /\ SnapInv'
  BY DEF Roam, IInv, TypeOK, svars, plane, StateInv, ReadingInv, SnapInv,
         Truthful
<1> QED
  BY <1>1, <1>2, <1>3, <1>4 DEF IInv

\* The child dies under the daemon's feet.
LEMMA EngineDiesKeeps ==
    ASSUME IInv, EngineDies
    PROVE  IInv'
<1>3. TypeOK'
  <2>1. engine' \in Engines
    BY DEF EngineDies, IInv, TypeOK, Engines, OptConn
  <2> QED
    BY <2>1 DEF EngineDies, IInv, TypeOK, svars, plane
<1>4. LockInv'
  BY DEF EngineDies, IInv, TypeOK, svars, plane, LockInv, Running, NoEngine
<1>5. LocalsInv'
  BY DEF EngineDies, IInv, TypeOK, svars, plane, LocalsInv, Bound
<1>6. PlaneInv'
  BY DEF EngineDies, IInv, TypeOK, svars, plane, PlaneInv, Engines
<1>7. StepInv'
  BY DEF EngineDies, IInv, TypeOK, svars, plane, StepInv, Engines
<1>8. StateInv'
  BY DEF EngineDies, IInv, TypeOK, svars, plane, StateInv, Truthful, Engines
<1>9. ReadingInv'
  BY DEF EngineDies, IInv, TypeOK, svars, plane, ReadingInv
<1>10. SnapInv'
  BY DEF EngineDies, IInv, TypeOK, svars, plane, SnapInv
<1> QED
  BY <1>3, <1>4, <1>5, <1>6, <1>7, <1>8, <1>9, <1>10 DEF IInv

-----------------------------------------------------------------------------
(* The poll that found Wi-Fi. *)

\* A tick touches the memory of the last stop and the back-off counter only.
LEMMA TickedKeeps ==
    ASSUME TypeOK, NEW w \in OptConn
    PROVE  /\ Ticked(w) \in Inners
           /\ \E u \in OptConn, n \in 0 .. RetryTicks :
                /\ Ticked(w) = [inner EXCEPT !.user_stopped = u, !.failed_ticks = n]
                /\ inner.proxy_state # "Failed" => n = 0
<1> DEFINE u == IF inner.user_stopped = w THEN inner.user_stopped ELSE NoConn
           n == IF inner.proxy_state # "Failed" THEN 0
                ELSE IF inner.failed_ticks < RetryTicks THEN inner.failed_ticks + 1
                ELSE inner.failed_ticks
<1>1. Ticked(w) = [inner EXCEPT !.user_stopped = u, !.failed_ticks = n]
  BY DEF Ticked
<1>2. u \in OptConn
  BY DEF TypeOK, Inners, OptConn
<1>3. n \in 0 .. RetryTicks
  BY RetryAssumption DEF TypeOK, Inners
<1>4. inner.proxy_state # "Failed" => n = 0
  OBVIOUS
<1> HIDE DEF u, n
<1>5. [inner EXCEPT !.user_stopped = u, !.failed_ticks = n] \in Inners
  BY <1>2, <1>3 DEF TypeOK, Inners
<1> QED
  BY <1>1, <1>2, <1>3, <1>4, <1>5

\* A poll that does not stop the proxy leaves none up for another connection.
LEMMA VerdictFollowsReading ==
    ASSUME Truthful, NEW r, Verdict(r) \in {"start", "keep", "fail"}
    PROVE  inner.active_uuid \in {NoConn, r.wifi}
<1>1. CASE ShouldStart(r)
  <2>1. ~Switched(r)
    BY <1>1 DEF Verdict
  <2> QED
    BY <2>1 DEF Switched
<1>2. CASE KeepManual(r)
  BY <1>2 DEF KeepManual
<1>3. CASE ~ShouldStart(r) /\ ~KeepManual(r)
  <2>1. inner.proxy_state = "Disconnected"
    BY <1>3 DEF Verdict
  <2> QED
    BY <2>1 DEF Truthful
<1> QED
  BY <1>1, <1>2, <1>3

\* Whatever a poll decides, it leaves the state as true as it found it.
LEMMA PollWifiKeeps ==
    ASSUME IInv, PollWifi
    PROVE  IInv'
<1> DEFINE w == arg[Poller].wifi
<1>1. lock = Nobody /\ (\A u \in Tasks : pc[u] \notin Holding) /\ Truthful
  BY NobodyInside DEF PollWifi, PollLock
<1>2. Poller \in Tasks /\ Poller # Nobody /\ Poller # Cleaner
  BY DEF Tasks, Poller, Cleaner, Nobody
<1>3. Running /\ w # NoConn /\ w \in OptConn
  BY <1>2 DEF PollWifi, PollLock, IInv, TypeOK, Readings
<1>4. PICK u \in OptConn, n \in 0 .. RetryTicks :
        /\ Ticked(w) = [inner EXCEPT !.user_stopped = u, !.failed_ticks = n]
        /\ inner.proxy_state # "Failed" => n = 0
  BY <1>3, TickedKeeps DEF IInv
<1>5. Ticked(w) \in Inners
  BY <1>3, TickedKeeps DEF IInv
<1>6. lock' = Poller /\ UNCHANGED <<nm, store, snap, arg, engine, table, applied, phase>>
  BY DEF PollWifi, PollLock, svars, plane
<1>7. CASE /\ inner' = Ticked(w)
           /\ pc' = [pc EXCEPT ![Poller] = "stopEngine"]
           /\ \E ret \in {"begin", "publish"} : call' = [NoCall EXCEPT !.ret = ret]
  <2>1. TypeOK'
    <3>1. call' \in [profile : Profiles, ret : Returns \cup {"begin", "idle"}]
      <4>1. NoProfile \in Profiles
        BY DEF NoProfile, Profiles
      <4>2. \A ret \in {"begin", "publish"} :
              [NoCall EXCEPT !.ret = ret]
                \in [profile : Profiles, ret : Returns \cup {"begin", "idle"}]
        BY <4>1 DEF NoCall, Returns
      <4> QED
        BY <1>7, <4>2
    <3>2. pc' \in [Tasks -> Labels]
      BY <1>7 DEF IInv, TypeOK, Labels, Holding, StopSteps
    <3> QED
      BY <1>2, <1>5, <1>6, <1>7, <3>1, <3>2 DEF IInv, TypeOK
  <2>2. LockInv' /\ LocalsInv'
    BY <1>1, <1>2, <1>3, <1>6, <1>7 DEF IInv, TypeOK, LockInv, LocalsInv, Running, Bound,
           NoCall, Holding, StartSteps, StopSteps
  <2>3. PlaneInv' /\ StepInv'
    BY <1>1, <1>2, <1>4, <1>6, <1>7 DEF IInv, TypeOK, PlaneInv, StepInv, Inners, Holding,
           StartSteps, StopSteps
  <2>4. StateInv' /\ ReadingInv' /\ SnapInv'
    BY <1>1, <1>2, <1>6, <1>7 DEF IInv, TypeOK, StateInv, ReadingInv, SnapInv, Holding,
           StartSteps, StopSteps, Returns
  <2> QED
    BY <2>1, <2>2, <2>3, <2>4 DEF IInv
<1>8. ASSUME inner.active_uuid \in {NoConn, w},
             inner' = Ticked(w) \/ inner' = RecordFailure(Ticked(w)),
             NEW label \in {"begin", "publish"},
             pc' = [pc EXCEPT ![Poller] = label], UNCHANGED call
      PROVE  IInv'
  <2>1. TypeOK'
    <3>1. inner' \in Inners
      BY <1>5, <1>8, InnersKept
    <3>2. pc' \in [Tasks -> Labels]
      BY <1>8 DEF IInv, TypeOK, Labels, Holding, StartSteps, Returns
    <3> QED
      BY <1>2, <1>6, <1>8, <3>1, <3>2 DEF IInv, TypeOK
  <2>2. LockInv' /\ LocalsInv'
    BY <1>1, <1>2, <1>3, <1>6, <1>8 DEF IInv, TypeOK, LockInv, LocalsInv, Running, Bound,
           Holding, StartSteps, StopSteps, Returns
  <2>3. inner'.active_uuid = inner.active_uuid
    BY <1>4, <1>8 DEF IInv, TypeOK, Inners, RecordFailure
  <2>4. PlaneInv' /\ StepInv'
    BY <1>1, <1>2, <1>6, <1>8, <2>3 DEF IInv, TypeOK, PlaneInv, StepInv, Holding,
           StartSteps, StopSteps, Returns
  <2>5. Truthful'
    <3>1. CASE inner' = Ticked(w)
      BY <1>1, <1>4, <1>6, <3>1 DEF IInv, TypeOK, Inners, Truthful
    <3>2. CASE inner' = RecordFailure(Ticked(w))
      BY <1>5, <3>2 DEF Inners, Truthful, RecordFailure
    <3> QED
      BY <1>8, <3>1, <3>2
  <2>6. StateInv' /\ ReadingInv' /\ SnapInv'
    BY <1>1, <1>2, <1>3, <1>6, <1>8, <2>3, <2>5 DEF IInv, TypeOK, StateInv, ReadingInv,
           SnapInv, Holding, StartSteps, Returns
  <2> QED
    BY <2>1, <2>2, <2>4, <2>6 DEF IInv
<1>9. CASE Verdict(arg[Poller]) \in {"restart", "stop"}
  BY <1>7, <1>9 DEF PollWifi, CallStop, Goto
<1>10. CASE Verdict(arg[Poller]) \in {"start", "keep", "fail"}
  <2>1. inner.active_uuid \in {NoConn, w}
    BY <1>1, <1>10, VerdictFollowsReading
  <2> QED
    BY <1>8, <1>10, <2>1 DEF PollWifi, Goto
<1> QED
  BY <1>9, <1>10 DEF PollWifi

-----------------------------------------------------------------------------
(* The invariant. *)

\* The state before the first step satisfies the invariant.
LEMMA InitTruthful == Init => IInv
<1> SUFFICES ASSUME Init PROVE IInv
  OBVIOUS
<1>1. TypeOK
  <2>1. nm \in Readings
    BY DEF Init, WifiReadings
  <2>2. store \in [Conns -> Profiles]
    <3>1. NoProfile \in Profiles
      BY DEF Profiles, NoProfile
    <3> QED
      BY <3>1, ProfilesAssumption DEF Init
  <2>3. inner \in Inners
    <3>1. 0 \in 0 .. RetryTicks
      BY RetryAssumption
    <3> QED
      BY <3>1 DEF Init, Inners, NewInner, States, OptConn
  <2>4. snap \in Snapshots
    BY DEF Init, Snapshots, DefaultSnapshot, States, OptConn
  <2>5. pc \in [Tasks -> Labels] /\ lock \in Tasks \cup {Nobody}
    BY DEF Init, Labels, Resting
  <2>6. arg \in [Tasks -> Readings]
    BY DEF Init, Readings, NoReading, OptConn
  <2>7. call \in [profile : Profiles, ret : Returns \cup {"begin", "idle"}]
    BY DEF Init, NoCall, NoProfile, Profiles
  <2>8. engine \in Engines /\ table \in Tables /\ applied \in Tables
    BY DEF Init, Engines, NoEngine, Tables, NoTable, OptConn
  <2> QED
    BY <2>1, <2>2, <2>3, <2>4, <2>5, <2>6, <2>7, <2>8 DEF Init, TypeOK
<1>2. LockInv
  BY ClientsAssumption DEF Init, LockInv, Running, Tasks, Poller, Cleaner, Nobody, Holding,
         StartSteps, StopSteps, Returns
<1>3. LocalsInv /\ PlaneInv /\ StepInv
  BY DEF Init, LocalsInv, PlaneInv, StepInv, Bound, StopSteps, NoEngine, NoTable
<1>4. StateInv /\ ReadingInv /\ SnapInv
  BY DEF Init, StateInv, Truthful, ReadingInv, SnapInv, NewInner, DefaultSnapshot, Returns,
         StartSteps, Tasks, NoTable
<1> QED
  BY <1>1, <1>2, <1>3, <1>4 DEF IInv

\* Doing nothing keeps it too.
LEMMA StutterKeeps == IInv /\ UNCHANGED vars => IInv'
BY DEF vars, IInv, TypeOK, LockInv, Running, LocalsInv, PlaneInv, StepInv, StateInv,
       Truthful, ReadingInv, SnapInv

\* Every step of the daemon and of what surrounds it keeps the invariant.
THEOREM StepsKeepIInv == IInv /\ [Next]_vars => IInv'
<1> SUFFICES ASSUME IInv, [Next]_vars PROVE IInv'
  OBVIOUS
<1>1. ASSUME NEW t \in Tasks, StartProxy(t) PROVE IInv'
  BY <1>1, StartNoProfileKeeps, StartBeginKeeps, ResolveFailsKeeps, ApplyRulesKeeps,
     ApplyFailsKeeps, StartEngineKeeps, EngineFailsKeeps, UnwindKeeps, HealthOkKeeps,
     HealthFailsKeeps DEF StartProxy
<1>2. ASSUME NEW t \in Tasks, Transition(t) PROVE IInv'
  BY <1>1, <1>2, StopEngineKeeps, StopRulesKeeps, PollPublishKeeps, CleanupDoneKeeps,
     ManualStartedKeeps, ManualStartFailedKeeps, ManualStoppedKeeps
     DEF Transition, StopProxy
<1>3. ASSUME NEW c \in Clients,
             ManualStart(c) \/ ManualStartLocked(c) \/ ManualStop(c) \/ ManualStopLocked(c)
      PROVE  IInv'
  BY <1>3, ManualStartKeeps, ManualStartLockedKeeps, ManualStopKeeps, ManualStopLockedKeeps
<1>4. CASE PollRead \/ PollLocked \/ PollExit \/ Cleanup \/ Exit
  BY <1>4, PollReadKeeps, PollNoWifiKeeps, PollWifiKeeps, PollExitKeeps, CleanupKeeps,
     ExitKeeps DEF PollLocked
<1>5. CASE SetProfiles \/ Signal \/ Crash \/ Startup \/ Roam \/ EngineDies
  BY <1>5, SetProfilesKeeps, SignalKeeps, CrashKeeps, StartupKeeps, RoamKeeps,
     EngineDiesKeeps
<1> QED
  BY <1>2, <1>3, <1>4, <1>5, StutterKeeps DEF Next

\* The invariant holds in every behaviour of the daemon.
THEOREM Invariance == Spec => []IInv
BY InitTruthful, StepsKeepIInv, PTL DEF Spec

-----------------------------------------------------------------------------
(* What follows from it. *)

\* Every variable keeps its type.
THEOREM TypeCorrect == Spec => []TypeOK
<1>1. IInv => TypeOK
  BY DEF IInv
<1> QED
  BY <1>1, Invariance, PTL

\* Between transitions the state machine's state says what the data plane has
\* (start_proxy, stop_proxy, record_failure).
THEOREM SettledStateCorrect == Spec => []SettledStateIsTrue
<1>1. IInv => SettledStateIsTrue
  <2> SUFFICES ASSUME IInv, Settled PROVE SettledStateIsTrue
    BY DEF SettledStateIsTrue
  <2>1. Truthful /\ TypeOK /\ PlaneInv
    BY DEF IInv, StateInv, Settled
  <2>2. engine.run = "none" => engine = NoEngine
    BY <2>1 DEF TypeOK, Engines, PlaneInv, NoEngine
  <2>3. inner.active_uuid = NoConn => engine.run = "none"
    BY <2>1 DEF PlaneInv
  <2>4. engine.run # "none" => engine.conn = inner.active_uuid
    BY <2>1 DEF PlaneInv
  <2> QED
    BY <2>1, <2>2, <2>3, <2>4 DEF Truthful, SettledStateIsTrue
<1> QED
  BY <1>1, Invariance, PTL

\* While a tunnel lives some table is loaded, its own unless the next start has just
\* replaced it (the order of apply and start, of stop and remove).
THEOREM TunnelSteeredCorrect == Spec => []TunnelIsSteered
<1>1. IInv => TunnelIsSteered
  BY DEF IInv, PlaneInv, TunnelIsSteered, NoTable
<1> QED
  BY <1>1, Invariance, PTL

\* The snapshot is the state machine's own state whenever the mutex is free.
THEOREM SnapshotCorrect == Spec => []SnapshotIsHonest
<1>1. IInv => SnapshotIsHonest
  BY DEF IInv, SnapInv, SnapshotIsHonest, Settled
<1> QED
  BY <1>1, Invariance, PTL

\* However a poll ends, no tunnel is left for another network than the one it read.
THEOREM ReadingCorrect == Spec => []TunnelFollowsReading
<1>1. IInv => TunnelFollowsReading
  BY DEF IInv, ReadingInv, PlaneInv, TypeOK, Engines, StartSteps, TunnelFollowsReading
<1> QED
  BY <1>1, Invariance, PTL


-----------------------------------------------------------------------------
(* ProxyDaemon implements SteeredTunnel. *)

\* What SteeredTunnel sees: the table that is loaded, the child that lives.
LEMMA TunnelUnmoved ==
    ASSUME UNCHANGED <<engine, table>>
    PROVE  UNCHANGED Tunnel!vars
BY DEF Tunnel!vars

\* A step that takes the child away, or leaves it dead, halts the tunnel.
LEMMA TunnelHalted ==
    ASSUME UNCHANGED table, engine'.run # "alive"
    PROVE  Tunnel!Next
BY DEF Tunnel!Next, Tunnel!Halt

\* Rules are removed, or nft fails to, only while no child lives.
LEMMA TunnelOpened ==
    ASSUME engine.run = "none", RemoveRules, UNCHANGED engine
    PROVE  [Tunnel!Next]_Tunnel!vars
BY DEF RemoveRules, NoTable, Tunnel!Next, Tunnel!Open, Tunnel!vars

\* Every step of the daemon is a step of the data plane or leaves it alone.
LEMMA StepsRefine ==
    ASSUME IInv, [Next]_vars
    PROVE  [Tunnel!Next]_Tunnel!vars
<1>1. ASSUME NEW t \in Tasks, ApplyRules(t) PROVE Tunnel!Next
  <2>1. arg[t].wifi \in Conns
    BY <1>1 DEF ApplyRules, IInv, TypeOK, LocalsInv, Bound, Readings, OptConn
  <2>2. table'.conn = arg[t].wifi /\ UNCHANGED engine
    BY <1>1 DEF ApplyRules
  <2> QED
    BY <2>1, <2>2 DEF Tunnel!Next, Tunnel!Steer
<1>2. ASSUME NEW t \in Tasks, StartEngine(t) PROVE Tunnel!Next
  <2>1. arg[t].wifi \in Conns /\ table.conn = arg[t].wifi
    BY <1>2 DEF StartEngine, IInv, TypeOK, LocalsInv, StepInv, Bound, Readings, OptConn
  <2>2. engine' = [run |-> "alive", conn |-> arg[t].wifi] /\ UNCHANGED table
    BY <1>2 DEF StartEngine
  <2> QED
    BY <2>1, <2>2 DEF Tunnel!Next, Tunnel!Launch
<1>3. ASSUME NEW t \in Tasks, EngineFails(t) \/ StopEngine(t) PROVE Tunnel!Next
  BY <1>3, TunnelHalted DEF EngineFails, StopEngine, NoEngine
<1>4. ASSUME NEW t \in Tasks, Unwind(t) \/ StopRules(t) PROVE [Tunnel!Next]_Tunnel!vars
  <2>1. engine.run = "none"
    BY <1>4 DEF Unwind, StopRules, IInv, StepInv
  <2> QED
    BY <1>4, <2>1, TunnelOpened DEF Unwind, StopRules
<1>5. ASSUME NEW t \in Tasks, StartProxy(t) PROVE [Tunnel!Next]_Tunnel!vars
  BY <1>1, <1>2, <1>3, <1>4, <1>5, TunnelUnmoved
     DEF StartProxy, StartNoProfile, StartBegin, ResolveFails, ApplyFails, HealthOk,
         HealthFails, plane
<1>6. ASSUME NEW t \in Tasks, Transition(t) PROVE [Tunnel!Next]_Tunnel!vars
  BY <1>3, <1>4, <1>5, <1>6, TunnelUnmoved
     DEF Transition, StopProxy, PollPublish, CleanupDone, ManualStarted,
         ManualStartFailed, ManualStopped, plane
<1>7. CASE Exit \/ Crash \/ EngineDies
  <2>1. engine'.run # "alive" /\ UNCHANGED table
    BY <1>7 DEF Exit, Crash, EngineDies, ProcessGone, NoEngine, IInv, TypeOK, Engines
  <2> QED
    BY <2>1, TunnelHalted
<1>8. CASE Startup
  <2>1. engine.run = "none"
    BY <1>8 DEF Startup, IInv, LockInv, Running, NoEngine
  <2> QED
    BY <1>8, <2>1, TunnelOpened DEF Startup
<1>9. CASE PollRead \/ PollLocked \/ PollExit \/ Cleanup \/ SetProfiles \/ Signal \/ Roam
  BY <1>9, TunnelUnmoved
     DEF PollRead, PollLocked, PollNoWifi, PollWifi, PollLock, PollExit, Cleanup,
         SetProfiles, Signal, Roam, plane
<1>10. ASSUME NEW c \in Clients,
              ManualStart(c) \/ ManualStartLocked(c) \/ ManualStop(c) \/ ManualStopLocked(c)
       PROVE  [Tunnel!Next]_Tunnel!vars
  BY <1>10, TunnelUnmoved
     DEF ManualStart, ManualStartLocked, ManualStop, ManualStopLocked, plane
<1>11. CASE UNCHANGED vars
  BY <1>11, TunnelUnmoved DEF vars
<1> QED
  BY <1>6, <1>7, <1>8, <1>9, <1>10, <1>11 DEF Next

\* The daemon, with every failure, race, crash and restart, never takes a step the data
\* plane's specification forbids: rules before the tunnel, the tunnel down before the
\* rules (service.rs start_proxy and stop_proxy, main.rs clean-up).
THEOREM Refinement == Spec => ImplementsSteeredTunnel
<1>1. Init => Tunnel!Init
  BY DEF Init, NoTable, NoEngine, Tunnel!Init
<1>2. IInv /\ [Next]_vars => [Tunnel!Next]_Tunnel!vars
  BY StepsRefine
<1> QED
  BY <1>1, <1>2, Invariance, PTL DEF Spec, ImplementsSteeredTunnel, Tunnel!Spec

\* What the data plane's specification guarantees by itself, and the daemon with it: no
\* tunnel is up without rules that steer the traffic into it.
THEOREM NeverUnsteeredCorrect == Spec => []Tunnel!NeverUnsteered
<1> DEFINE Safe == Tunnel!TypeOK /\ Tunnel!NeverUnsteered
<1>1. Tunnel!Init => Safe
  BY DEF Tunnel!Init, Tunnel!TypeOK, Tunnel!NeverUnsteered
<1>2. Safe /\ [Tunnel!Next]_Tunnel!vars => Safe'
  BY ConnsAssumption
     DEF Tunnel!TypeOK, Tunnel!NeverUnsteered, Tunnel!Next, Tunnel!vars, Tunnel!Steer,
         Tunnel!Launch, Tunnel!Halt, Tunnel!Open
<1>3. Safe => Tunnel!NeverUnsteered
  OBVIOUS
<1>4. Tunnel!Spec => []Tunnel!NeverUnsteered
  BY <1>1, <1>2, <1>3, PTL DEF Tunnel!Spec
<1> QED
  BY <1>4, Refinement, PTL DEF ImplementsSteeredTunnel
=============================================================================
