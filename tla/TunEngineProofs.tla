-------------------------- MODULE TunEngineProofs ---------------------------
(***************************************************************************)
(* The DNS forwarder loses no permit and answers no query twice, for any   *)
(* number of queries, upstreams and permits: a permit and a task come and  *)
(* go together, and a task that still asks has not replied.  The tunnel's  *)
(* engine leaves nothing behind, runs into nothing that was left, and runs *)
(* as configured; what it does to the forwarder is what DnsForwarder       *)
(* allows, so that the theorems about that hold in the engine too; and     *)
(* neither a query's task nor a call of the engine goes on for ever.       *)
(***************************************************************************)
EXTENDS TunEngine, FiniteSetTheorems, TLAPS

NotYetReplied == \A q \in Queries : query[q] # "none" => replies[q] = 0

ForwarderInv ==
    /\ TypeOK
    /\ PermitsAreConserved
    /\ NotYetReplied
    /\ AtMostOneReply

\* There are finitely many tasks, so that they can be counted.
LEMMA InFlightFinite ==
    /\ InFlight \subseteq Queries /\ IsFiniteSet(InFlight)
    /\ Cardinality(InFlight) \in Nat
BY QueriesAssumption, FS_Subset, FS_CardinalityType DEF InFlight

\* One task more, one task less, or other labels for the same tasks.
LEMMA TaskComes ==
    ASSUME query \in [Queries -> {"none", "sent"} \cup Asking], NEW q \in Queries, NEW s \in Asking,
           query[q] \notin Asking, query' = [query EXCEPT ![q] = s]
    PROVE  Cardinality(InFlight') = Cardinality(InFlight) + 1
<1>1. InFlight' = InFlight \cup {q} /\ q \notin InFlight
  BY DEF InFlight
<1> QED BY <1>1, InFlightFinite, FS_AddElement

LEMMA TaskGoes ==
    ASSUME query \in [Queries -> {"none", "sent"} \cup Asking], NEW q \in Queries,
           query[q] \in Asking, query' = [query EXCEPT ![q] = "none"]
    PROVE  /\ Cardinality(InFlight') = Cardinality(InFlight) - 1
           /\ Cardinality(InFlight) > 0
<1>1. InFlight' = InFlight \ {q} /\ q \in InFlight
  BY DEF InFlight, Asking
<1>2. Cardinality(InFlight) # 0
  BY <1>1, InFlightFinite, FS_EmptySet
<1> QED BY <1>1, <1>2, InFlightFinite, FS_RemoveElement

LEMMA SameTasks ==
    ASSUME query \in [Queries -> {"none", "sent"} \cup Asking],
           \A q \in Queries : query'[q] \in Asking <=> query[q] \in Asking
    PROVE  InFlight' = InFlight
BY DEF InFlight

-----------------------------------------------------------------------------
(* The engine. *)

\* No task is left when the port is bound, so the new semaphore has all its permits.
LEMMA BindKeeps ==
    ASSUME ForwarderInv, Bind
    PROVE  ForwarderInv'
<1>1. /\ query' = [q \in Queries |-> IF query[q] = "sent" THEN "none" ELSE query[q]]
      /\ limit' = MAX_IN_FLIGHT /\ serving' = "up" /\ UNCHANGED <<asked, replies, alive>>
      /\ InFlight = {}
  BY DEF Bind, SocketFree
<1>2. InFlight' = {}
  BY <1>1 DEF InFlight, Asking
<1>3. TypeOK'
  BY <1>1, LimitAssumption DEF ForwarderInv, TypeOK
<1>4. PermitsAreConserved'
  BY <1>1, <1>2, LimitAssumption, FS_EmptySet DEF PermitsAreConserved
<1>5. NotYetReplied' /\ AtMostOneReply'
  BY <1>1 DEF ForwarderInv, TypeOK, NotYetReplied, AtMostOneReply
<1> QED BY <1>3, <1>4, <1>5 DEF ForwarderInv

\* The process takes its tasks and their permits with it.
LEMMA KilledKeeps ==
    ASSUME ForwarderInv, Killed
    PROVE  ForwarderInv'
<1>1. /\ query' = [q \in Queries |-> "none"] /\ asked' = [q \in Queries |-> 1]
      /\ limit' = MAX_IN_FLIGHT /\ serving' = "none" /\ UNCHANGED <<replies, alive>>
  BY DEF Killed
<1>2. InFlight' = {}
  BY <1>1 DEF InFlight, Asking
<1>3. TypeOK'
  BY <1>1, LimitAssumption, UpstreamsAssumption DEF ForwarderInv, TypeOK
<1>4. PermitsAreConserved'
  BY <1>1, <1>2, LimitAssumption, FS_EmptySet DEF PermitsAreConserved
<1>5. NotYetReplied' /\ AtMostOneReply'
  BY <1>1 DEF ForwarderInv, TypeOK, NotYetReplied, AtMostOneReply
<1> QED BY <1>3, <1>4, <1>5 DEF ForwarderInv

LEMMA HandleKeeps ==
    ASSUME ForwarderInv, Stop \/ Dropped \/ Flap
    PROVE  ForwarderInv'
<1>1. /\ UNCHANGED <<limit, query, asked, replies>> /\ serving' \in {"none", "up", "aborted"}
      /\ alive' \subseteq 1 .. Upstreams
  BY DEF Stop, Dropped, Flap, ForwarderInv, TypeOK
<1> QED
  BY <1>1 DEF ForwarderInv, TypeOK, PermitsAreConserved, NotYetReplied, AtMostOneReply, InFlight

-----------------------------------------------------------------------------
(* serve. *)

LEMMA ReceiveKeeps ==
    ASSUME ForwarderInv, NEW q \in Queries, Receive(q)
    PROVE  ForwarderInv'
<1>1. /\ query[q] = "sent" /\ limit > 0 /\ limit' = limit - 1
      /\ query' = [query EXCEPT ![q] = "connect"]
      /\ UNCHANGED <<serving, asked, replies, alive>>
  BY DEF Receive
<1>2. TypeOK'
  BY <1>1, LimitAssumption, UpstreamsAssumption DEF ForwarderInv, TypeOK, Asking
<1>3. PermitsAreConserved'
  <2>1. Cardinality(InFlight') = Cardinality(InFlight) + 1
    BY <1>1, TaskComes DEF ForwarderInv, TypeOK, Asking
  <2> QED
    BY <1>1, <2>1, InFlightFinite, LimitAssumption DEF ForwarderInv, TypeOK, PermitsAreConserved
<1>4. NotYetReplied' /\ AtMostOneReply'
  BY <1>1 DEF ForwarderInv, TypeOK, NotYetReplied, AtMostOneReply
<1> QED BY <1>2, <1>3, <1>4 DEF ForwarderInv

\* A query that waits in the socket goes without a task having been spawned for it.
LEMMA QueueKeeps ==
    ASSUME ForwarderInv, NEW q \in Queries, Shed(q) \/ Send(q) \/ Lost(q)
    PROVE  ForwarderInv'
<1>1. /\ UNCHANGED <<serving, limit, asked, alive>>
      /\ \/ /\ query' = [query EXCEPT ![q] = "none"] /\ replies' = replies
            /\ query[q] = "sent"
         \/ /\ query' = [query EXCEPT ![q] = "sent"] /\ replies' = [replies EXCEPT ![q] = 0]
            /\ query[q] = "none"
  BY DEF Shed, Send, Lost
<1>2. TypeOK' /\ NotYetReplied' /\ AtMostOneReply'
  BY <1>1 DEF ForwarderInv, TypeOK, NotYetReplied, AtMostOneReply
<1>3. InFlight' = InFlight
  BY <1>1, SameTasks DEF ForwarderInv, TypeOK, Asking
<1>4. PermitsAreConserved'
  BY <1>1, <1>3 DEF ForwarderInv, PermitsAreConserved
<1> QED BY <1>2, <1>4 DEF ForwarderInv

-----------------------------------------------------------------------------
(* The task of a query. *)

LEMMA GoesOnKeeps ==
    ASSUME ForwarderInv, NEW q \in Queries, query[q] \in Asking, NEW s \in Asking,
           query' = [query EXCEPT ![q] = s], asked' \in [Queries -> 1 .. Upstreams],
           UNCHANGED <<serving, limit, replies, alive>>
    PROVE  ForwarderInv'
<1>1. TypeOK' /\ NotYetReplied' /\ AtMostOneReply'
  BY DEF ForwarderInv, TypeOK, NotYetReplied, AtMostOneReply, Asking
<1>2. InFlight' = InFlight
  BY SameTasks DEF ForwarderInv, TypeOK
<1>3. PermitsAreConserved'
  BY <1>2 DEF ForwarderInv, PermitsAreConserved
<1> QED BY <1>1, <1>3 DEF ForwarderInv

\* The task's permit goes back, with or without a reply to the query.
LEMMA EndKeeps ==
    ASSUME ForwarderInv, NEW q \in Queries, query[q] \in Asking, End(q),
           replies' = replies \/ replies' = [replies EXCEPT ![q] = @ + 1],
           UNCHANGED <<serving, alive>>
    PROVE  ForwarderInv'
<1>1. /\ query' = [query EXCEPT ![q] = "none"] /\ limit' = limit + 1
      /\ asked' = [asked EXCEPT ![q] = 1]
  BY DEF End
<1>2. Cardinality(InFlight') = Cardinality(InFlight) - 1 /\ Cardinality(InFlight) > 0
  BY <1>1, TaskGoes DEF ForwarderInv, TypeOK
<1>3. limit + Cardinality(InFlight) = MAX_IN_FLIGHT /\ limit \in 0 .. MAX_IN_FLIGHT
  BY DEF ForwarderInv, TypeOK, PermitsAreConserved
<1>4. limit' \in 0 .. MAX_IN_FLIGHT /\ PermitsAreConserved'
  BY <1>1, <1>2, <1>3, InFlightFinite, LimitAssumption DEF PermitsAreConserved
<1>5. replies[q] = 0
  BY DEF ForwarderInv, NotYetReplied, Asking
<1>6. TypeOK'
  BY <1>1, <1>4, <1>5, UpstreamsAssumption DEF ForwarderInv, TypeOK
<1>7. NotYetReplied' /\ AtMostOneReply'
  BY <1>1, <1>5 DEF ForwarderInv, TypeOK, NotYetReplied, AtMostOneReply
<1> QED BY <1>4, <1>6, <1>7 DEF ForwarderInv

LEMMA NextUpstreamKeeps ==
    ASSUME ForwarderInv, NEW q \in Queries, query[q] \in Asking, NextUpstream(q),
           UNCHANGED <<serving, replies, alive>>
    PROVE  ForwarderInv'
<1>1. CASE asked[q] < Upstreams /\ asked' = [asked EXCEPT ![q] = @ + 1]
           /\ query' = [query EXCEPT ![q] = "connect"] /\ UNCHANGED limit
  <2>1. asked' \in [Queries -> 1 .. Upstreams]
    BY <1>1, UpstreamsAssumption DEF ForwarderInv, TypeOK
  <2> QED BY <1>1, <2>1, GoesOnKeeps DEF Asking
<1>2. CASE End(q)
  BY <1>2, EndKeeps
<1> QED BY <1>1, <1>2 DEF NextUpstream

LEMMA AskKeeps ==
    ASSUME ForwarderInv, NEW q \in Queries, Ask(q)
    PROVE  ForwarderInv'
<1>1. CASE Connected(q)
  BY <1>1, GoesOnKeeps DEF Connected, ForwarderInv, TypeOK, Asking
<1>2. CASE LengthRead(q)
  BY <1>2, GoesOnKeeps DEF LengthRead, ForwarderInv, TypeOK, Asking
<1>3. CASE Answered(q)
  BY <1>3, EndKeeps DEF Answered, Asking
<1>4. CASE AskFails(q)
  BY <1>4, NextUpstreamKeeps DEF AskFails
<1> QED BY <1>1, <1>2, <1>3, <1>4 DEF Ask

-----------------------------------------------------------------------------

LEMMA ForwarderInitHolds == Init => ForwarderInv
<1>1. SUFFICES ASSUME Init PROVE ForwarderInv
  OBVIOUS
<1>2. TypeOK
  BY <1>1, LimitAssumption, UpstreamsAssumption DEF Init, TypeOK
<1>3. InFlight = {}
  BY <1>1 DEF Init, InFlight, Asking
<1>4. PermitsAreConserved
  BY <1>1, <1>3, FS_EmptySet, LimitAssumption DEF Init, PermitsAreConserved
<1> QED BY <1>1, <1>2, <1>4 DEF Init, ForwarderInv, NotYetReplied, AtMostOneReply

LEMMA ForwarderStepKeeps == ForwarderInv /\ [Next]_vars => ForwarderInv'
<1>1. SUFFICES ASSUME ForwarderInv, [Next]_vars PROVE ForwarderInv'
  OBVIOUS
<1>2. CASE Next
  BY <1>1, <1>2, BindKeeps, KilledKeeps, HandleKeeps, ReceiveKeeps, QueueKeeps, AskKeeps
     DEF Next, Forwarding
<1>3. CASE UNCHANGED vars
  BY <1>1, <1>3
     DEF vars, ForwarderInv, TypeOK, PermitsAreConserved, NotYetReplied, AtMostOneReply, InFlight
<1> QED BY <1>1, <1>2, <1>3

\* The variables keep their types: no permit is given back that was not taken.
THEOREM ForwarderTypeCorrect == Spec => []TypeOK
<1>1. ForwarderInv => TypeOK
  BY DEF ForwarderInv
<1> QED BY <1>1, ForwarderInitHolds, ForwarderStepKeeps, PTL DEF Spec

\* No permit is lost, over every way a task can end, aborts and restarts.
THEOREM PermitsCorrect == Spec => []PermitsAreConserved
<1>1. ForwarderInv => PermitsAreConserved
  BY DEF ForwarderInv
<1> QED BY <1>1, ForwarderInitHolds, ForwarderStepKeeps, PTL DEF Spec

\* No query is answered twice, whatever the upstreams do.
THEOREM RepliesCorrect == Spec => []AtMostOneReply
<1>1. ForwarderInv => AtMostOneReply
  BY DEF ForwarderInv
<1> QED BY <1>1, ForwarderInitHolds, ForwarderStepKeeps, PTL DEF Spec

-----------------------------------------------------------------------------
(* How long a query's task has to live. *)

\* How many awaits of ask it has before it, over all the upstreams it may still try.
AwaitsLeft(q) ==
    CASE query[q] = "connect" -> 3 * (Upstreams - asked[q]) + 3
      [] query[q] = "length"  -> 3 * (Upstreams - asked[q]) + 2
      [] query[q] = "body"    -> 3 * (Upstreams - asked[q]) + 1
      [] OTHER                -> 0

\* A task stands where it is, or comes nearer to its end.
TaskNearer(q) ==
    query[q] \in Asking =>
        \/ query'[q] = query[q] /\ asked'[q] = asked[q]
        \/ AwaitsLeft(q)' < AwaitsLeft(q)

LEMMA AwaitsValues ==
    ASSUME TypeOK, NEW q \in Queries
    PROVE  /\ AwaitsLeft(q) \in 0 .. 3 * Upstreams
           /\ query[q] = "connect" => AwaitsLeft(q) = 3 * (Upstreams - asked[q]) + 3
           /\ query[q] = "length" => AwaitsLeft(q) = 3 * (Upstreams - asked[q]) + 2
           /\ query[q] = "body" => AwaitsLeft(q) = 3 * (Upstreams - asked[q]) + 1
           /\ query[q] = "none" => AwaitsLeft(q) = 0
<1>1. /\ asked[q] \in 1 .. Upstreams /\ query[q] \in {"none", "sent"} \cup Asking
      /\ Upstreams \in Nat
  BY UpstreamsAssumption DEF TypeOK
<1> QED BY <1>1 DEF AwaitsLeft, Asking

LEMMA TaskNears ==
    ASSUME TypeOK, TypeOK', NEW q \in Queries, Ask(q)
    PROVE  /\ AwaitsLeft(q)' < AwaitsLeft(q)
           /\ \A r \in Queries \ {q} : query'[r] = query[r] /\ asked'[r] = asked[r]
<1>1. /\ query \in [Queries -> {"none", "sent"} \cup Asking]
      /\ asked \in [Queries -> 1 .. Upstreams] /\ Upstreams \in Nat
      /\ asked[q] \in 1 .. Upstreams
  BY UpstreamsAssumption DEF TypeOK
<1> DEFINE
      Next1 == /\ query[q] = "connect" /\ query' = [query EXCEPT ![q] = "length"]
               /\ asked' = asked
      Next2 == /\ query[q] = "length" /\ query' = [query EXCEPT ![q] = "body"]
               /\ asked' = asked
      Over  == /\ query[q] \in Asking /\ query' = [query EXCEPT ![q] = "none"]
               /\ asked' = [asked EXCEPT ![q] = 1]
      Again == /\ query[q] \in Asking /\ query' = [query EXCEPT ![q] = "connect"]
               /\ asked' = [asked EXCEPT ![q] = asked[q] + 1]
<1>2. Next1 \/ Next2 \/ Over \/ Again
  BY DEF Ask, Connected, LengthRead, Answered, AskFails, NextUpstream, End, Asking
<1>3. CASE Next1 \/ Next2
  <2>1. /\ asked'[q] = asked[q]
        /\ \/ query[q] = "connect" /\ query'[q] = "length"
           \/ query[q] = "length" /\ query'[q] = "body"
    BY <1>1, <1>3
  <2>2. AwaitsLeft(q)' < AwaitsLeft(q)
    BY <1>1, <2>1 DEF AwaitsLeft
  <2> QED BY <1>1, <1>3, <2>2
<1>4. CASE Over
  <2>1. query'[q] = "none" /\ query[q] \in {"connect", "length", "body"}
    BY <1>1, <1>4 DEF Asking
  <2>2. AwaitsLeft(q)' < AwaitsLeft(q)
    BY <1>1, <2>1 DEF AwaitsLeft
  <2> QED BY <1>1, <1>4, <2>2
<1>5. CASE Again
  <2>1. /\ query'[q] = "connect" /\ query[q] \in {"connect", "length", "body"}
        /\ asked'[q] = asked[q] + 1
    BY <1>1, <1>5 DEF Asking
  <2>2. AwaitsLeft(q)' < AwaitsLeft(q)
    BY <1>1, <2>1 DEF AwaitsLeft
  <2> QED BY <1>1, <1>5, <2>2
<1> QED BY <1>2, <1>3, <1>4, <1>5

\* The task of a query is over after at most three awaits per upstream, whatever the
\* upstreams, the other tasks and the engine do meanwhile: so the socket it holds is given
\* back, and a new forwarder can bind it.
THEOREM QueriesEnd ==
    Spec => [](\A q \in Queries : AwaitsLeft(q) \in 0 .. 3 * Upstreams)
            /\ [][\A q \in Queries : TaskNearer(q)]_vars
<1>1. ForwarderInv => \A q \in Queries : AwaitsLeft(q) \in 0 .. 3 * Upstreams
  BY AwaitsValues DEF ForwarderInv
<1>2. ForwarderInv /\ ForwarderInv' /\ [Next]_vars => [\A q \in Queries : TaskNearer(q)]_vars
  <2>1. SUFFICES ASSUME ForwarderInv, ForwarderInv', Next, NEW q \in Queries, query[q] \in Asking
                 PROVE  \/ query'[q] = query[q] /\ asked'[q] = asked[q]
                        \/ AwaitsLeft(q)' < AwaitsLeft(q)
    BY DEF TaskNearer
  <2>2. /\ query \in [Queries -> {"none", "sent"} \cup Asking]
        /\ asked \in [Queries -> 1 .. Upstreams] /\ Upstreams \in Nat
        /\ TypeOK /\ TypeOK'
    BY <2>1, UpstreamsAssumption DEF ForwarderInv, TypeOK
  <2>3. query[q] \in {"connect", "length", "body"}
    BY <2>1 DEF Asking
  <2>4. CASE Bind \/ Stop \/ Dropped \/ Flap
    BY <2>2, <2>3, <2>4 DEF Bind, Stop, Dropped, Flap
  <2>5. CASE Killed
    <3>1. query'[q] = "none"
      BY <2>5 DEF Killed
    <3>2. AwaitsLeft(q)' = 0
      BY <3>1 DEF AwaitsLeft
    <3>3. AwaitsLeft(q) > 0
      BY <2>2, <2>3 DEF AwaitsLeft
    <3> QED BY <3>2, <3>3
  <2>6. ASSUME NEW r \in Queries, Receive(r) \/ Shed(r) \/ Send(r) \/ Lost(r)
        PROVE  query'[q] = query[q] /\ asked'[q] = asked[q]
    BY <2>2, <2>3, <2>6 DEF Receive, Shed, Send, Lost
  <2>7. ASSUME NEW r \in Queries, Ask(r)
        PROVE  \/ query'[q] = query[q] /\ asked'[q] = asked[q]
               \/ AwaitsLeft(q)' < AwaitsLeft(q)
    BY <2>2, <2>7, TaskNears
  <2> QED BY <2>1, <2>4, <2>5, <2>6, <2>7 DEF Next, Forwarding
<1> QED BY <1>1, <1>2, ForwarderInitHolds, ForwarderStepKeeps, PTL DEF Spec

-----------------------------------------------------------------------------
(* The engine in the tunnel: what each step of a start or stop may rely on. *)

OwnTypes ==
    /\ up \in BOOLEAN /\ started \in BOOLEAN /\ slipped \in BOOLEAN
    /\ step \in StopSteps \cup BringSteps \cup {"idle"} /\ after \in {"config", "idle"}
    /\ profile \in Profiles
    /\ child \in {"none", "alive", "dead"}
    /\ system \in Systems
    /\ serving \in {"none", "up", "aborted"}

\* Only a daemon that runs calls; nothing of the process outlives it.
CallInv ==
    /\ step # "idle" => up /\ ~started
    /\ ~up => child = "none" /\ ~started /\ serving # "up"

\* What a stop has undone so far stays undone until a start does it again.
UndoneInv ==
    /\ step \in {"kill", "link", "unrule", "unlink"} \cup BringSteps => serving # "up"
    /\ step \in {"link", "unrule", "unlink", "config", "spawn"} => child = "none"
    /\ ~slipped =>
         /\ step \in {"unrule", "unlink", "config", "spawn"} => system.device = "none"
         /\ step \in {"unlink"} \cup (BringSteps \ {"bind"}) => ~system.rule
         /\ step = "config" => ~system.config

\* What bring_up has done so far is there; the device, if the child lives.
DoneInv ==
    ~slipped =>
        /\ step \in BringSteps \ {"config"} => system.config
        /\ step \in {"wait", "address"} => system.device \in {"none", "bare"}
        /\ step = "address" /\ child = "alive" => system.device = "bare"
        /\ step = "routes" /\ child = "alive" => system.device = "addressed"
        /\ step \in {"rule", "bind"} /\ child = "alive" => system.device = "routed"
        /\ step = "bind" => system.rule = profile.udp_direct /\ profile.dns_proxied
        /\ step = "rule" => profile.udp_direct

EngineInv ==
    /\ OwnTypes /\ CallInv /\ UndoneInv /\ DoneInv
    /\ NothingIsLeft /\ TunnelIsAsConfigured

-----------------------------------------------------------------------------
(* The forwarder in the engine. *)

LEMMA StepForwards == [EngineNext]_allVars => [Next]_vars
<1>1. StopEngine => [Next]_vars
  BY DEF StopEngine, AbortDns, KillChild, RemoveRule, Remove, Next
<1>2. BringUp => [Next]_vars
  BY DEF BringUp, WriteConfig, Spawn, DeviceSeen, SetAddress, SetRoutes, AddRule, BindDns, Next
<1>3. Crash => [Next]_vars
  BY DEF Crash, Next
<1>4. BringUpFails \/ StopCalled \/ (\E p \in Profiles : Start(p)) \/ CreateDevice
        \/ ChildDies \/ Restart => [Next]_vars
  BY DEF BringUpFails, StopCalled, Start, CreateDevice, ChildDies, Restart
<1>5. Forwarding => [Next]_vars
  BY DEF Next
<1>6. UNCHANGED allVars => [Next]_vars
  BY DEF allVars
<1> QED BY <1>1, <1>2, <1>3, <1>4, <1>5, <1>6 DEF EngineNext, Engine

\* To the forwarder the engine is one of those DnsForwarder allows.
THEOREM Forwards == EngineSpec => Spec
<1>1. EngineInit => Init
  BY DEF EngineInit
<1> QED BY <1>1, StepForwards, PTL DEF EngineSpec, Spec

\* So no permit is lost in it, over starts that fail, stops and crashes.
THEOREM PermitsInEngine == EngineSpec => []PermitsAreConserved
BY Forwards, PermitsCorrect, PTL

-----------------------------------------------------------------------------
(* The engine.  One lemma per group of steps. *)

LEMMA StopKeeps ==
    ASSUME EngineInv, StopEngine
    PROVE  EngineInv'
<1>1. up /\ ~started /\ OwnTypes
  BY DEF EngineInv, CallInv, StopEngine, AbortDns, KillChild, RemoveRule, Remove
<1>2. CASE AbortDns
  <2>1. serving' # "up" /\ serving' \in {"none", "aborted", "up"}
    BY <1>1, <1>2 DEF AbortDns, Stop, OwnTypes, vars
  <2> QED BY <1>1, <1>2, <2>1
    DEF AbortDns, EngineInv, OwnTypes, CallInv, UndoneInv, DoneInv, NothingIsLeft,
        TunnelIsAsConfigured, Idle, Running, StopSteps, BringSteps
<1>3. CASE KillChild
  BY <1>1, <1>3 DEF KillChild, Orphaned, vars, EngineInv, OwnTypes, CallInv, UndoneInv, DoneInv,
     NothingIsLeft, TunnelIsAsConfigured, Idle, Running, StopSteps, BringSteps, Systems, Devices
<1>4. CASE Remove("link", "device", "unrule")
  BY <1>1, <1>4 DEF Remove, Clean, vars, EngineInv, OwnTypes, CallInv, UndoneInv, DoneInv,
     NothingIsLeft, TunnelIsAsConfigured, Idle, Running, StopSteps, BringSteps, Systems, Devices
<1>5. CASE RemoveRule
  BY <1>1, <1>5 DEF RemoveRule, Remove, Clean, vars, EngineInv, OwnTypes, CallInv, UndoneInv,
     DoneInv, NothingIsLeft, TunnelIsAsConfigured, Idle, Running, StopSteps, BringSteps,
     Systems, Devices
<1>6. CASE Remove("unlink", "config", after)
  <2>1. /\ step = "unlink" /\ step' = after
        /\ UNCHANGED <<vars, up, after, profile, child, started>>
        /\ system' \in Systems /\ slipped' \in BOOLEAN
        /\ system'.device = system.device /\ system'.rule = system.rule
        /\ ~slipped' => ~slipped /\ ~system'.config
    BY <1>1, <1>6 DEF Remove, Clean, OwnTypes, Systems
  <2>2. ~slipped' => system'.device = "none" /\ ~system'.rule /\ ~system'.config
    BY <2>1 DEF EngineInv, UndoneInv
  <2>3. child = "none" /\ serving # "up" /\ serving' = serving
    BY <2>1 DEF EngineInv, UndoneInv, vars
  <2>4. ~slipped' => system' = Clean
    BY <2>1, <2>2 DEF Systems, Clean
  <2>5. step' \in {"config", "idle"}
    BY <1>1, <2>1 DEF OwnTypes
  <2>6. OwnTypes' /\ CallInv'
    BY <1>1, <2>1, <2>3, <2>5 DEF OwnTypes, CallInv, BringSteps
  <2>7. UndoneInv' /\ DoneInv'
    BY <2>1, <2>2, <2>3, <2>5 DEF UndoneInv, DoneInv, BringSteps
  <2>8. NothingIsLeft' /\ TunnelIsAsConfigured'
    BY <1>1, <2>1, <2>3, <2>4 DEF NothingIsLeft, TunnelIsAsConfigured, Running
  <2> QED BY <2>6, <2>7, <2>8 DEF EngineInv
<1> QED BY <1>2, <1>3, <1>4, <1>5, <1>6 DEF StopEngine

LEMMA BringUpKeeps ==
    ASSUME EngineInv, BringUp
    PROVE  EngineInv'
<1>1. step \in BringSteps /\ up /\ ~started /\ OwnTypes
  BY DEF EngineInv, CallInv, BringUp, WriteConfig, Spawn, DeviceSeen, SetAddress, SetRoutes,
     AddRule, BindDns, Bring, BringSteps
<1>2. CASE WriteConfig \/ Spawn \/ DeviceSeen \/ SetAddress
  BY <1>1, <1>2 DEF WriteConfig, Spawn, DeviceSeen, SetAddress, Bring, Possible, vars, EngineInv,
     OwnTypes, CallInv, UndoneInv, DoneInv, NothingIsLeft, TunnelIsAsConfigured, Idle, Running,
     StopSteps, BringSteps, Systems, Devices
<1>3. CASE SetRoutes
  BY <1>1, <1>3 DEF SetRoutes, Served, Bring, Possible, vars, EngineInv,
     OwnTypes, CallInv, UndoneInv, DoneInv, NothingIsLeft, TunnelIsAsConfigured, Idle, Running,
     StopSteps, BringSteps, Systems, Devices, Profiles
<1>4. CASE AddRule
  BY <1>1, <1>4 DEF AddRule, Served, Bring, Possible, vars, EngineInv,
     OwnTypes, CallInv, UndoneInv, DoneInv, NothingIsLeft, TunnelIsAsConfigured, Idle, Running,
     StopSteps, BringSteps, Systems, Devices, Profiles
<1>5. CASE BindDns
  BY <1>1, <1>5 DEF BindDns, Bind, Bring, Possible, vars, EngineInv,
     OwnTypes, CallInv, UndoneInv, DoneInv, NothingIsLeft, TunnelIsAsConfigured, Idle, Running,
     StopSteps, BringSteps, Systems, Devices, Profiles
<1> QED BY <1>2, <1>3, <1>4, <1>5 DEF BringUp

\* A stop that begins has nothing to know.
LEMMA CallKeeps ==
    ASSUME EngineInv, up', NEW then \in {"config", "idle"}, CallStop(then),
           profile' \in Profiles, system' \in Systems, UNCHANGED <<vars, child>>
    PROVE  EngineInv'
BY DEF CallStop, vars, EngineInv, OwnTypes, CallInv, UndoneInv, DoneInv, NothingIsLeft,
   TunnelIsAsConfigured, Idle, Running, StopSteps, BringSteps

LEMMA CallsKeep ==
    ASSUME EngineInv,
           BringUpFails \/ StopCalled \/ Restart \/ \E p \in Profiles : Start(p)
    PROVE  EngineInv'
<1>1. OwnTypes /\ NoProfile \in Profiles
  BY DEF EngineInv, NoProfile, Profiles
<1>2. CASE BringUpFails
  <2>1. HalfDone \subseteq Systems
    BY <1>1 DEF HalfDone, OwnTypes, Systems
  <2>2. up
    BY <1>2 DEF BringUpFails, EngineInv, CallInv, BringSteps
  <2> QED BY <1>1, <1>2, <2>1, <2>2, CallKeeps DEF BringUpFails, JustStop
<1>3. CASE StopCalled
  BY <1>1, <1>3, CallKeeps DEF StopCalled, JustStop, Idle, OwnTypes
<1>4. CASE Restart
  BY <1>1, <1>4, CallKeeps DEF Restart, JustStop, OwnTypes
<1>5. CASE \E p \in Profiles : Start(p)
  BY <1>1, <1>5, CallKeeps DEF Start, Idle, OwnTypes
<1> QED BY <1>2, <1>3, <1>4, <1>5

LEMMA OutsideKeeps ==
    ASSUME EngineInv, CreateDevice \/ ChildDies \/ Crash
    PROVE  EngineInv'
<1>1. CASE CreateDevice
  BY <1>1 DEF CreateDevice, vars, EngineInv, OwnTypes, CallInv, UndoneInv, DoneInv,
     NothingIsLeft, TunnelIsAsConfigured, Idle, Running, StopSteps, BringSteps, Systems, Devices
<1>2. CASE ChildDies
  BY <1>2 DEF ChildDies, Orphaned, vars, EngineInv, OwnTypes, CallInv, UndoneInv, DoneInv,
     NothingIsLeft, TunnelIsAsConfigured, Idle, Running, StopSteps, BringSteps, Systems, Devices
<1>3. CASE Crash
  BY <1>3 DEF Crash, Killed, Orphaned, NoProfile, Profiles, EngineInv, OwnTypes, CallInv,
     UndoneInv, DoneInv, NothingIsLeft, TunnelIsAsConfigured, Idle, Running, StopSteps,
     BringSteps, Systems, Devices
<1> QED BY <1>1, <1>2, <1>3

\* The forwarder's own tasks leave the engine's handle alone.
LEMMA ForwardingKeeps ==
    ASSUME EngineInv, Forwarding, UNCHANGED engineVars
    PROVE  EngineInv'
<1>1. /\ serving' \in {"none", "up", "aborted"}
      /\ serving' = "up" <=> serving = "up"
  BY DEF EngineInv, OwnTypes, Forwarding, Dropped, Flap, Receive, Shed, Ask, Connected, LengthRead,
     Answered, AskFails, Send, Lost
<1> QED BY <1>1 DEF engineVars, EngineInv, OwnTypes, CallInv, UndoneInv, DoneInv, NothingIsLeft,
   TunnelIsAsConfigured, Idle, Running

LEMMA EngineInitHolds == EngineInit => EngineInv
<1>1. SUFFICES ASSUME EngineInit PROVE EngineInv
  OBVIOUS
<1>2. /\ up = TRUE /\ step = "idle" /\ after = "idle" /\ profile = NoProfile
      /\ child = "none" /\ system = Clean /\ started = FALSE /\ slipped = FALSE
      /\ serving = "none"
  BY <1>1 DEF EngineInit, Init
<1>3. NoProfile \in Profiles /\ Clean \in Systems
  BY DEF NoProfile, Profiles, Clean, Systems, Devices
<1>4. OwnTypes /\ CallInv
  BY <1>2, <1>3 DEF OwnTypes, CallInv
<1>5. UndoneInv /\ DoneInv
  BY <1>2 DEF UndoneInv, DoneInv, BringSteps
<1>6. NothingIsLeft /\ TunnelIsAsConfigured
  BY <1>2 DEF NothingIsLeft, TunnelIsAsConfigured, Running
<1> QED BY <1>4, <1>5, <1>6 DEF EngineInv

LEMMA EngineStepKeeps == EngineInv /\ [EngineNext]_allVars => EngineInv'
<1>1. SUFFICES ASSUME EngineInv, [EngineNext]_allVars PROVE EngineInv'
  OBVIOUS
<1>2. CASE Engine
  BY <1>1, <1>2, StopKeeps, BringUpKeeps, CallsKeep, OutsideKeeps DEF Engine
<1>3. CASE Forwarding /\ UNCHANGED engineVars
  BY <1>1, <1>3, ForwardingKeeps
<1>4. CASE UNCHANGED allVars
  BY <1>1, <1>4 DEF allVars, vars, engineVars, EngineInv, OwnTypes, CallInv, UndoneInv, DoneInv,
     NothingIsLeft, TunnelIsAsConfigured, Idle, Running
<1> QED BY <1>1, <1>2, <1>3, <1>4 DEF EngineNext

-----------------------------------------------------------------------------
(* Theorems. *)

\* What each step of a start or stop may rely on.
THEOREM EngineInvariance == EngineSpec => []EngineInv
BY EngineInitHolds, EngineStepKeeps, PTL DEF EngineSpec

\* The variables of the engine and of its forwarder keep their types.
THEOREM EngineTypeCorrect == EngineSpec => []EngineTypeOK
<1>1. TypeOK /\ EngineInv => EngineTypeOK
  BY DEF EngineInv, OwnTypes, EngineTypeOK
<1> QED BY <1>1, Forwards, ForwarderTypeCorrect, EngineInvariance, PTL

\* A start that failed at any step, and a daemon that died in one, leave nothing.
THEOREM NothingLeftCorrect == EngineSpec => []NothingIsLeft
<1>1. EngineInv => NothingIsLeft
  BY DEF EngineInv
<1> QED BY <1>1, EngineInvariance, PTL

\* No start runs into what another left.
THEOREM NothingInTheWayCorrect == EngineSpec => []NothingInTheWay
<1>1. EngineInv => NothingInTheWay
  BY DEF EngineInv, UndoneInv, DoneInv, NothingInTheWay, BringSteps
<1> QED BY <1>1, EngineInvariance, PTL

\* A tunnel that runs is the one its profile asks for.
THEOREM ConfiguredCorrect == EngineSpec => []TunnelIsAsConfigured
<1>1. EngineInv => TunnelIsAsConfigured
  BY DEF EngineInv
<1> QED BY <1>1, EngineInvariance, PTL

-----------------------------------------------------------------------------
(* How long a call has to run. *)

\* The steps of stop that are left, and those of bring_up until it succeeds.
StopLeft ==
    [abort |-> 5, kill |-> 4, link |-> 3, unrule |-> 2, unlink |-> 1]
BringLeft ==
    [config |-> 12, spawn |-> 11, wait |-> 10, address |-> 9, routes |-> 8, rule |-> 7, bind |-> 6]

\* A start stops first (12 more steps follow), and any step of bring_up may be the one that
\* fails and stops again.
CallLeft ==
    IF step \in StopSteps THEN StopLeft[step] + IF after = "config" THEN 12 ELSE 0
    ELSE IF step \in BringSteps THEN BringLeft[step]
    ELSE 0

\* A call stands where it is, or comes nearer to its end.
CallNearer ==
    step # "idle" =>
        \/ UNCHANGED <<step, after>>
        \/ CallLeft' < CallLeft

LEMMA CallValues ==
    ASSUME OwnTypes
    PROVE  CallLeft \in 0 .. 17
BY DEF OwnTypes, CallLeft, StopLeft, BringLeft, StopSteps, BringSteps

\* Every start and every stop of the engine is over after at most seventeen steps of its
\* own, whatever fails in it and whatever happens around it: an error in bring_up leads into
\* one more stop, never back into bring_up.
THEOREM CallsEnd == EngineSpec => [](CallLeft \in 0 .. 17) /\ [][CallNearer]_allVars
<1>1. EngineInv => CallLeft \in 0 .. 17
  BY CallValues DEF EngineInv
<1>2. EngineInv /\ EngineInv' /\ [EngineNext]_allVars => [CallNearer]_allVars
  <2>1. SUFFICES ASSUME EngineInv, EngineInv', EngineNext, step # "idle"
                 PROVE  UNCHANGED <<step, after>> \/ CallLeft' < CallLeft
    BY DEF CallNearer
  <2>2. OwnTypes /\ OwnTypes' /\ up
    BY <2>1 DEF EngineInv, CallInv
  <2>3. CASE StopEngine
    <3>1. \/ step = "abort" /\ step' = "kill" /\ after' = after
          \/ step = "kill" /\ step' = "link" /\ after' = after
          \/ step = "link" /\ step' = "unrule" /\ after' = after
          \/ step = "unrule" /\ step' = "unlink" /\ after' = after
          \/ step = "unlink" /\ step' = after /\ after' = after
      BY <2>3 DEF StopEngine, AbortDns, KillChild, RemoveRule, Remove
    <3>2. after \in {"config", "idle"}
      BY <2>2 DEF OwnTypes
    <3> QED BY <3>1, <3>2 DEF CallLeft, StopLeft, BringLeft, StopSteps, BringSteps
  <2>4. CASE BringUp
    <3>1. \/ step = "config" /\ step' = "spawn"
          \/ step = "spawn" /\ step' = "wait"
          \/ step = "wait" /\ step' = "address"
          \/ step = "address" /\ step' = "routes"
          \/ step = "routes" /\ step' \in {"rule", "bind", "idle"}
          \/ step = "rule" /\ step' \in {"bind", "idle"}
          \/ step = "bind" /\ step' = "idle"
      BY <2>4 DEF BringUp, WriteConfig, Spawn, DeviceSeen, SetAddress, SetRoutes, AddRule, BindDns,
         Bring, Served
    <3> QED BY <3>1 DEF CallLeft, BringLeft, StopSteps, BringSteps
  <2>5. CASE BringUpFails
    <3>1. step \in BringSteps /\ step' = "abort" /\ after' = "idle"
      BY <2>5 DEF BringUpFails, JustStop, CallStop
    <3> QED BY <3>1 DEF CallLeft, StopLeft, BringLeft, StopSteps, BringSteps
  <2>6. CASE Crash
    <3>1. step' = "idle"
      BY <2>6 DEF Crash
    <3>2. step \in StopSteps \cup BringSteps
      BY <2>1, <2>2 DEF OwnTypes
    <3> QED BY <3>1, <3>2 DEF CallLeft, StopLeft, BringLeft, StopSteps, BringSteps
  <2>7. ~StopCalled /\ ~Restart /\ ~\E p \in Profiles : Start(p)
    BY <2>1, <2>2 DEF StopCalled, Restart, Start, Idle
  <2>8. CASE CreateDevice \/ ChildDies
    BY <2>8 DEF CreateDevice, ChildDies
  <2>9. CASE UNCHANGED engineVars
    BY <2>9 DEF engineVars
  <2> QED BY <2>1, <2>3, <2>4, <2>5, <2>6, <2>7, <2>8, <2>9 DEF EngineNext, Engine
<1> QED BY <1>1, <1>2, EngineInvariance, PTL DEF EngineSpec

-----------------------------------------------------------------------------
(* What the daemon may take the engine for. *)

\* Between two calls there is a child, alive or dead, exactly if the last call was a start
\* that succeeded: the one value ProxyDaemon has for the engine.
AnswerIsTrue == step = "idle" => (started <=> child # "none")

\* Once spawned the child is the engine's until a stop takes it.
ChildInv == AnswerIsTrue /\ (step \in BringSteps \ {"config", "spawn"} => child # "none")

\* Whatever fails in a start, dies under it or could not be removed before: a start that
\* returned an error has no child left, and one that succeeded has one, if a dead one; so
\* start, stop and is_running together look like one step to the daemon.
THEOREM AnswerCorrect == EngineSpec => []AnswerIsTrue
<1>1. EngineInit => ChildInv
  BY DEF EngineInit, ChildInv, AnswerIsTrue, BringSteps
<1>2. EngineInv /\ ChildInv /\ [EngineNext]_allVars => ChildInv'
  <2>1. SUFFICES ASSUME EngineInv, ChildInv, [EngineNext]_allVars PROVE ChildInv'
    OBVIOUS
  <2>2. OwnTypes /\ CallInv /\ UndoneInv
    BY <2>1 DEF EngineInv
  <2>3. CASE AbortDns \/ KillChild
    BY <2>2, <2>3 DEF AbortDns, KillChild, ChildInv, AnswerIsTrue, BringSteps
  <2>4. CASE Remove("link", "device", "unrule") \/ RemoveRule
    BY <2>2, <2>4 DEF RemoveRule, Remove, ChildInv, AnswerIsTrue, BringSteps
  <2>5. CASE Remove("unlink", "config", after)
    <3>1. step' = after /\ after \in {"config", "idle"} /\ child' = "none" /\ ~started'
      BY <2>2, <2>5 DEF Remove, OwnTypes, CallInv, UndoneInv
    <3> QED BY <3>1 DEF ChildInv, AnswerIsTrue, BringSteps
  <2>6. CASE WriteConfig
    BY <2>6 DEF WriteConfig, Bring, ChildInv, AnswerIsTrue
  <2>7. CASE Spawn
    BY <2>7 DEF Spawn, Bring, ChildInv, AnswerIsTrue
  <2>8. CASE DeviceSeen \/ SetAddress \/ SetRoutes \/ AddRule \/ BindDns
    <3>1. step \in BringSteps \ {"config", "spawn"} /\ child' = child /\ started' = (step' = "idle")
      BY <2>8 DEF DeviceSeen, SetAddress, SetRoutes, AddRule, BindDns, Bring, BringSteps
    <3> QED BY <2>1, <3>1 DEF ChildInv, AnswerIsTrue
  <2>9. CASE BringUpFails \/ StopCalled \/ Restart \/ \E p \in Profiles : Start(p)
    BY <2>9 DEF BringUpFails, StopCalled, Restart, Start, JustStop, CallStop, ChildInv,
       AnswerIsTrue, BringSteps
  <2>10. CASE CreateDevice \/ ChildDies
    BY <2>1, <2>10 DEF CreateDevice, ChildDies, ChildInv, AnswerIsTrue
  <2>11. CASE Crash
    BY <2>11 DEF Crash, ChildInv, AnswerIsTrue, BringSteps
  <2>12. CASE UNCHANGED engineVars
    BY <2>1, <2>12 DEF engineVars, ChildInv, AnswerIsTrue
  <2> QED
    BY <2>1, <2>3, <2>4, <2>5, <2>6, <2>7, <2>8, <2>9, <2>10, <2>11, <2>12
       DEF EngineNext, Engine, StopEngine, BringUp, allVars
<1>3. ChildInv => AnswerIsTrue
  BY DEF ChildInv
<1> QED BY <1>1, <1>2, <1>3, EngineInvariance, PTL DEF EngineSpec
=============================================================================
