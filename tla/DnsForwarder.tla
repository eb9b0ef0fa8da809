---------------------------- MODULE DnsForwarder ----------------------------
(***************************************************************************)
(* The DNS-over-TCP forwarder (proxywifi-daemon/src/dns.rs): one task that *)
(* receives queries, one task per query that asks the upstreams in order,  *)
(* a semaphore that bounds them, and the engine that starts and aborts the *)
(* receiving task around them (dataplane.rs, bring_up and stop).           *)
(*                                                                         *)
(* A query task outlives the task that spawned it, and keeps the UDP       *)
(* socket with it: a new forwarder cannot bind the port before it ended.   *)
(***************************************************************************)
EXTENDS Integers, FiniteSets

CONSTANTS
    Queries,       \* the queries that may be on their way at a time
    Upstreams,     \* how many resolvers are tried, in order
    MAX_IN_FLIGHT

ASSUME QueriesAssumption == IsFiniteSet(Queries)
ASSUME UpstreamsAssumption == Upstreams \in Nat \ {0}
ASSUME LimitAssumption == MAX_IN_FLIGHT \in Nat \ {0}

VARIABLES
    serving,  \* the task of serve: none, up, or aborted but not yet dropped
    limit,    \* permits left in the semaphore of that task
    query,    \* where each query is
    asked,    \* the upstream a query's task is asking, or will ask first
    replies,  \* replies sent for a query since it was sent
    alive     \* the upstreams that answer

vars == <<serving, limit, query, asked, replies, alive>>

\* "sent" is in the socket's buffer; the others are the awaits of ask.
Asking == {"connect", "length", "body"}

TypeOK ==
    /\ serving \in {"none", "up", "aborted"}
    /\ limit \in 0 .. MAX_IN_FLIGHT
    /\ query \in [Queries -> {"none", "sent"} \cup Asking]
    /\ asked \in [Queries -> 1 .. Upstreams]
    /\ replies \in [Queries -> Nat]
    /\ alive \subseteq 1 .. Upstreams

Init ==
    /\ serving = "none"
    /\ limit = MAX_IN_FLIGHT
    /\ query = [q \in Queries |-> "none"]
    /\ asked = [q \in Queries |-> 1]
    /\ replies = [q \in Queries |-> 0]
    /\ alive \in SUBSET (1 .. Upstreams)

InFlight == {q \in Queries : query[q] \in Asking}

-----------------------------------------------------------------------------
(* The engine. *)

\* Mutant: the port can be bound again at once.
MutSocketFree == serving = "none"

\* serve and every query task hold the socket.
SocketFree == serving = "none" /\ InFlight = {}

\* bring_up: bind, and spawn serve.  When the port is taken the start fails and
\* is tried again later.
Bind ==
    /\ SocketFree
    /\ serving' = "up"
    /\ limit' = MAX_IN_FLIGHT
    /\ query' = [q \in Queries |-> IF query[q] = "sent" THEN "none" ELSE query[q]]
    /\ UNCHANGED <<asked, replies, alive>>

\* stop: the handle is taken and the task aborted, which takes effect at its next await.
Stop ==
    /\ serving = "up"
    /\ serving' = "aborted"
    /\ UNCHANGED <<limit, query, asked, replies, alive>>

Dropped ==
    /\ serving = "aborted"
    /\ serving' = "none"
    /\ UNCHANGED <<limit, query, asked, replies, alive>>

\* The process ends, and its tasks and sockets with it.
Killed ==
    /\ serving' = "none" /\ limit' = MAX_IN_FLIGHT
    /\ query' = [q \in Queries |-> "none"]
    /\ asked' = [q \in Queries |-> 1]
    /\ UNCHANGED <<replies, alive>>

-----------------------------------------------------------------------------
(* serve. *)

\* The loop takes a query off the socket and spawns a task for it if there is a permit.
Receive(q) ==
    /\ serving # "none"
    /\ query[q] = "sent"
    /\ limit > 0
    /\ limit' = limit - 1
    /\ query' = [query EXCEPT ![q] = "connect"]
    /\ UNCHANGED <<serving, asked, replies, alive>>

\* Without one it sheds the query.
Shed(q) ==
    /\ serving # "none"
    /\ query[q] = "sent"
    /\ limit = 0
    /\ query' = [query EXCEPT ![q] = "none"]
    /\ UNCHANGED <<serving, limit, asked, replies, alive>>

-----------------------------------------------------------------------------
(* The task of a query. *)

\* Mutant: the permit is given back by the successful way out only.
MutEnd(q) ==
    /\ query' = [query EXCEPT ![q] = "none"]
    /\ limit' = IF asked[q] \in alive THEN limit + 1 ELSE limit
    /\ asked' = [asked EXCEPT ![q] = 1]

\* The task ends: it drops its permit, of the semaphore it was taken from, and the socket.
End(q) ==
    /\ query' = [query EXCEPT ![q] = "none"]
    /\ limit' = limit + 1
    /\ asked' = [asked EXCEPT ![q] = 1]

Connected(q) ==
    /\ query[q] = "connect" /\ asked[q] \in alive
    /\ query' = [query EXCEPT ![q] = "length"]
    /\ UNCHANGED <<serving, limit, asked, replies, alive>>

LengthRead(q) ==
    /\ query[q] = "length" /\ asked[q] \in alive
    /\ query' = [query EXCEPT ![q] = "body"]
    /\ UNCHANGED <<serving, limit, asked, replies, alive>>

\* The next upstream, or none is left.
NextUpstream(q) ==
    \/ /\ asked[q] < Upstreams
       /\ asked' = [asked EXCEPT ![q] = @ + 1]
       /\ query' = [query EXCEPT ![q] = "connect"]
       /\ UNCHANGED limit
    \/ /\ asked[q] = Upstreams
       /\ End(q)

\* Mutant: the loop goes on after an answer.
MutAnswered(q) ==
    /\ query[q] = "body" /\ asked[q] \in alive
    /\ replies' = [replies EXCEPT ![q] = @ + 1]
    /\ NextUpstream(q)
    /\ UNCHANGED <<serving, alive>>

Answered(q) ==
    /\ query[q] = "body" /\ asked[q] \in alive
    /\ replies' = [replies EXCEPT ![q] = @ + 1]
    /\ End(q)
    /\ UNCHANGED <<serving, alive>>

\* Mutant: only the connection has a time-out.
MutAskFails(q) ==
    /\ query[q] = "connect" /\ asked[q] \notin alive
    /\ NextUpstream(q)
    /\ UNCHANGED <<serving, replies, alive>>

\* Mutant: an error is returned instead of going on.
MutAskGivesUp(q) ==
    /\ query[q] \in Asking /\ asked[q] \notin alive
    /\ End(q)
    /\ UNCHANGED <<serving, replies, alive>>

\* An error, or one of the three time-outs.
AskFails(q) ==
    /\ query[q] \in Asking /\ asked[q] \notin alive
    /\ NextUpstream(q)
    /\ UNCHANGED <<serving, replies, alive>>

-----------------------------------------------------------------------------
(* Applications, the network and the resolvers. *)

\* The port is open as long as somebody holds the socket.
Send(q) ==
    /\ ~SocketFree
    /\ query[q] = "none"
    /\ query' = [query EXCEPT ![q] = "sent"]
    /\ replies' = [replies EXCEPT ![q] = 0]
    /\ UNCHANGED <<serving, limit, asked, alive>>

Lost(q) ==
    /\ query[q] = "sent"
    /\ query' = [query EXCEPT ![q] = "none"]
    /\ UNCHANGED <<serving, limit, asked, replies, alive>>

Flap ==
    /\ alive' \in SUBSET (1 .. Upstreams) \ {alive}
    /\ UNCHANGED <<serving, limit, query, asked, replies>>

-----------------------------------------------------------------------------

Ask(q) == Connected(q) \/ LengthRead(q) \/ Answered(q) \/ AskFails(q)

\* What goes on by itself, whatever the engine does.
Forwarding ==
    \/ Dropped \/ Flap
    \/ \E q \in Queries : Receive(q) \/ Shed(q) \/ Ask(q) \/ Send(q) \/ Lost(q)

Next == Bind \/ Stop \/ Killed \/ Forwarding

Spec == Init /\ [][Next]_vars

-----------------------------------------------------------------------------
(* Properties. *)

\* No permit is lost or given back twice, over every way a task can end and over
\* aborts and restarts of the forwarder; so the tasks of all generations together
\* never exceed the limit (dns.rs:54-72).
PermitsAreConserved ==
    limit + Cardinality(InFlight) = MAX_IN_FLIGHT

\* A query is answered at most once, though two upstreams may be able to.
AtMostOneReply == \A q \in Queries : replies[q] <= 1
=============================================================================
