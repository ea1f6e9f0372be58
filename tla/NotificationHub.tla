--------------------------- MODULE NotificationHub ---------------------------
(***************************************************************************)
(* notification-service (internal/notification): the hub of WebSocket      *)
(* connections by order, the handler of each connection with its pinger,   *)
(* and the consumers that broadcast the events of their topic.             *)
(*                                                                         *)
(* Each replica has a hub of its own, while the replicas share one         *)
(* consumer group per topic, whose single partition one of them reads.     *)
(* External, modelled from how the code uses them: the group, the browser, *)
(* and the WebSocket library, which allows one writer at a time and may    *)
(* panic when there are two.                                               *)
(***************************************************************************)
EXTENDS Naturals, Sequences

CONSTANTS
  Replicas,    \* processes of notification-service
  NoReplica,   \* the partition has no owner
  Topics,      \* topics consumed
  Orders,
  NoOrder,     \* the event names a rider; or the rider has no active order
  Conns,       \* connections; each is used once
  MaxEvents,   \* bound: events of one topic
  MaxFaults    \* bound: rebalances and crashes

ASSUME NoReplicaAssumption == NoReplica \notin Replicas
ASSUME NoOrderAssumption == NoOrder \notin Orders
ASSUME BoundsAssumption == MaxEvents \in Nat /\ MaxFaults \in Nat

VARIABLES
  log,     \* log[t]: the orders the events of topic t are about
  offset,  \* offset[t]: events the group will not fetch again
  owner,   \* owner[t]: the replica that reads topic t
  position,  \* position[n][t]: the event the reader of n returned last
  jobs,    \* jobs[n][t]: what consumer t of replica n is doing
  hub,     \* hub[n][o]: Hub.conns of replica n; no entry is the empty set
  conns,   \* conns[c]: a connection and its handler
  ping,    \* ping[c]: its pinger
  owed,    \* owed[c]: events published since c subscribed to their order and
           \* not written to c yet (history variable)
  latest,  \* latest[c][t]: the furthest event of t written to c (history);
           \* both are forgotten when c is closed or its customer is gone
  faults   \* failures so far

groupVars == <<offset, owner, position>>
history == <<owed, latest>>
connVars == <<hub, conns, ping, history>>
vars == <<log, groupVars, jobs, connVars, faults>>

NoJob == [pc |-> "fetch", event |-> 0, todo |-> {}, now |-> {}, stalled |-> FALSE]

NewConn == [pc |-> "new", replica |-> NoReplica, order |-> NoOrder,
            closed |-> FALSE]

\* The types of the state, and no consumer reads or commits beyond what was
\* published.
\* todo: what is left of Broadcast's copy of the set; now: the connection
\* that is being written to, if any; stalled: its customer does not take it.
TypeOK ==
  /\ log \in [Topics -> Seq(Orders \union {NoOrder})]
  /\ offset \in [Topics -> 0..MaxEvents]
  /\ \A t \in Topics : offset[t] <= Len(log[t]) /\ Len(log[t]) <= MaxEvents
  /\ owner \in [Topics -> Replicas \union {NoReplica}]
  /\ position \in [Replicas -> [Topics -> 0..MaxEvents]]
  /\ \A n \in Replicas, t \in Topics : position[n][t] <= Len(log[t])
  /\ jobs \in [Replicas -> [Topics ->
       [pc    : {"fetch", "send"},
        event : 0..MaxEvents,
        todo  : SUBSET Conns,
        now   : SUBSET Conns,
        stalled : BOOLEAN]]]
  /\ hub \in [Replicas -> [Orders -> SUBSET Conns]]
  /\ conns \in [Conns ->
       [pc      : {"new", "reading", "leaving", "unregistered", "done"},
        replica : Replicas \union {NoReplica},
        order   : Orders \union {NoOrder},
        closed  : BOOLEAN]]
  /\ ping \in [Conns -> {"wait", "write", "stopped"}]
  /\ owed \in [Conns -> SUBSET (Topics \X (1..MaxEvents))]
  /\ latest \in [Conns -> [Topics -> 0..MaxEvents]]
  /\ faults \in 0..MaxFaults

Init ==
  /\ log = [t \in Topics |-> <<>>]
  /\ offset = [t \in Topics |-> 0]
  /\ owner = [t \in Topics |-> NoReplica]
  /\ position = [n \in Replicas |-> [t \in Topics |-> 0]]
  /\ jobs = [n \in Replicas |-> [t \in Topics |-> NoJob]]
  /\ hub = [n \in Replicas |-> [o \in Orders |-> {}]]
  /\ conns = [c \in Conns |-> NewConn]
  /\ ping = [c \in Conns |-> "stopped"]
  /\ owed = [c \in Conns |-> {}]
  /\ latest = [c \in Conns |-> [t \in Topics |-> 0]]
  /\ faults = 0

-----------------------------------------------------------------------------
(* The broker. *)

Fault ==
  /\ faults < MaxFaults
  /\ faults' = faults + 1

Open(c) == conns[c].pc = "reading" /\ ~conns[c].closed

\* The history of the connections in C ends.
Forget(C) ==
  /\ owed' = [c \in Conns |-> IF c \in C THEN {} ELSE owed[c]]
  /\ latest' = [c \in Conns |->
       IF c \in C THEN [t \in Topics |-> 0] ELSE latest[c]]

\* Some service publishes an event about order o, or (rider.location.updated)
\* one that names a rider and is for whatever order locateOrder finds when
\* it is handled.  A topic may hold both kinds here, which covers topics
\* that hold one.
Publish(t, o) ==
  /\ Len(log[t]) < MaxEvents
  /\ log' = [log EXCEPT ![t] = Append(@, o)]
  /\ owed' = [c \in Conns |->
       IF Open(c) /\ conns[c].order = o
         THEN owed[c] \union {<<t, Len(log[t]) + 1>>}
         ELSE owed[c]]
  /\ UNCHANGED <<groupVars, jobs, hub, conns, ping, latest, faults>>

\* The reader of the new owner starts after the committed offset, also when
\* the replica is still at an event it fetched when it owned the partition
\* before.
AssignPartition(n, t) ==
  /\ owner[t] = NoReplica
  /\ owner' = [owner EXCEPT ![t] = n]
  /\ position' = [position EXCEPT ![n][t] = offset[t]]
  /\ UNCHANGED <<log, offset, jobs, connVars, faults>>

\* A rebalance: the reader of the former owner is gone, the handler it is in
\* is not.
RevokePartition(t) ==
  /\ owner[t] # NoReplica
  /\ Fault
  /\ owner' = [owner EXCEPT ![t] = NoReplica]
  /\ position' = [position EXCEPT ![owner[t]][t] = 0]
  /\ UNCHANGED <<log, offset, jobs, connVars>>

-----------------------------------------------------------------------------
(* The handler of a connection. *)

\* GET /ws/order/:order_id: upgrade, Hub.Register, and the pinger starts.
Register(c, n, o) ==
  /\ conns[c].pc = "new"
  /\ conns' = [conns EXCEPT ![c] =
       [pc |-> "reading", replica |-> n, order |-> o, closed |-> FALSE]]
  /\ hub' = [hub EXCEPT ![n][o] = @ \union {c}]
  /\ ping' = [ping EXCEPT ![c] = "wait"]
  /\ UNCHANGED <<log, groupVars, jobs, history, faults>>

\* Mutant of ReadError: a connection closed by a broadcast is not noticed.
ReadErrorMissed(c) ==
  /\ conns[c].pc = "reading"
  /\ ~conns[c].closed
  /\ conns' = [conns EXCEPT ![c].pc = "leaving"]
  /\ ping' = [ping EXCEPT ![c] = IF @ = "wait" THEN "stopped" ELSE @]
  /\ Forget({c})
  /\ UNCHANGED <<log, groupVars, jobs, hub, faults>>

\* NextReader fails: the customer is gone, no pong came in time, or a
\* broadcast closed the connection.  The deferred calls begin; the first
\* stops the pinger, unless a ping is being written.
ReadError(c) ==
  /\ conns[c].pc = "reading"
  /\ conns' = [conns EXCEPT ![c].pc = "leaving"]
  /\ ping' = [ping EXCEPT ![c] = IF @ = "wait" THEN "stopped" ELSE @]
  /\ Forget({c})
  /\ UNCHANGED <<log, groupVars, jobs, hub, faults>>

\* Mutant of Unregister: the connection stays in the map.
UnregisterNothing(c) ==
  /\ conns[c].pc = "leaving"
  /\ conns' = [conns EXCEPT ![c].pc = "unregistered"]
  /\ UNCHANGED <<log, groupVars, jobs, hub, ping, history, faults>>

Unregister(c) ==
  /\ conns[c].pc = "leaving"
  /\ hub' = [hub EXCEPT ![conns[c].replica][conns[c].order] = @ \ {c}]
  /\ conns' = [conns EXCEPT ![c].pc = "unregistered"]
  /\ UNCHANGED <<log, groupVars, jobs, ping, history, faults>>

Close(c) ==
  /\ conns[c].pc = "unregistered"
  /\ conns' = [conns EXCEPT ![c].pc = "done", ![c].closed = TRUE]
  /\ UNCHANGED <<log, groupVars, jobs, hub, ping, history, faults>>

\* The ticker fires.
Ping(c) ==
  /\ ping[c] = "wait"
  /\ ping' = [ping EXCEPT ![c] = "write"]
  /\ UNCHANGED <<log, groupVars, jobs, hub, conns, history, faults>>

\* The ping is written; or it fails, and the pinger returns without touching
\* the connection.
PingReturns(c) ==
  /\ ping[c] = "write"
  /\ \/ ping' = [ping EXCEPT ![c] = "stopped"]
     \/ Open(c) /\ ping' = [ping EXCEPT ![c] = "wait"]
  /\ UNCHANGED <<log, groupVars, jobs, hub, conns, history, faults>>

-----------------------------------------------------------------------------
(* The consumers. *)

SetJob(n, t, j) == jobs' = [jobs EXCEPT ![n][t] = j]

\* The consumer fetches the next event; the handler decodes it, asks
\* locateOrder for the order if it names a rider, and Broadcast copies the
\* set under the read lock.  An event that is for no order is dropped.
Broadcast(n, t, o) ==
  /\ jobs[n][t] = NoJob
  /\ owner[t] = n
  /\ position[n][t] < Len(log[t])
  /\ log[t][position[n][t] + 1] \in {o, NoOrder}
  /\ position' = [position EXCEPT ![n][t] = @ + 1]
  /\ SetJob(n, t, [pc |-> "send", event |-> position[n][t] + 1, now |-> {},
                   todo |-> IF o \in Orders THEN hub[n][o] ELSE {},
                   stalled |-> FALSE])
  /\ UNCHANGED <<log, offset, owner, connVars, faults>>

\* WriteJSON is called for the next connection of the copy.
StartWrite(n, t, c) ==
  /\ jobs[n][t].pc = "send" /\ jobs[n][t].now = {}
  /\ c \in jobs[n][t].todo
  /\ SetJob(n, t, [jobs[n][t] EXCEPT !.todo = @ \ {c}, !.now = {c}])
  /\ UNCHANGED <<log, groupVars, connVars, faults>>

\* The customer, or the network, has stopped taking what is sent and the
\* buffers are full: WriteJSON blocks.  It is the environment's step.
WriteStalls(n, t, c) ==
  /\ jobs[n][t].now = {c} /\ ~jobs[n][t].stalled
  /\ Open(c)
  /\ SetJob(n, t, [jobs[n][t] EXCEPT !.stalled = TRUE])
  /\ UNCHANGED <<log, groupVars, connVars, faults>>

WriteReturns(n, t) ==
  SetJob(n, t, [jobs[n][t] EXCEPT !.now = {}, !.stalled = FALSE])

\* WriteJSON returns nil.
WriteOk(n, t, c) ==
  LET i == jobs[n][t].event
  IN  /\ jobs[n][t].now = {c} /\ ~jobs[n][t].stalled
      /\ ~conns[c].closed
      /\ owed' = [owed EXCEPT ![c] = @ \ {<<t, i>>}]
      /\ latest' = [latest EXCEPT ![c][t] = IF Open(c) /\ @ < i THEN i ELSE @]
      /\ WriteReturns(n, t)
      /\ UNCHANGED <<log, groupVars, hub, conns, ping, faults>>

\* Mutants of WriteFail: there is no SetWriteDeadline, so that a blocked
\* write ends only when the connection is closed; the connection is left open.
WriteFailNoDeadline(n, t, c) ==
  /\ jobs[n][t].now = {c}
  /\ jobs[n][t].stalled => conns[c].closed
  /\ conns' = [conns EXCEPT ![c].closed = TRUE]
  /\ Forget({c})
  /\ WriteReturns(n, t)
  /\ UNCHANGED <<log, groupVars, hub, ping, faults>>

WriteFailKeepsConn(n, t, c) ==
  /\ jobs[n][t].now = {c}
  /\ WriteReturns(n, t)
  /\ UNCHANGED <<log, groupVars, connVars, faults>>

\* WriteJSON fails, and the connection is closed: it was closed already, the
\* customer is gone, or the write was blocked until the deadline, five
\* seconds after it began.
WriteFail(n, t, c) ==
  /\ jobs[n][t].now = {c}
  /\ conns' = [conns EXCEPT ![c].closed = TRUE]
  /\ Forget({c})
  /\ WriteReturns(n, t)
  /\ UNCHANGED <<log, groupVars, hub, ping, faults>>

\* Broadcast returns when the copy is done with.
Sent(n, t) == jobs[n][t].pc = "send" /\ jobs[n][t].now = {} /\ jobs[n][t].todo = {}

\* Mutant of CommitMessages: it commits the event after this one too.
CommitMessagesOffByOne(n, t) ==
  /\ Sent(n, t)
  /\ owner[t] = n
  /\ offset' = [offset EXCEPT ![t] = jobs[n][t].event + 1]
  /\ SetJob(n, t, NoJob)
  /\ UNCHANGED <<log, owner, position, connVars, faults>>

\* The handler returns nil, as it does on every path, and the consumer
\* commits.
CommitMessages(n, t) ==
  /\ Sent(n, t)
  /\ owner[t] = n
  /\ offset' = [offset EXCEPT ![t] = jobs[n][t].event]
  /\ SetJob(n, t, NoJob)
  /\ UNCHANGED <<log, owner, position, connVars, faults>>

\* The commit fails, which is only logged; the broker refuses the one of a
\* replica that does not own the partition any more.
CommitError(n, t) ==
  /\ Sent(n, t)
  /\ \/ owner[t] # n /\ UNCHANGED faults
     \/ owner[t] = n /\ Fault
  /\ SetJob(n, t, NoJob)
  /\ UNCHANGED <<log, groupVars, connVars>>

-----------------------------------------------------------------------------

\* Two goroutines of n are writing to one connection: two consumers, or a
\* consumer and the pinger.
Overlap(n) ==
  \E c \in Conns, t \in Topics :
    /\ jobs[n][t].now = {c}
    /\ \/ ping[c] = "write"
       \/ \E u \in Topics \ {t} : jobs[n][u].now = {c}

\* The process dies, from a panic of overlapping writes or for a reason of
\* its own; connections, hub and what was being handled are gone.
Crash(n) ==
  /\ Overlap(n) \/ faults < MaxFaults
  /\ faults' = IF Overlap(n) THEN faults ELSE faults + 1
  /\ LET mine == {c \in Conns : conns[c].replica = n}
     IN  /\ conns' = [c \in Conns |-> IF c \in mine
              THEN [conns[c] EXCEPT !.pc = "done", !.closed = TRUE]
              ELSE conns[c]]
         /\ ping' = [c \in Conns |-> IF c \in mine THEN "stopped" ELSE ping[c]]
         /\ Forget(mine)
  /\ hub' = [hub EXCEPT ![n] = [o \in Orders |-> {}]]
  /\ jobs' = [jobs EXCEPT ![n] = [t \in Topics |-> NoJob]]
  /\ position' = [position EXCEPT ![n] = [t \in Topics |-> 0]]
  /\ owner' = [t \in Topics |-> IF owner[t] = n THEN NoReplica ELSE owner[t]]
  /\ UNCHANGED <<log, offset>>

order(c) == ReadError(c) \/ Unregister(c) \/ Close(c)

Consume(n, t) ==
  \/ \E o \in Orders \union {NoOrder} : Broadcast(n, t, o)
  \/ \E c \in Conns :
       StartWrite(n, t, c) \/ WriteOk(n, t, c) \/ WriteFail(n, t, c)
  \/ CommitMessages(n, t) \/ CommitError(n, t)

Next ==
  \/ \E t \in Topics :
       \/ \E o \in Orders \union {NoOrder} : Publish(t, o)
       \/ RevokePartition(t)
       \/ \E n \in Replicas : AssignPartition(n, t) \/ Consume(n, t)
       \/ \E n \in Replicas, c \in Conns : WriteStalls(n, t, c)
  \/ \E c \in Conns :
       \/ \E n \in Replicas, o \in Orders : Register(c, n, o)
       \/ order(c)
       \/ Ping(c) \/ PingReturns(c)
  \/ \E n \in Replicas : Crash(n)

Spec == Init /\ [][Next]_vars

\* Consumers and handlers go on: a read from a closed connection fails, a
\* write that is blocked ends when WriteFail lets it, and the group assigns
\* its partition.  No customer has to leave, not even one who takes nothing,
\* and a crash is not obliged to happen.
Fairness ==
  /\ \A t \in Topics :
       WF_vars(\E n \in Replicas : AssignPartition(n, t))
  /\ \A n \in Replicas, t \in Topics : WF_vars(Consume(n, t))
  /\ \A c \in Conns :
       WF_vars((conns[c].closed /\ ReadError(c)) \/ Unregister(c) \/ Close(c))

FairSpec == Spec /\ Fairness

-----------------------------------------------------------------------------

\* A customer who is connected misses nothing and gets nothing out of turn:
\* as long as an event is owed to an open connection, the group has not
\* moved past it, and no later event of its topic has reached the customer.
\* README.md: notification-service "Pushes real-time updates to subscribed
\* WebSocket clients (customers)".  It holds for one replica; with two, the
\* one that reads the topic is not always the one the customer is on.
SubscribersServed ==
  \A c \in Conns : \A e \in owed[c] :
    e[2] > offset[e[1]] /\ e[2] > latest[c][e[1]]

\* The hub forgets nobody who is connected and keeps nobody who is not: a
\* connection is in the map of its replica, under its order, exactly while
\* its handler is between Register and Unregister, whatever broadcasts, write
\* failures and crashes happen meanwhile.
HubMatchesHandlers ==
  \A n \in Replicas, o \in Orders :
    hub[n][o] = {c \in Conns : /\ conns[c].pc \in {"reading", "leaving"}
                               /\ conns[c].replica = n /\ conns[c].order = o}

\* "A write failure drops the connection (the read loop in handler will also
\* notice it and Unregister on its side)" (hub.go): whoever was dropped leaves
\* the hub; a time comes, again and again, when no closed connection is in it.
DroppedIsForgotten ==
  []<>(\A c \in Conns : conns[c].closed =>
         \A n \in Replicas, o \in Orders : c \notin hub[n][o])

\* A consumer has done with event i of topic t.
Through(n, t, i) == jobs[n][t] = NoJob /\ i <= position[n][t]

\* Every event is broadcast in the end, though customers may take nothing, be
\* gone or come and go: a time comes, again and again, when all that was
\* published is committed, or a consumer has done with it and its commit has
\* failed.  A customer who takes nothing holds the events of all the others
\* back, until the deadline of the write.
EventuallyBroadcast ==
  \A t \in Topics :
    []<>(\A i \in 1..Len(log[t]) :
           i <= offset[t] \/ \E n \in Replicas : Through(n, t, i))

-----------------------------------------------------------------------------
(***************************************************************************)
(* The inductive invariants the proofs use: IInv for any replicas,         *)
(* ServedIInv for a service that runs as one.                              *)
(***************************************************************************)

\* A connection has a replica and an order once its handler has started.
HandlersGrounded ==
  \A c \in Conns :
    /\ conns[c].pc = "new" => conns[c].replica = NoReplica
    /\ conns[c].pc # "new" =>
         conns[c].replica \in Replicas /\ conns[c].order \in Orders

\* A consumer at work has an event that was published, and one that is not
\* has nothing in its hands.
JobsGrounded ==
  \A n \in Replicas, t \in Topics :
    /\ jobs[n][t].event <= Len(log[t])
    /\ jobs[n][t].pc = "fetch" => jobs[n][t] = NoJob

\* What is owed was published, is about the customer's order, and is owed to
\* an open connection; nobody was sent what was not published.
HistoryGrounded ==
  /\ \A c \in Conns : \A e \in owed[c] :
       /\ Open(c)
       /\ e[2] <= Len(log[e[1]])
       /\ log[e[1]][e[2]] = conns[c].order
  /\ \A c \in Conns, t \in Topics : latest[c][t] <= Len(log[t])

IInv ==
  /\ TypeOK
  /\ HubMatchesHandlers
  /\ HandlersGrounded
  /\ JobsGrounded
  /\ HistoryGrounded

OneReplica == \A m, n \in Replicas : m = n

\* What is owed is still ahead of the reader, or in the consumer's hands ...
OwedIsAhead ==
  \A n \in Replicas, c \in Conns : \A e \in owed[c] :
    \/ e[2] > position[n][e[1]]
    \/ jobs[n][e[1]].pc = "send" /\ jobs[n][e[1]].event = e[2]

\* ... and no consumer is at a later event, nor at this one without having
\* the connection still to write to.
OwedIsInHand ==
  \A n \in Replicas, c \in Conns : \A e \in owed[c] :
    jobs[n][e[1]].pc = "send" =>
      \/ e[2] > jobs[n][e[1]].event
      \/ /\ e[2] = jobs[n][e[1]].event
         /\ c \in jobs[n][e[1]].todo \union jobs[n][e[1]].now

ServedIInv ==
  /\ OwedIsAhead
  /\ OwedIsInHand
  /\ SubscribersServed

=============================================================================
