# A TLA+ model of the rush delivery engine

This directory holds a specification of the delivery engine in `src/`: the
services that place, dispatch and track an order, the transactional outbox and
the Kafka loop that connect them. TLC checks the modules on small instances,
TLAPS proves the main invariants for every instance. `PROJECT.json` lists the
runs, the theorems, the hazards of the code, and, for each definition, the lines
of source it models.

## The system

| Part | State | Operations | Talks to |
|---|---|---|---|
| order state machine (`internal/order/statemachine.go`) | none | `ValidateTransition` | order-service |
| order-service (`internal/order`) | tables `orders`, `order_events`, `outbox` | place, change status, cancel | Postgres |
| rider-service (`internal/rider`) | table `riders`, Redis index `riders:geo` | register, set status | Postgres, then Redis |
| location-service (`internal/location`) | `riders:geo` | position update over a WebSocket | Redis, then Kafka |
| assignment-service (`internal/assignment`) | all four tables, `riders:geo` | handle `order.placed`: search, claim, give up | Kafka → Redis → Postgres → Redis |
| outbox relay (`internal/outbox`) | `outbox.sent_at` | poll, publish, mark | Postgres ↔ Kafka; one relay in every replica of order-service and of assignment-service |
| consumer loop (`pkg/kafka/consumer.go`) | reader position, group offset | fetch, handle, commit | Kafka → the handlers of three services |
| notification-service (`internal/notification`) | connections by order, in memory | subscribe, broadcast, ping, drop | Kafka → WebSockets |
| eta-service (`internal/eta`) | `orders.eta_minutes` | handle a position | Kafka → Postgres → Kafka |
| rate limiter (`pkg/middleware`) | one sorted set per customer in Redis | allow | Redis; in front of order-service |
| processes (`cmd/*/main.go`, `pkg/kafka/admin.go`) | resources opened, goroutines started | start, serve, shut down; `EnsureTopics` | the broker, Postgres, signals |

What is hard in it: two stores (Postgres and Redis) that no transaction spans; a
read that is validated before the transaction that writes; several workers and
relays on the same rows; at-least-once delivery, so that everything may happen
again; a consumer offset that says nothing about single messages; state in the
memory of one replica while the events are shared by all; a failure or crash
between any two calls.

What makes the parts correct:

- **dispatch**: a rider is claimed by one order at a time; the order row and its
  events agree; statuses follow the transition table; an order
  does not hang in `PLACED`; no rider who could have been claimed is passed over;
- **outbox**: exactly the committed events are published, each at least once
  and again only after a failure, no publishing begins after the mark, and in order
  per order;
- **consumer**: no message is passed over;
- **notification**: a connected customer gets every event of the order; the hub
  does not leak connections;
- **tracking**: every position of a rider with an order becomes an ETA, measured
  to the right end, of an order that is not over, and the customer is told what
  the row says;
- **rate limiter**: at most so many requests per window pass, and nobody is
  refused who did not make that many;
- **processes**: consumers find their topics; a shutdown cuts off no transaction,
  pulls nothing from under a handler, and ends.

## Modules

| Module | Models |
|---|---|
| `OrderStateMachine` | statuses, `validTransitions`, `ValidateTransition` |
| `Store` | tables and geo index shared by the services, and the events written to them |
| `OrderService` | `Place`; `Transition` (read and validate) and `UpdateStatus` (write) as two steps of a request slot; `AbortRequest` |
| `RiderPool` | `Register`; `SetStatus` (Postgres) and `SyncGeo` (Redis) as two steps; `UpdateLocation` |
| `AssignmentService` | `Assign` and the loop over its candidates, one transaction per candidate; the ZREM; `MarkCancelled`; errors, a lost answer to COMMIT, the death of a worker |
| `Dispatch` | the composition of the four above, its properties and inductive invariant |
| `EventStream` | what the outbox promises, abstractly |
| `OutboxRelay` | `outbox.Write` in transactions that commit or roll back, and `dispatch` of several relays, with connections lost while they publish and copies that arrive late; refines `EventStream` |
| `KafkaConsumer` | the loop of `Consumer.Run` in a group with rebalances |
| `NotificationHub` | `Hub`, the connection handler, its pinger, and the consumers that broadcast |
| `Tracking` | the position pipeline: `UpdateLocation` of location-service and `OnLocation` of eta-service as the handler of `KafkaConsumer`, which it extends, over rows that claims and status requests change |
| `RateLimiter` | `SlidingWindow`: the four commands of a pipeline as four steps, for one key |
| `ServiceLifecycle` | `run()` of the six services and `EnsureTopics`: one process from start to end |
| `MC*` | what the runs instantiate: symmetry sets |
| `*Proofs` | the theorems of `Dispatch`, `OutboxRelay`, `KafkaConsumer`, `Tracking` (which reuses those of `KafkaConsumer`), `RateLimiter`, `NotificationHub` and `ServiceLifecycle` |

Definitions whose comment calls them mutants are never used by a specification:
each is a variant with a plausible bug, and the property it is listed with in
`PROJECT.json` fails when it replaces the original.

### How state and actions correspond to the code

- **A Postgres transaction is one step.** Every transaction of the services that
  writes an event first updates or inserts the row of its order. Under READ
  COMMITTED the second UPDATE of a row waits for the first transaction and looks
  at the row again, so their effects are those of one after the other, and the
  events of one order get ids in commit order (`outbox[o]`, `order_events[o]`).
  `OutboxRelay` does not use this simplification: there, insertion and commit
  are two steps, and ids of different orders become visible out of order.
- **Steps end where another process can interfere**: between the read and the
  write of `Transition`, between the Postgres and the Redis call of `SetStatus`,
  between the claims of one `Assign`, between a claim and its ZREM, between the
  publishes of a batch, between the writes of one broadcast.
- **Data that no property looks at is left out**: coordinates (which riders the
  search returns, and in what order, is any choice from the index), money,
  addresses, times, trace context, JSON. Requests that are refused before they
  touch a table change nothing and are not actions.
- **History variables**: `stint[r]` counts the periods of availability of a rider
  and takes the place of `assigned_at` in an event, so that two claims of one
  period can be told apart from two claims of two periods; `found`, `since` and
  `errored` in a worker's record; `contended` in `OutboxRelay`; `handled` and
  `failed` in `KafkaConsumer`; `owed` and `latest` in `NotificationHub`; `history`
  and `cut` in `Tracking`; `attempts`, `passed`, `refused` and `lost` in
  `RateLimiter`; `timedOut` and `cut` in `ServiceLifecycle`. No guard reads them,
  except the bounds on `stint` and `faults`.
- **Failures** are counted in `faults` up to `MaxFaults`, so that a behaviour has
  finitely many. Refused requests, lost races and clients that leave are not
  failures and are not counted.
- **External**: Kafka's group protocol and kafka-go's reader (one owner of a
  partition, who starts at the group's offset; `FetchMessage` returns the next
  message whether or not the one before was committed; a commit by a member that
  lost the partition is refused); gorilla/websocket (one concurrent writer, a
  possible panic otherwise). A topic has one partition, as `EnsureTopics` makes
  it. In `OutboxRelay` all topics are one log, which keeps more order than the
  topics do; `InOrder` fails even there.
- In `Dispatch` a worker may be handed `order.placed` up to `MaxDeliveries`
  times once it was written to the outbox; that the relay and the consumer
  really behave like that (at least once, after commit) is what `OutboxRelay`
  and `KafkaConsumer` show.
- In `OutboxRelay` the locks of a batch belong to the relay's transaction (`tx`) and
  not to its goroutine. `dispatch` makes no call to Postgres between the SELECT and
  the UPDATE, so when its connection is lost meanwhile (`ConnectionLost`) the rows are
  free for another relay to take, publish and mark, while this one goes on
  publishing them until its UPDATE fails (`MarkFails`). `Rollback` is the case in which
  `dispatch` itself ends. A copy handed to the broker whose answer is not awaited
  (`WriteMessages` tries again, or returns the error of its context) is counted in
  `inflight` and may be appended at any later time, also after the mark, or never
  (`Arrive`). A relay whose transaction is left to Postgres by a process that died
  counts as one more relay until the server ends it. `EventStream` distinguishes
  accordingly between the beginning of a delivery and its arrival: what is settled
  is not begun again, but may still arrive.
- In `NotificationHub` `WriteStalls` is the environment: a customer who stays
  connected and takes nothing makes a write block. `WriteOk` is then impossible, and
  only `WriteFail`, which stands for the deadline of five seconds, ends the write.
  Removing the deadline (the mutant `WriteFailNoDeadline`) leaves a blocked write on
  an open connection waiting, while one on a closed connection fails at once.
  A pinger starts its write while the handler is reading. A
  ping that starts after the read loop has ended, because ticker and `done` are
  both ready, leads to the same state as one that started just before. The reader
  of a replica has a `position` of its own, which goes on although a commit failed
  (the code only logs it) and starts again at the group's offset when the
  partition is assigned anew; `EventuallyBroadcast` therefore asks that an event is
  committed or that a consumer is through with it.
- In `Tracking` a status is what `OnLocation` tells apart: not picked up
  (`PLACED`), `PICKED_UP`, or over (`DELIVERED`, which stands for `CANCELLED` too).
  Claims and status changes come in any order, because requests validate against
  rows that may have changed and claims look at no status (`Dispatch`); a status
  that leads back is recorded as stale in `history`. An ETA is the pair of the
  position it was computed from and the end it was measured to; the minutes are
  floating-point arithmetic. `UpdateLocation` is the publish: its GEOADD is in
  `RiderPool`.
- In `RateLimiter` the key is that of one identity. The limiter runs before the
  authentication middleware, so the identity of a request is its `X-Customer-Id`
  header; a request without one is not throttled and not modelled. `Requests` are
  single requests, each made once. A member of the set is the time of a request, so
  that two requests with one reading of the clock count once; `passed` and `refused`
  hold requests, not times, so that this is visible: `WindowRespected` says that of
  more than `Limit` requests let through in a span two had the same reading, and with
  distinct readings the limit is kept. EXPIRE does nothing on a key that has gone, and
  a set that is emptied has no key. A nanosecond time does not fit a float64: `Grain` is the
  distance at which two scores may coincide (256 ns in the code's range), and the
  choice in `ZRemRangeByScore` is whether they do. `MaxDelay` is the longest a
  pipeline takes, retries included, which the timeouts of the Redis client bound
  to seconds against a window of a minute. One clock stands for those of all
  replicas and of Redis. `lost` holds the requests whose record is incomplete:
  those whose pipeline was given up (the middleware then lets the request through, uncounted)
  and those that lost the key to its expiry.
- In `ServiceLifecycle` the service is any of the six, chosen in `Init`; `Boot` is
  the sequence of the steps its `run()` takes, and `at` the next of them. A goroutine is reduced to idle,
  busy, or holding a connection of the pool. A loop whose context is cancelled
  may still take a message or tick that is ready (Go's `select` chooses any), but
  gets no connection any more. A reader begins to join its group in the background as
  soon as `NewConsumer` makes it, which is why `ReadersHaveTopics` speaks of the moment
  the readers are made. Other processes appear through the topics they
  create.

## Runs

| Run | Instance | Shows |
|---|---|---|
| `dispatch_claims` | 2 orders, 2 riders, 2 workers, 1 rider request at a time, 1 failure | `ClaimOncePerStint`, `NoRiderOverlooked`, `OutboxMirrorsOrder`, `ClaimsPerDelivery` |
| `dispatch_lifecycle` | 1 order, 1 rider with 2 stints, 1 worker, 2 status requests, 2 deliveries, no failure | `TypeOK`, `CausalHistory`, `OutboxMirrorsOrder`, `OnlyClaimedRidersDropOut`, and `PlacedIsResolved` under fairness |
| `relay` | 2 orders, 2 relays, 3 rows, batches of 2, 2 failures | `TypeOK`, `SentWasPublished`, `BatchesExclusive`, `CopiesPerFault`, `UncontendedInOrder`, the refinement `ImplementsStream`, and `EventuallySent` |
| `tracking` | 2 replicas, 1 rider, 2 positions, 2 orders, 3 changes of rows, 1 failure or restart | `TrackingTypeOK`, `CommittedWasTried`, `PositionWasTried`, `FailedPassedByLater`, `TargetFollowsPickup`, `NoEtaAfterEnd`, `RowWasAnnounced`, `OlderOnlyOnRepeat`, and `EventuallyTried`, `EtaCatchesUp` under fairness |
| `ratelimit` | 4 requests, limit 1, window 4, delay 1, grain 2, 6 ticks, 1 failure | `TypeOK`, `WindowRespected`, `RefusedOnlyWhenBusy`, `KeyIsReaped` |
| `lifecycle` | any of the six services, 2 failures or crashes, a broker with no, one or all topics | `TypeOK`, `ReadersHaveTopics`, `NoTransactionCut`, `HandlersOutlived`, and `StopsInTheEnd` under fairness |
| `notification` | 1 replica, 1 topic with 2 events, 2 connections, 1 failure | `TypeOK`, `SubscribersServed`, `HubMatchesHandlers`, `DroppedIsForgotten`, `EventuallyBroadcast` |
| `stale_transition` | 1 order, 2 status requests | `TerminalIsFinal` fails |
| `redelivery` | 1 order, 2 riders, 2 deliveries | `AssignedOnce` fails |
| `relay_order` | as `relay`, no failure | `InOrder` fails |
| `consumer_skip` | 2 members, 3 messages, 1 failure | `FailedIsRedelivered` fails |
| `notification_replicas` | 2 replicas, 1 connection | `SubscribersServed` fails |

**Bounds.** Every race in the code is between two processes over one or two rows,
so two of each process that competes suffice for it to happen: two workers and
two riders let each worker win, lose and go on to the next candidate; two status
requests let both validate before either writes; two relays with three rows and
batches of two give a full batch, a partial one, and a batch taken around
another's, and two failures are enough for a relay that has lost its locks to work
beside another one, and for a copy to arrive after the mark. `MaxRows` bounds an order to four outbox rows, enough for a placed
order that is assigned, moved on and cancelled against a stale read. `Limit` is the
COUNT of the search (10 in the code) and is not smaller than the number of riders
in a run. One topic in `notification` stands for any of the four; writes of two
consumers to one connection have the same outcome there as writes of a consumer
and the pinger. In `tracking`, two positions and two replicas give a handler that
is still at work on the first when the second has been handled by the other; two
orders make the newer hide the older; three changes are a claim, a pickup and an
end. In `ratelimit`, six ticks are longer than a window with a pipeline on
either side, so that a key expires while a request is under way; four requests are
two with one reading, one that is refused, and one that comes after the window. The proofs do
not depend on these bounds.

`CHECK_DEADLOCK` is off because all systems here may come to rest: the constants
bound how much happens, and a system where everything was handled waits.

**Fairness.** A running handler goes on with its calls (`AssignmentStep`,
`dispatch`, `Run`, `Consume`), because goroutines are scheduled and every call
returns or fails; the relay's ticker keeps firing after an error (`Run`, "will
retry next tick"); a group gives a partition without an owner to a member; a read
from a closed connection fails. That a blocked write to a customer ends is not
assumed as such: it ends because `WriteFail` is possible at the deadline, and the
customer is under no obligation to read or to leave. In `Tracking` the calls of `OnLocation` return as
well. In `ServiceLifecycle` `run()` goes on unless it is blocked, transactions
and the handlers of messages end (weak fairness), and a consumer loop whose
context is cancelled does not for ever pick the other branch of its `select`
(strong fairness on `Stop`); the relay, requests and sockets need not end.
Customers, riders, requests, failures and
rebalances have no fairness. Liveness is therefore claimed only when failures
stop: `PlacedIsResolved` says so itself, the others through `MaxFaults`.
`EventuallySent`, `DroppedIsForgotten` and `EventuallyBroadcast` have the form `[]<>P`,
where `P` says that nothing is left undone at all; this implies that each row, dropped
connection or event is seen to in the end. A copy in flight need not arrive.
`PlacedIsResolved` is checked without failures at all, since its conclusion
holds trivially after one.

### Where code and text disagree

1. `stale_transition`: `Transition` validates a status it read before its
   transaction, and the UPDATE names only the id. Two requests on one order can
   move a cancelled order on (`order/service.go:54`, `order/repository.go:126`).
   What remains true is `CausalHistory`: each status follows from one the order
   has had.
2. `redelivery`: `outbox.go` calls the handling of `order.placed` idempotent since
   the claim is status-guarded; the guard is on the rider, not on the order, so a
   second delivery takes a second rider and the first stays BUSY. What remains
   true is `ClaimOncePerStint`, and `ClaimsPerDelivery`: one delivery takes one
   rider, and another only after a failure.
3. `relay_order`: SKIP LOCKED lets two relays work on consecutive rows of one
   order. What remains true is `UncontendedInOrder`, and it survives relays that go on
   without their locks and copies that arrive late: those only add duplicates, at most
   one for each failure (`CopiesPerFault`).
4. `consumer_skip`: a message whose handler failed is not fetched again by the
   same reader, and the next commit moves the offset past it. What remains true
   is `CommittedWasTried`, and `FailedPassedByLater`: it takes the success of a
   later message.
5. `notification_replicas`: replicas share the consumer group and not the hub.
   With one replica `SubscribersServed` holds.

A sixth disagreement needs no interleaving. The repository's README calls
`order_events` a "log of every state transition" (`src/README.md:54`) that "stores the
full history" (`src/README.md:562`), but `markCancelled`
(`assignment/service.go:107`) cancels an order without a row there. The promise is
false; what the theorem `AuditIsFaithful` states is how much of it is left: these
cancellations are the only changes the log misses, and it has the others in the order
of the outbox.

Some properties hold by stating exactly where the code stops short. The ZREM after a
claim is not tied to the claim: if the rider has come back in between, it takes an
AVAILABLE rider out of the index, which `rider/service.go` means to keep in sync.
`OnlyClaimedRidersDropOut` says that this happens only to riders an earlier claim of
whom was announced. `TargetFollowsPickup` and `NoEtaAfterEnd` are about positions sent
after the pickup or the end; a handler that read the row before and writes after is
allowed its stale ETA. `RowWasAnnounced` excuses handlers whose publish failed or whose
replica died, and no others. `HandlersOutlived` excuses open WebSockets and the relay,
which nothing waits for and which may find their producer closed; the repository
lists "Graceful consumer shutdown on SIGTERM" as still to do (`src/README.md:585`), and
for the handlers of messages the property shows that none is left running.
`SubscribersServed` and `HubMatchesHandlers` hold in spite of overlapping writes to
one connection, as far as these end in a panic and the death of the process; that
they overlap is not excluded.

## Proofs

The theorems hold for all values of the constants that satisfy the named
assumptions (`NoRiderAssumption`, `MaxFaultsAssumption`, `MaxStintsAssumption`,
`LimitAssumption`, `BatchSizeAssumption`, `WindowAssumption`, `NoReplicaAssumption`,
`NoOrderAssumption`, `BoundsAssumption`, ...: that NULL is no rider, no replica and
no order, that bounds are natural numbers, that a batch has room for a row, that a
pipeline takes less than a window). TLC evaluates the assumptions in the runs. Each
inductive invariant was model-checked before it was proved.

**`DispatchProofs`** proves `TypeCorrect`, `OutboxMirrors`, `HistoryIsCausal`,
`ClaimIsExclusive`, `NobodyOverlooked`, `AuditIsFaithful`, `DropOutWasClaimed` and
`DeliveryTakesOneRider` from `IInv`. Few of them are inductive alone. A request that is about to write must be known to hold a
transition from a status the order has had (`RequestsGrounded`); a worker must be
handling an order that exists (`WorkersGrounded`); that one stint is claimed once
rests on the ledger that an announced claim of a rider who is AVAILABLE now
belongs to an earlier stint (`StintLedger`); that nobody is overlooked rests on an
account of each candidate as still to be tried, failed with an error, or
unavailable at some time since the search (`CandidatesAccounted`); that only
claimed riders drop out rests on every worker about to call ZREM having announced
a claim of that rider (`RemovalsGrounded`). The lemma
`StepShape` reduces all actions to the few ways an order and its outbox can
change, so that the lemmas about the logs are proved once per way and not once
per action. `DeliveryTakesOneRider` counts: the announced claims of an order and the
workers that may still claim for it together never exceed its deliveries and the
failures so far (`DeliveriesAccounted`). A worker pays for its claim by claiming no
more; one whose COMMIT succeeded without an answer goes on to the next candidate,
which is where failures enter the bound.

**`OutboxRelayProofs`** proves `TypeCorrect`, `SentIsPublished`, `BatchesAreExclusive`,
`CopiesAreBounded`, `OrderKeptUnlessContended` and the refinement
`RelayImplementsStream`. The strengthening says what a relay at work knows (`BatchesGrounded`: its rows are
committed and those it has passed are published), that an open transaction has
the latest row of its order (`OpenIsLatest`, which is where the lock on the
order's row enters), that a batch leaves no earlier row of an uncontended
order behind (`BatchesComplete`), and that the same is true of a copy in flight
(`InFlightGrounded`), so that relays without locks and late copies cannot disturb the
order. `CopiesAreBounded` counts, for each row, its copies in the topic, its copies in
flight, the relays that have it still to publish (`Holders`) and whether a poll may
return it (`Pollable`, `Spare`): together never more than one plus the failures so far
(`CopiesAccounted`).

**`KafkaConsumerProofs`** proves `NothingPassedOverUntried`, `PositionIsTried` and
`FailureIsPassedByLater`.
`MembersGrounded` says of every member, owner or not, that all before the message
in its hands was tried, which is what makes late commits of former owners
harmless; that a message is committed only after it was handled makes the offset
stop at handled messages only (`OffsetWasHandled`).

**`TrackingProofs`** first shows that every step of `Tracking` is a step of the
consumer group or leaves it alone (`GroupPreserved`), so that the invariant of
`KafkaConsumerProofs` carries over (`NoPositionPassedOver`) and the pipeline
refines the consumer group (`PipelineIsConsumerGroup`, from which
`FailedPositionsArePassed` follows). `TargetIsRight` and
`EndedOrdersGetNone` need that what a handler has read (`ClaimsOK`) stays allowed
while the row moves on, which is where it matters that a pickup or an end is
later than all positions sent so far (`OnlyProduced`, `HistoryGrounded`).
`RowsAreAnnounced` needs to know what a handler between its UPDATE and its publish
holds, and `OlderIsRepeated` that everything before the position of a row's ETA was
tried (`EtaInOrder`).

**`RateLimiterProofs`** proves `LimitIsKept`, `RefusalHasReason` and
`IdleKeyIsReaped` for any number of concurrent requests. The time of a request that
passed stays in the set until it is out of every later window (`Recorded`), because a cutoff is
never ahead of the clock by more than rounding and the key lives for a window
after the last EXPIRE (`Outlives`); and a pipeline past its ZREMRANGEBYSCORE sees
only its own window (`OnlyTheWindow`); a request has an outcome only once it was made
(`OnlyMade`), and requests with different readings are as many as their readings
(`ReadingsCount`). The span in `WindowRespected` is the window
less `MaxDelay` and `Grain`: that much the code really loses, since the clock is
read before the commands run.

**`NotificationHubProofs`** has two inductive invariants. `IInv` holds for any
number of replicas and gives `TypeCorrect` and `HubIsExact`: a connection that has
left its handler is in no hub because `Unregister` takes it out of the set of the
replica and order it was registered under, which no other step changes
(`HandlersGrounded`), and a consumer that is between events holds nothing
(`JobsGrounded`). `ServedIInv` adds what `OneReplicaServes` needs: an event owed to
a customer is ahead of the reader or in the consumer's hands (`OwedIsAhead`), and
in the latter case the connection is still to be written to (`OwedIsInHand`). That
there is one replica (`OneReplica`) is used at a single step, where `Broadcast`
copies the hub: only then is the customer of an owed event known to be in that very
hub. It is the step at which `notification_replicas` goes wrong. `SubscribersServed`
survives failing commits because the offset only lags behind the reader, and
rebalances because a reader starts again at an offset that no owed event is behind.

**`ServiceLifecycleProofs`** starts with the six sequences of `run()`: in each,
every step that can fail, such as opening Postgres, comes before the first
goroutine, and the topics before the readers (`BootOrdered`, from one lemma for
each service). That only opened resources are closed (`OnlyOpened`) is part of the type
invariant. `TopicsComeFirst` then needs that `EnsureTopics` saw nothing that is
not there, since it creates what it did not see (`TopicsEnsured`), and that what
runs was started (`TasksStarted`). `NothingIsCut` rests on `PoolHeld`: as long as a
connection is in use, the deferred `db.Close()` is still to come, and it waits.
`HandlersFinishFirst` rests on `HandlersAwaited` and on a start that fails having
started nothing yet.

**Only model-checked.** Liveness (`PlacedIsResolved`, `EventuallySent`,
`EventuallyTried`, `EtaCatchesUp`, `DroppedIsForgotten`, `EventuallyBroadcast`,
`StopsInTheEnd`) needs fairness and ENABLED, which the prover does not handle. All
invariants, action properties and refinements of the passing runs are proved.

## Not modelled

- Authentication: tokens are signed and checked without any state.
- Distances and the minutes of an ETA: floating-point arithmetic.
- Logging, metrics, trace propagation, routing, the values of settings, deployment
  files.
- Acknowledgements, pings and deadlines of a rider's WebSocket session; the
  GEOADD and the publish of one position are in two modules.
- A row that can never be published, and so holds up its relay for ever: it is
  excluded by the bound on failures.

## Plan

1. `Pipeline`: relay, consumer and assignment composed, with `Dispatch` as the
   abstract specification.
2. A row that fails for ever in `OutboxRelay`, with what then remains of
   `EventuallySent`.
