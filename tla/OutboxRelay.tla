----------------------------- MODULE OutboxRelay -----------------------------
(***************************************************************************)
(* The transactional outbox: outbox.Write inside the services'             *)
(* transactions, and the relays that publish the rows (internal/outbox).   *)
(* order-service and assignment-service each run a relay, in every         *)
(* replica.                                                                *)
(*                                                                         *)
(* A row gets its id when it is inserted, and becomes visible when its     *)
(* transaction commits, so ids of different orders may become visible out  *)
(* of order.  Two transactions with events of one order exclude each other *)
(* through the lock on the order's row.                                    *)
(*                                                                         *)
(* A relay makes no call to Postgres while it publishes its batch: when    *)
(* Postgres has ended its transaction (the connection is lost, the server  *)
(* restarts) the locks are gone, and the relay goes on until its UPDATE    *)
(* fails.  Nor does an error of WriteMessages, or a retry inside it, call  *)
(* back what was handed to the broker: the copy may be appended later.     *)
(***************************************************************************)
EXTENDS Naturals, Sequences, FiniteSets

CONSTANTS
  Keys,       \* partition keys: order ids
  Relays,     \* relay goroutines, over all services and replicas; a
              \* transaction that outlives its goroutine is one of them too
  BatchSize,  \* rows of one dispatch (100 in the code)
  MaxId,      \* bound: rows ever inserted
  MaxFaults   \* bound: failed calls, lost answers and lost connections

ASSUME BatchSizeAssumption == BatchSize \in Nat \ {0}
ASSUME MaxIdAssumption == MaxId \in Nat
ASSUME MaxFaultsAssumption == MaxFaults \in Nat

VARIABLES
  key,        \* key[i]: partition_key of row i; a sequence, ids are 1, 2, ...
  open,       \* ids whose transaction has not ended
  committed,  \* ids whose transaction committed
  sent,       \* ids whose sent_at is set
  log,        \* the Kafka topic: ids in the order they were appended
  inflight,   \* inflight[i]: copies of row i at the broker that nobody
              \* waits for and that may still be appended
  relays,     \* relays[p]: [pc, batch, todo, tx]; tx: its transaction lives
  contended,  \* keys two relays have locked rows of at once (history variable)
  faults      \* failures so far

vars == <<key, open, committed, sent, log, inflight, relays, contended, faults>>

Ids == 1..MaxId

Progress ==
  [pc    : {"idle", "publish", "mark"},
   batch : SUBSET Ids,
   todo  : SUBSET Ids,
   tx    : BOOLEAN]

NoBatch == [pc |-> "idle", batch |-> {}, todo |-> {}, tx |-> FALSE]

\* The types of the outbox rows, of the topic and of the relays.
TypeOK ==
  /\ key \in Seq(Keys) /\ Len(key) \in 0..MaxId
  /\ open \subseteq DOMAIN key
  /\ committed \subseteq DOMAIN key
  /\ sent \subseteq DOMAIN key
  /\ log \in Seq(Ids)
  /\ inflight \in [Ids -> Nat]
  /\ relays \in [Relays -> Progress]
  /\ contended \subseteq Keys
  /\ faults \in 0..MaxFaults

Init ==
  /\ key = <<>>
  /\ open = {} /\ committed = {} /\ sent = {}
  /\ log = <<>>
  /\ inflight = [i \in Ids |-> 0]
  /\ relays = [p \in Relays |-> NoBatch]
  /\ contended = {}
  /\ faults = 0

-----------------------------------------------------------------------------
(* The transactions of the services. *)

\* outbox.Write: INSERT INTO outbox, after the transaction has taken the
\* lock on the row of order k.
Write(k) ==
  /\ Len(key) < MaxId
  /\ \A i \in open : key[i] # k
  /\ key' = Append(key, k)
  /\ open' = open \union {Len(key) + 1}
  /\ UNCHANGED <<committed, sent, log, inflight, relays, contended, faults>>

CommitTx(i) ==
  /\ i \in open
  /\ open' = open \ {i}
  /\ committed' = committed \union {i}
  /\ UNCHANGED <<key, sent, log, inflight, relays, contended, faults>>

\* The transaction rolls back; its id is never used again.
RollbackTx(i) ==
  /\ i \in open
  /\ open' = open \ {i}
  /\ UNCHANGED <<key, committed, sent, log, inflight, relays, contended, faults>>

-----------------------------------------------------------------------------
(* The relays. *)

\* Mutant of LockedByOthers: the query has no FOR UPDATE SKIP LOCKED.
NothingLocked(p) == {}

\* Rows locked by the dispatch transaction of a relay other than p.
LockedByOthers(p) ==
  UNION {relays[q].batch : q \in {r \in Relays \ {p} : relays[r].tx}}

\* Rows that the polling query of relay p may return: FOR UPDATE SKIP LOCKED.
Unsent(p) == (committed \ sent) \ LockedByOthers(p)

\* The first BatchSize of them by id.
IsBatch(p, B) ==
  /\ B \subseteq Unsent(p)
  /\ B # {}
  /\ Cardinality(B) <= BatchSize
  /\ Cardinality(B) < BatchSize => B = Unsent(p)
  /\ \A i \in B, j \in Unsent(p) \ B : i < j

\* The ticker fires and dispatch selects its rows; with none it returns.
Poll(p, B) ==
  /\ relays[p] = NoBatch
  /\ IsBatch(p, B)
  /\ relays' = [relays EXCEPT ![p] =
       [pc |-> "publish", batch |-> B, todo |-> B, tx |-> TRUE]]
  /\ contended' = contended \union
       ({key[i] : i \in B} \intersect {key[i] : i \in LockedByOthers(p)})
  /\ UNCHANGED <<key, open, committed, sent, log, inflight, faults>>

\* Mutant of IsNext: the rows are published in no particular order.
IsAnyOfBatch(p, i) ==
  /\ relays[p].pc = "publish"
  /\ i \in relays[p].todo

\* The next row of the batch, in the order of the query.
IsNext(p, i) ==
  /\ relays[p].pc = "publish"
  /\ i \in relays[p].todo
  /\ \A j \in relays[p].todo : i <= j

\* PublishRaw returns nil.
Publish(p, i) ==
  /\ IsNext(p, i)
  /\ log' = Append(log, i)
  /\ LET todo == relays[p].todo \ {i}
     IN  relays' = [relays EXCEPT ![p] =
           [pc |-> IF todo = {} THEN "mark" ELSE "publish",
            batch |-> @.batch, todo |-> todo, tx |-> @.tx]]
  /\ UNCHANGED <<key, open, committed, sent, inflight, contended, faults>>

\* Mutants of MarkSent: it does not wait for the publishes; it marks the id
\* after each id of the batch.
MarkSentEarly(p) ==
  /\ relays[p].tx
  /\ sent' = sent \union relays[p].batch
  /\ relays' = [relays EXCEPT ![p] = NoBatch]
  /\ UNCHANGED <<key, open, committed, log, inflight, contended, faults>>

MarkSentOffByOne(p) ==
  /\ relays[p].pc = "mark" /\ relays[p].tx
  /\ sent' = sent \union {i + 1 : i \in relays[p].batch}
  /\ relays' = [relays EXCEPT ![p] = NoBatch]
  /\ UNCHANGED <<key, open, committed, log, inflight, contended, faults>>

\* UPDATE outbox SET sent_at, and COMMIT, which releases the locks.
MarkSent(p) ==
  /\ relays[p].pc = "mark" /\ relays[p].tx
  /\ sent' = sent \union relays[p].batch
  /\ relays' = [relays EXCEPT ![p] = NoBatch]
  /\ UNCHANGED <<key, open, committed, log, inflight, contended, faults>>

\* The UPDATE of a relay whose transaction is gone: dispatch returns the error.
MarkFails(p) ==
  /\ relays[p].pc = "mark" /\ ~relays[p].tx
  /\ relays' = [relays EXCEPT ![p] = NoBatch]
  /\ UNCHANGED <<key, open, committed, sent, log, inflight, contended, faults>>

Fault ==
  /\ faults < MaxFaults
  /\ faults' = faults + 1

\* Mutants of Rollback: the rows are marked all the same; the transaction
\* is left open and keeps its locks.
RollbackMarks(p) ==
  /\ relays[p].pc # "idle"
  /\ Fault
  /\ sent' = sent \union relays[p].batch
  /\ relays' = [relays EXCEPT ![p] = NoBatch]
  /\ UNCHANGED <<key, open, committed, log, inflight, contended>>

RollbackForgotten(p) ==
  /\ relays[p].pc # "idle"
  /\ Fault
  /\ relays' = [relays EXCEPT ![p].pc = "idle"]
  /\ UNCHANGED <<key, open, committed, sent, log, inflight, contended>>

\* A query, a publish or the commit fails, or the process dies: dispatch is
\* over, its transaction rolls back, the locks go, and no row is marked.
Rollback(p) ==
  /\ relays[p].pc # "idle"
  /\ Fault
  /\ relays' = [relays EXCEPT ![p] = NoBatch]
  /\ UNCHANGED <<key, open, committed, sent, log, inflight, contended>>

\* Postgres ends the transaction of a relay that is at work and does not
\* notice: the locks go, the relay goes on.
ConnectionLost(p) ==
  /\ relays[p].tx
  /\ Fault
  /\ relays' = [relays EXCEPT ![p].tx = FALSE]
  /\ UNCHANGED <<key, open, committed, sent, log, inflight, contended>>

\* A copy is handed to the broker and its answer is not awaited or is lost:
\* WriteMessages tries again, or gives up and PublishRaw returns its error
\* (that of ctx, for one).
PublishLost(p, i) ==
  /\ IsNext(p, i)
  /\ Fault
  /\ inflight' = [inflight EXCEPT ![i] = @ + 1]
  /\ \/ UNCHANGED relays
     \/ relays' = [relays EXCEPT ![p] = NoBatch]
  /\ UNCHANGED <<key, open, committed, sent, log, contended>>

\* The broker appends such a copy: at once, after the row was published again
\* or marked, or never.
Arrive(i) ==
  /\ inflight[i] > 0
  /\ inflight' = [inflight EXCEPT ![i] = @ - 1]
  /\ log' = Append(log, i)
  /\ UNCHANGED <<key, open, committed, sent, relays, contended, faults>>

ServiceNext ==
  \/ \E k \in Keys : Write(k)
  \/ \E i \in open : CommitTx(i) \/ RollbackTx(i)

dispatch(p) ==
  \/ \E B \in SUBSET Ids : Poll(p, B)
  \/ \E i \in relays[p].todo : Publish(p, i)
  \/ MarkSent(p)
  \/ MarkFails(p)

RelayNext ==
  \/ \E p \in Relays :
       \/ dispatch(p)
       \/ Rollback(p)
       \/ ConnectionLost(p)
       \/ \E i \in relays[p].todo : PublishLost(p, i)
  \/ \E i \in Ids : Arrive(i)

Next == ServiceNext \/ RelayNext

Spec == Init /\ [][Next]_vars

\* Run calls dispatch at every tick and goes on after an error, so a relay
\* that can take a step takes one; Kafka and Postgres fail finitely often.
\* Nothing obliges a copy nobody waits for to arrive.
FairSpec == Spec /\ \A p \in Relays : WF_vars(dispatch(p))

-----------------------------------------------------------------------------

Published(i) == \E n \in DOMAIN log : log[n] = i

\* A row is never marked as sent before the broker has it, and rows of a
\* transaction that is open or rolled back are never published, whatever
\* relays race, fail and retry.
SentWasPublished ==
  /\ \A i \in sent : Published(i)
  /\ \A n \in DOMAIN log : log[n] \in committed

\* What FOR UPDATE SKIP LOCKED gives ("each row is picked up by exactly one
\* relay at a time", relay.go), while relays keep working on rows whose locks
\* they have lost: relays whose transactions live never share a row, and
\* none of their rows is marked, so a row is marked by one dispatch only.
BatchesExclusive ==
  \A p \in Relays : relays[p].tx =>
    /\ relays[p].batch \intersect sent = {}
    /\ \A q \in Relays \ {p} :
         relays[q].tx => relays[p].batch \intersect relays[q].batch = {}

\* The appearances of row i in the topic.
Copies(i) == {n \in DOMAIN log : log[n] = i}

\* "At-least-once semantics" (outbox.go), and how much more than once: each
\* failure (a dispatch that ends, a lost connection, a lost answer) adds at
\* most one copy of a row.  Without failures a row appears at most once,
\* however many relays poll.
CopiesPerFault ==
  \A i \in Ids : Cardinality(Copies(i)) <= 1 + faults

\* As long as no two relays have rows of an order locked at one time, the
\* order's rows reach the topic in the order they were written: whenever a
\* row appears, every earlier row of its order is already there.  Batches
\* repeated from their beginning, relays that work on without their locks
\* and late copies only add duplicates.
UncontendedInOrder ==
  \A n \in DOMAIN log : \A i \in committed :
    /\ key[i] = key[log[n]] /\ i < log[n]
    /\ key[i] \notin contended
    => \E m \in DOMAIN log : m < n /\ log[m] = i

\* The same without the condition, as README.md states it: "All topics use
\* order_id as the partition key to guarantee ordering per order".
InOrder ==
  \A n \in DOMAIN log : \A i \in committed :
    key[i] = key[log[n]] /\ i < log[n]
    => \E m \in DOMAIN log : m < n /\ log[m] = i

-----------------------------------------------------------------------------

\* The relays implement the event stream.
Stream == INSTANCE EventStream WITH
  Events <- Ids, accepted <- committed, stream <- log, settled <- sent,
  begun <- {i \in Ids : inflight[i] > 0 \/ \E p \in Relays : i \in relays[p].todo}

\* Whatever the relays do is a step of the event stream: nothing that did
\* not commit is published, nothing is marked that is not in the topic, and
\* no publishing of a row begins once it is marked.  What was begun before
\* the mark (by a relay without its locks, by a copy in flight) may follow.
ImplementsStream == Stream!StreamSpec

\* Every event whose transaction commits is published and marked in the end:
\* rows are finitely many and no mark is taken back, so it is enough that
\* again and again no committed row is left unmarked.
EventuallySent == []<>(committed \subseteq sent)

-----------------------------------------------------------------------------
(***************************************************************************)
(* The inductive invariant the proofs use.                                 *)
(***************************************************************************)

\* A relay at work holds committed rows; those it has passed are published.
BatchesGrounded ==
  \A p \in Relays :
    /\ relays[p].pc = "idle" => relays[p] = NoBatch
    /\ relays[p].pc = "mark" => relays[p].todo = {}
    /\ relays[p].todo \subseteq relays[p].batch
    /\ relays[p].batch \subseteq committed
    /\ \A i \in relays[p].batch \ relays[p].todo : Published(i)

\* A transaction that is open has the latest row of its order.
OpenIsLatest ==
  /\ open \intersect committed = {}
  /\ \A i \in open : \A j \in DOMAIN key : key[j] = key[i] => j <= i

\* A copy in flight is of a committed row, and what must come before it in
\* the topic is there.
InFlightGrounded ==
  \A j \in Ids : inflight[j] > 0 =>
    /\ j \in committed
    /\ \A i \in committed :
         key[i] = key[j] /\ i < j /\ key[i] \notin contended => Published(i)

\* An earlier row of the order of a row in a batch is published, or is in
\* the part of the same batch that is still to come.
BatchesComplete ==
  \A p \in Relays : \A j \in relays[p].batch : \A i \in committed :
    key[i] = key[j] /\ i < j /\ key[i] \notin contended
    => Published(i) \/ i \in relays[p].todo

\* The relays that have row i still to publish, and whether a poll may return
\* it, now or once it commits.
Holders(i) == {p \in Relays : i \in relays[p].todo}
Pollable(i) ==
  /\ i \notin sent
  /\ \A p \in Relays : relays[p].tx => i \notin relays[p].batch
Spare(i) == IF Pollable(i) THEN 1 ELSE 0

\* Each appearance of a row that has been or may still be is the one it is
\* entitled to or was paid for by a failure.
CopiesAccounted ==
  \A i \in Ids :
    /\ IsFiniteSet(Holders(i))
    /\ Cardinality(Copies(i)) + inflight[i] + Cardinality(Holders(i)) + Spare(i)
         <= 1 + faults

IInv ==
  /\ TypeOK
  /\ SentWasPublished
  /\ BatchesExclusive
  /\ UncontendedInOrder
  /\ BatchesGrounded
  /\ OpenIsLatest
  /\ BatchesComplete
  /\ InFlightGrounded
  /\ CopiesAccounted

=============================================================================
