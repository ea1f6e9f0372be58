-------------------------- MODULE OutboxRelayProofs --------------------------
(***************************************************************************)
(* Proofs about the outbox relays, for any number of relays, keys and rows *)
(* and any batch size.                                                     *)
(***************************************************************************)
EXTENDS OutboxRelay, FiniteSetTheorems, TLAPS

USE DEF Ids

\* Rows are numbered from 1 without gaps.
LEMMA KeyDomain ==
  ASSUME TypeOK
  PROVE  /\ Len(key) \in Nat /\ Len(key) <= MaxId
         /\ DOMAIN key = 1..Len(key)
         /\ DOMAIN key \subseteq Ids
BY MaxIdAssumption DEF TypeOK

\* What is appended to the topic stays there.
LEMMA LogGrows ==
  ASSUME log \in Seq(Ids), NEW i \in Ids, log' = Append(log, i)
  PROVE  /\ log' \in Seq(Ids)
         /\ Len(log) \in Nat
         /\ DOMAIN log = 1..Len(log)
         /\ DOMAIN log' = 1..(Len(log) + 1)
         /\ log'[Len(log) + 1] = i
         /\ \A n \in DOMAIN log : log'[n] = log[n]
         /\ Published(i)'
         /\ \A j : Published(j) => Published(j)'
<1>1. /\ log' \in Seq(Ids)
      /\ Len(log) \in Nat
      /\ DOMAIN log = 1..Len(log)
      /\ DOMAIN log' = 1..(Len(log) + 1)
      /\ log'[Len(log) + 1] = i
      /\ \A n \in DOMAIN log : log'[n] = log[n]
  OBVIOUS
<1>2. Len(log) + 1 \in DOMAIN log' /\ DOMAIN log \subseteq DOMAIN log'
  BY <1>1
<1> QED BY <1>1, <1>2 DEF Published

\* The rows a relay may poll, and those the others hold, are rows.
LEMMA BatchTyped ==
  ASSUME TypeOK, NEW p \in Relays, NEW B, IsBatch(p, B)
  PROVE  B \in SUBSET Ids
BY KeyDomain DEF IsBatch, Unsent, TypeOK

\* A relay's record, and what changes of it, has its type.
LEMMA ProgressTyped ==
  ASSUME relays \in [Relays -> Progress], NEW p \in Relays
  PROVE  /\ NoBatch \in Progress
         /\ relays[p].pc \in {"idle", "publish", "mark"}
         /\ relays[p].batch \in SUBSET Ids /\ relays[p].todo \in SUBSET Ids
         /\ \A v \in Progress :
              [relays EXCEPT ![p] = v] \in [Relays -> Progress]
BY DEF Progress, NoBatch

\* Types are kept by every step.
LEMMA TypesPreserved ==
  ASSUME TypeOK, BatchesGrounded, [Next]_vars
  PROVE  TypeOK'
<1>1. ASSUME NEW k \in Keys, Write(k) PROVE TypeOK'
  <2>1. /\ key' \in Seq(Keys) /\ Len(key') = Len(key) + 1
        /\ DOMAIN key \subseteq DOMAIN key' /\ Len(key) + 1 \in DOMAIN key'
    BY <1>1 DEF Write, TypeOK
  <2> QED BY <1>1, <2>1, KeyDomain, MaxIdAssumption DEF Write, TypeOK
<1>2. ASSUME NEW i \in open, CommitTx(i) \/ RollbackTx(i) PROVE TypeOK'
  BY <1>2 DEF CommitTx, RollbackTx, TypeOK
<1>3. ASSUME NEW p \in Relays, NEW B, Poll(p, B) PROVE TypeOK'
  <2>1. B \in SUBSET Ids
    BY <1>3, BatchTyped DEF Poll
  <2>2. contended' \subseteq Keys
    <3>1. B \subseteq DOMAIN key
      BY <1>3 DEF Poll, IsBatch, Unsent, TypeOK
    <3>2. \A i \in DOMAIN key : key[i] \in Keys
      BY DEF TypeOK
    <3> QED BY <1>3, <3>1, <3>2 DEF Poll, TypeOK
  <2>3. [pc |-> "publish", batch |-> B, todo |-> B, tx |-> TRUE] \in Progress
    BY <2>1 DEF Progress
  <2> QED BY <1>3, <2>2, <2>3, ProgressTyped DEF Poll, TypeOK
<1>4. ASSUME NEW p \in Relays, NEW i \in relays[p].todo, Publish(p, i)
      PROVE  TypeOK'
  <2>1. i \in Ids
    BY DEF TypeOK, Progress
  <2>2. log' \in Seq(Ids)
    BY <1>4, <2>1, LogGrows DEF Publish, TypeOK
  <2>3. relays' \in [Relays -> Progress]
    <3> DEFINE todo == relays[p].todo \ {i}
               pc == IF todo = {} THEN "mark" ELSE "publish"
    <3>1. relays' = [relays EXCEPT ![p] =
            [pc |-> pc, batch |-> relays[p].batch, todo |-> todo,
             tx |-> relays[p].tx]]
      BY <1>4 DEF Publish
    <3>2. pc \in {"idle", "publish", "mark"}
      OBVIOUS
    <3>3. todo \in SUBSET Ids
      BY ProgressTyped DEF TypeOK
    <3>4. relays \in [Relays -> Progress]
      BY DEF TypeOK
    <3> HIDE DEF todo, pc
    <3>5. relays[p].batch \in SUBSET Ids /\ relays[p].tx \in BOOLEAN
      BY <3>4 DEF Progress
    <3>6. [pc |-> pc, batch |-> relays[p].batch, todo |-> todo,
           tx |-> relays[p].tx] \in Progress
      BY <3>2, <3>3, <3>5 DEF Progress
    <3> QED BY <3>1, <3>4, <3>6, ProgressTyped
  <2> QED BY <1>4, <2>2, <2>3 DEF Publish, TypeOK
<1>5. ASSUME NEW p \in Relays, MarkSent(p) PROVE TypeOK'
  <2>1. relays' \in [Relays -> Progress]
    BY <1>5, ProgressTyped DEF MarkSent, TypeOK
  <2>2. sent' \subseteq DOMAIN key
    BY <1>5 DEF MarkSent, TypeOK, BatchesGrounded
  <2> QED BY <1>5, <2>1, <2>2 DEF MarkSent, TypeOK
<1>6. ASSUME NEW p \in Relays, Rollback(p) \/ MarkFails(p) PROVE TypeOK'
  BY <1>6, MaxFaultsAssumption, ProgressTyped
     DEF Rollback, MarkFails, Fault, TypeOK
<1>9. ASSUME NEW p \in Relays, ConnectionLost(p) PROVE TypeOK'
  <2>1. relays' \in [Relays -> Progress]
    BY <1>9 DEF ConnectionLost, TypeOK, Progress
  <2> QED BY <1>9, <2>1, MaxFaultsAssumption DEF ConnectionLost, Fault, TypeOK
<1>10. ASSUME NEW i \in Ids, Arrive(i) PROVE TypeOK'
  <2>1. log' \in Seq(Ids)
    BY <1>10, LogGrows DEF Arrive, TypeOK
  <2>2. inflight' \in [Ids -> Nat]
    BY <1>10 DEF Arrive, TypeOK
  <2> QED BY <1>10, <2>1, <2>2 DEF Arrive, TypeOK
<1>7. ASSUME NEW p \in Relays, NEW i \in relays[p].todo, PublishLost(p, i)
      PROVE  TypeOK'
  <2>1. i \in Ids
    BY DEF TypeOK, Progress
  <2>2. inflight' \in [Ids -> Nat]
    BY <1>7, <2>1 DEF PublishLost, TypeOK
  <2>3. faults' \in 0..MaxFaults
    BY <1>7, MaxFaultsAssumption DEF PublishLost, Fault, TypeOK
  <2> QED BY <1>7, <2>2, <2>3, ProgressTyped DEF PublishLost, TypeOK
<1>8. CASE UNCHANGED vars
  BY <1>8 DEF vars, TypeOK
<1> QED BY <1>1, <1>2, <1>3, <1>4, <1>5, <1>6, <1>7, <1>8, <1>9, <1>10
        DEF Next, ServiceNext, RelayNext, dispatch

(***************************************************************************)
(* One lemma per action: it preserves the invariant beyond the types.      *)
(***************************************************************************)
Safe ==
  /\ SentWasPublished
  /\ BatchesExclusive
  /\ UncontendedInOrder
  /\ BatchesGrounded
  /\ OpenIsLatest
  /\ BatchesComplete
  /\ InFlightGrounded

\* A new row has the greatest id, and no open transaction has its order.
LEMMA WriteSafe ==
  ASSUME IInv, NEW k \in Keys, Write(k)
  PROVE  Safe'
<1> USE DEF IInv
<1>1. /\ DOMAIN key' = DOMAIN key \union {Len(key) + 1}
      /\ key'[Len(key) + 1] = k
      /\ \A i \in DOMAIN key : key'[i] = key[i] /\ i < Len(key) + 1 /\ i \in Nat
      /\ Len(key) \in Nat
  BY KeyDomain DEF Write, TypeOK
<1>2. /\ committed' = committed /\ sent' = sent /\ log' = log
      /\ relays' = relays /\ contended' = contended /\ inflight' = inflight
      /\ committed \subseteq DOMAIN key
      /\ open' = open \union {Len(key) + 1} /\ open \subseteq DOMAIN key
  BY DEF Write, TypeOK
<1>3. \A i \in committed : key'[i] = key[i]
  BY <1>1, <1>2
<1>4. SentWasPublished' /\ BatchesExclusive' /\ BatchesGrounded'
  BY <1>2 DEF SentWasPublished, BatchesExclusive, BatchesGrounded, Published
<1>5. UncontendedInOrder'
  BY <1>2, <1>3 DEF UncontendedInOrder, SentWasPublished
<1>6. BatchesComplete'
  BY <1>2, <1>3 DEF BatchesComplete, BatchesGrounded, Published
<1>7. InFlightGrounded'
  BY <1>2, <1>3 DEF InFlightGrounded, Published
<1>8. OpenIsLatest'
  <2>1. Len(key) + 1 \notin committed
    BY <1>1, <1>2
  <2>2. \A i \in open : key[i] # k
    BY DEF Write
  <2>3. ASSUME NEW i \in open', NEW j \in DOMAIN key', key'[j] = key'[i]
        PROVE  j <= i
    BY <1>1, <1>2, <2>2, <2>3 DEF OpenIsLatest
  <2> QED BY <1>2, <2>1, <2>3 DEF OpenIsLatest
<1> QED BY <1>4, <1>5, <1>6, <1>7, <1>8 DEF Safe

\* The row of a transaction that ends is later than the order's other rows.
LEMMA EndTxSafe ==
  ASSUME IInv, NEW i \in open, CommitTx(i) \/ RollbackTx(i)
  PROVE  Safe'
<1> USE DEF IInv
<1>1. /\ key' = key /\ sent' = sent /\ log' = log /\ relays' = relays
      /\ contended' = contended /\ open' = open \ {i} /\ inflight' = inflight
      /\ committed' = committed \/ committed' = committed \union {i}
  BY DEF CommitTx, RollbackTx
<1>2. \A j \in committed : j \in DOMAIN key /\ (key[j] = key[i] => ~(i < j))
  BY DEF OpenIsLatest, TypeOK
<1>3. SentWasPublished' /\ BatchesExclusive' /\ BatchesGrounded'
  BY <1>1 DEF SentWasPublished, BatchesExclusive, BatchesGrounded, Published
<1>4. UncontendedInOrder'
  BY <1>1, <1>2 DEF UncontendedInOrder, SentWasPublished
<1>5. BatchesComplete'
  BY <1>1, <1>2 DEF BatchesComplete, BatchesGrounded, Published
<1>6. OpenIsLatest'
  BY <1>1 DEF OpenIsLatest
<1>7. InFlightGrounded'
  BY <1>1, <1>2 DEF InFlightGrounded, Published
<1> QED BY <1>3, <1>4, <1>5, <1>6, <1>7 DEF Safe

\* The batch is the beginning of the unsent rows, so an earlier row of one
\* of its orders is in it, is sent, or is held by another relay.
LEMMA PollSafe ==
  ASSUME IInv, NEW p \in Relays, NEW B, Poll(p, B)
  PROVE  Safe'
<1> USE DEF IInv
<1>1. /\ key' = key /\ sent' = sent /\ log' = log /\ committed' = committed
      /\ open' = open /\ contended \subseteq contended' /\ inflight' = inflight
  BY DEF Poll
<1>2. /\ relays'[p] = [pc |-> "publish", batch |-> B, todo |-> B, tx |-> TRUE]
      /\ \A q \in Relays \ {p} : relays'[q] = relays[q]
  BY DEF Poll, TypeOK
<1>3. /\ B \subseteq committed \ sent
      /\ \A q \in Relays \ {p} :
           relays[q].tx => B \intersect relays[q].batch = {}
  BY DEF Poll, IsBatch, Unsent, LockedByOthers
<1>4. SentWasPublished' /\ OpenIsLatest'
  BY <1>1 DEF SentWasPublished, OpenIsLatest, Published
<1>5. UncontendedInOrder' /\ InFlightGrounded'
  BY <1>1 DEF UncontendedInOrder, InFlightGrounded, Published
<1>6. BatchesExclusive'
  BY <1>1, <1>2, <1>3 DEF BatchesExclusive
<1>7. BatchesGrounded'
  BY <1>1, <1>2, <1>3 DEF BatchesGrounded, Published, NoBatch
<1>8. BatchesComplete'
  <2> SUFFICES ASSUME NEW q \in Relays, NEW j \in relays'[q].batch,
                      NEW i \in committed, key[i] = key[j], i < j,
                      key[i] \notin contended'
               PROVE  Published(i) \/ i \in relays'[q].todo
    BY <1>1 DEF BatchesComplete, Published
  <2>1. CASE q # p
    BY <1>1, <1>2, <2>1 DEF BatchesComplete
  <2>2. CASE q = p
    <3>1. j \in B /\ relays'[q].todo = B
      BY <1>2, <2>2
    <3>2. i \notin LockedByOthers(p)
      <4>1. ASSUME i \in LockedByOthers(p) PROVE FALSE
        <5>1. key[i] \in {key[x] : x \in B}
                \intersect {key[x] : x \in LockedByOthers(p)}
          BY <3>1, <4>1
        <5> QED BY <5>1 DEF Poll
      <4> QED BY <4>1
    <3>3. CASE i \in sent
      BY <3>3 DEF SentWasPublished
    <3>4. CASE i \notin sent
      <4>1. i \in Unsent(p)
        BY <3>2, <3>4 DEF Unsent
      <4>2. i \in Nat /\ j \in Nat
        BY <1>3, <3>1, KeyDomain DEF TypeOK
      <4> QED BY <3>1, <4>1, <4>2 DEF Poll, IsBatch
    <3> QED BY <3>3, <3>4
  <2> QED BY <2>1, <2>2
<1> QED BY <1>4, <1>5, <1>6, <1>7, <1>8 DEF Safe

\* All that must come before the first row left in a batch is in the topic.
LEMMA NextInOrder ==
  ASSUME IInv, NEW p \in Relays, NEW i \in relays[p].todo, IsNext(p, i)
  PROVE  /\ i \in Ids /\ i \in committed
         /\ \A j \in committed :
              key[j] = key[i] /\ j < i /\ key[j] \notin contended => Published(j)
<1> USE DEF IInv
<1>1. i \in Ids /\ i \in committed /\ i \in relays[p].batch
  BY DEF TypeOK, Progress, BatchesGrounded
<1>2. ASSUME NEW j \in committed, key[j] = key[i], j < i, key[j] \notin contended
      PROVE  Published(j)
  <2>1. j \notin relays[p].todo
    BY <1>1, <1>2, KeyDomain DEF IsNext, TypeOK
  <2> QED BY <1>1, <1>2, <2>1 DEF BatchesComplete
<1> QED BY <1>1, <1>2

\* Appending such a row, whoever gets to know of it.
LEMMA AppendInOrder ==
  ASSUME IInv, NEW i \in Ids, i \in committed,
         \A j \in committed :
           key[j] = key[i] /\ j < i /\ key[j] \notin contended => Published(j),
         log' = Append(log, i), UNCHANGED <<key, committed, contended, sent>>
  PROVE  UncontendedInOrder' /\ SentWasPublished'
<1> USE DEF IInv
<1>1. log \in Seq(Ids)
  BY DEF TypeOK
<1>2. SentWasPublished'
  BY <1>1, LogGrows DEF SentWasPublished
<1>3. ASSUME NEW n \in DOMAIN log', NEW j \in committed,
             key[j] = key[log'[n]], j < log'[n], key[j] \notin contended
      PROVE  \E m \in DOMAIN log' : m < n /\ log'[m] = j
  <2>1. CASE n \in DOMAIN log
    BY <1>1, <1>3, <2>1, LogGrows DEF UncontendedInOrder
  <2>2. CASE n \notin DOMAIN log
    <3>1. log'[n] = i /\ \A m \in DOMAIN log : m < n /\ m \in DOMAIN log'
      BY <1>1, <2>2, LogGrows
    <3>2. Published(j)
      BY <1>3, <3>1
    <3> QED BY <1>1, <3>1, <3>2, LogGrows DEF Published
  <2> QED BY <2>1, <2>2
<1> QED BY <1>2, <1>3 DEF UncontendedInOrder

\* PublishRaw succeeds: the row leaves todo because it is published.
LEMMA PublishSafe ==
  ASSUME IInv, NEW p \in Relays, NEW i \in relays[p].todo, Publish(p, i)
  PROVE  Safe'
<1> USE DEF IInv
<1>1. /\ key' = key /\ sent' = sent /\ committed' = committed
      /\ open' = open /\ contended' = contended /\ log' = Append(log, i)
      /\ i \in Ids /\ log \in Seq(Ids) /\ inflight' = inflight
  BY DEF Publish, TypeOK, Progress
<1>2. UncontendedInOrder' /\ SentWasPublished'
  BY <1>1, AppendInOrder, NextInOrder DEF Publish
<1>3. /\ relays'[p].batch = relays[p].batch
      /\ relays'[p].tx = relays[p].tx
      /\ relays'[p].todo = relays[p].todo \ {i}
      /\ relays'[p].pc = IF relays[p].todo \ {i} = {} THEN "mark" ELSE "publish"
      /\ \A q \in Relays \ {p} : relays'[q] = relays[q]
  BY DEF Publish, TypeOK
<1>4. Published(i)' /\ \A j : Published(j) => Published(j)'
  BY <1>1, LogGrows
<1>5. BatchesExclusive' /\ OpenIsLatest'
  BY <1>1, <1>3 DEF BatchesExclusive, OpenIsLatest
<1>6. BatchesGrounded'
  BY <1>1, <1>3, <1>4 DEF BatchesGrounded
<1>7. BatchesComplete'
  BY <1>1, <1>3, <1>4 DEF BatchesComplete
<1>8. InFlightGrounded'
  BY <1>1, <1>4 DEF InFlightGrounded
<1> QED BY <1>2, <1>5, <1>6, <1>7, <1>8 DEF Safe

\* A late copy arrives: what must come before it has long been there.
LEMMA ArriveSafe ==
  ASSUME IInv, NEW i \in Ids, Arrive(i)
  PROVE  Safe'
<1> USE DEF IInv
<1>1. /\ key' = key /\ sent' = sent /\ committed' = committed
      /\ open' = open /\ contended' = contended /\ log' = Append(log, i)
      /\ relays' = relays /\ log \in Seq(Ids) /\ inflight[i] > 0
  BY DEF Arrive, TypeOK
<1>2. \A j \in Ids : inflight'[j] > 0 => inflight[j] > 0
  BY DEF Arrive, TypeOK
<1>3. UncontendedInOrder' /\ SentWasPublished'
  BY <1>1, AppendInOrder DEF InFlightGrounded
<1>4. \A j : Published(j) => Published(j)'
  BY <1>1, LogGrows
<1>5. BatchesExclusive' /\ OpenIsLatest'
  BY <1>1 DEF BatchesExclusive, OpenIsLatest
<1>6. BatchesGrounded' /\ BatchesComplete'
  BY <1>1, <1>4 DEF BatchesGrounded, BatchesComplete
<1>7. InFlightGrounded'
  BY <1>1, <1>2, <1>4 DEF InFlightGrounded
<1> QED BY <1>3, <1>5, <1>6, <1>7 DEF Safe

\* A relay loses its locks and goes on: fewer transactions live.
LEMMA ConnectionLostSafe ==
  ASSUME IInv, NEW p \in Relays, ConnectionLost(p)
  PROVE  Safe'
<1> USE DEF IInv
<1>1. /\ key' = key /\ sent' = sent /\ committed' = committed
      /\ open' = open /\ contended' = contended /\ log' = log
      /\ inflight' = inflight
  BY DEF ConnectionLost
<1>2. \A q \in Relays :
        /\ relays'[q].pc = relays[q].pc /\ relays'[q].batch = relays[q].batch
        /\ relays'[q].todo = relays[q].todo
        /\ relays'[q].tx => relays[q].tx
        /\ q # p => relays'[q] = relays[q]
  BY DEF ConnectionLost, TypeOK
<1>3. relays[p].pc # "idle"
  BY DEF ConnectionLost, BatchesGrounded, NoBatch
<1>4. SentWasPublished' /\ OpenIsLatest' /\ UncontendedInOrder' /\ InFlightGrounded'
  BY <1>1 DEF SentWasPublished, OpenIsLatest, UncontendedInOrder,
              InFlightGrounded, Published
<1>5. BatchesExclusive'
  BY <1>1, <1>2 DEF BatchesExclusive
<1>6. BatchesGrounded'
  BY <1>1, <1>2, <1>3 DEF BatchesGrounded, Published
<1>7. BatchesComplete'
  BY <1>1, <1>2 DEF BatchesComplete, Published
<1> QED BY <1>4, <1>5, <1>6, <1>7 DEF Safe

\* A relay that lets go of its batch leaves the others as they are.
LEMMA ReleaseSafe ==
  ASSUME IInv, NEW p \in Relays, relays' = [relays EXCEPT ![p] = NoBatch],
         UNCHANGED <<key, open, committed, log, contended>>,
         UncontendedInOrder', SentWasPublished', InFlightGrounded',
         \A q \in Relays \ {p} :
           relays[q].tx => relays[q].batch \intersect sent' = {}
  PROVE  Safe'
<1> USE DEF IInv
<1>1. relays'[p] = NoBatch /\ \A q \in Relays \ {p} : relays'[q] = relays[q]
  BY DEF TypeOK
<1>2. BatchesExclusive' /\ OpenIsLatest'
  BY <1>1 DEF BatchesExclusive, OpenIsLatest, NoBatch
<1>3. BatchesGrounded'
  BY <1>1 DEF BatchesGrounded, NoBatch, Published
<1>4. BatchesComplete'
  BY <1>1 DEF BatchesComplete, NoBatch, Published
<1> QED BY <1>2, <1>3, <1>4 DEF Safe

\* A batch that is marked is published to the last row.
LEMMA MarkSentSafe ==
  ASSUME IInv, NEW p \in Relays, MarkSent(p)
  PROVE  Safe'
<1> USE DEF IInv
<1>1. /\ key' = key /\ log' = log /\ committed' = committed /\ open' = open
      /\ contended' = contended /\ sent' = sent \union relays[p].batch
      /\ inflight' = inflight
      /\ relays' = [relays EXCEPT ![p] = NoBatch]
  BY DEF MarkSent
<1>2. \A i \in relays[p].batch : Published(i)
  BY DEF MarkSent, BatchesGrounded
<1>3. UncontendedInOrder' /\ SentWasPublished' /\ InFlightGrounded'
  BY <1>1, <1>2
     DEF UncontendedInOrder, SentWasPublished, InFlightGrounded, Published
<1>4. \A q \in Relays \ {p} :
        relays[q].tx => relays[q].batch \intersect sent' = {}
  BY <1>1 DEF BatchesExclusive, MarkSent
<1> QED BY <1>1, <1>3, <1>4, ReleaseSafe

\* A dispatch that fails marks nothing.
LEMMA RollbackSafe ==
  ASSUME IInv, NEW p \in Relays, Rollback(p) \/ MarkFails(p)
  PROVE  Safe'
<1> USE DEF IInv
<1>1. /\ key' = key /\ committed' = committed /\ open' = open /\ log' = log
      /\ contended' = contended /\ sent' = sent /\ inflight' = inflight
      /\ relays' = [relays EXCEPT ![p] = NoBatch]
  BY DEF Rollback, MarkFails
<1>2. \A q \in Relays \ {p} :
        relays[q].tx => relays[q].batch \intersect sent' = {}
  BY <1>1 DEF BatchesExclusive
<1>3. UncontendedInOrder' /\ SentWasPublished' /\ InFlightGrounded'
  BY <1>1 DEF UncontendedInOrder, SentWasPublished, InFlightGrounded, Published
<1> QED BY <1>1, <1>2, <1>3, ReleaseSafe

\* A copy that nobody waits for is one of the row whose turn it is.
LEMMA PublishLostSafe ==
  ASSUME IInv, NEW p \in Relays, NEW i \in relays[p].todo, PublishLost(p, i)
  PROVE  Safe'
<1> USE DEF IInv
<1>1. /\ key' = key /\ committed' = committed /\ open' = open /\ log' = log
      /\ contended' = contended /\ sent' = sent
      /\ relays' = relays \/ relays' = [relays EXCEPT ![p] = NoBatch]
  BY DEF PublishLost
<1>2. \A j \in Ids : inflight'[j] > 0 => inflight[j] > 0 \/ j = i
  BY DEF PublishLost, TypeOK
<1>3. UncontendedInOrder' /\ SentWasPublished'
  BY <1>1 DEF UncontendedInOrder, SentWasPublished, Published
<1>4. InFlightGrounded'
  BY <1>1, <1>2, NextInOrder DEF InFlightGrounded, PublishLost, Published
<1>5. CASE relays' = relays
  BY <1>1, <1>3, <1>4, <1>5
     DEF Safe, BatchesExclusive, OpenIsLatest, BatchesGrounded, BatchesComplete,
         Published
<1>6. CASE relays' = [relays EXCEPT ![p] = NoBatch]
  <2>1. \A q \in Relays \ {p} :
          relays[q].tx => relays[q].batch \intersect sent' = {}
    BY <1>1 DEF BatchesExclusive
  <2> QED BY <1>1, <1>3, <1>4, <1>6, <2>1, ReleaseSafe
<1> QED BY <1>1, <1>5, <1>6

(***************************************************************************)
(* The account of the copies of a row.                                     *)
(***************************************************************************)

\* The copies in the topic are finitely many; an append adds one of its row.
LEMMA CopiesCounted ==
  ASSUME log \in Seq(Ids), NEW i \in Ids
  PROVE  /\ Cardinality(Copies(i)) \in Nat
         /\ \A j \in Ids : log' = Append(log, j) =>
              /\ i = j => Cardinality(Copies(i)') = Cardinality(Copies(i)) + 1
              /\ i # j => Cardinality(Copies(i)') = Cardinality(Copies(i))
<1>1. IsFiniteSet(1..Len(log)) /\ DOMAIN log = 1..Len(log) /\ Len(log) \in Nat
  BY FS_Interval
<1>2. IsFiniteSet(Copies(i))
  BY <1>1, FS_Subset DEF Copies
<1>3. Cardinality(Copies(i)) \in Nat
  BY <1>2, FS_CardinalityType
<1>4. ASSUME NEW j \in Ids, log' = Append(log, j)
      PROVE  /\ i = j => Cardinality(Copies(i)') = Cardinality(Copies(i)) + 1
             /\ i # j => Cardinality(Copies(i)') = Cardinality(Copies(i))
  <2>1. /\ i = j => Copies(i)' = Copies(i) \union {Len(log) + 1}
        /\ i # j => Copies(i)' = Copies(i)
    BY <1>1, <1>4, LogGrows DEF Copies
  <2>2. Len(log) + 1 \notin Copies(i)
    BY <1>1 DEF Copies
  <2>3. Cardinality(Copies(i) \union {Len(log) + 1}) = Cardinality(Copies(i)) + 1
    BY <1>2, <2>2, FS_AddElement
  <2> QED BY <1>3, <2>1, <2>3
<1> QED BY <1>3, <1>4

\* A step of relay p changes the number of holders of a row by p at most.
LEMMA HoldersCounted ==
  ASSUME NEW p \in Relays, NEW i, IsFiniteSet(Holders(i)),
         \A q \in Relays \ {p} : relays'[q] = relays[q]
  PROVE  /\ IsFiniteSet(Holders(i)')
         /\ Cardinality(Holders(i)) \in Nat
         /\ i \in relays'[p].todo /\ i \notin relays[p].todo =>
              Cardinality(Holders(i)') = Cardinality(Holders(i)) + 1
         /\ i \notin relays'[p].todo /\ i \in relays[p].todo =>
              Cardinality(Holders(i)') = Cardinality(Holders(i)) - 1
         /\ (i \in relays'[p].todo <=> i \in relays[p].todo) =>
              Cardinality(Holders(i)') = Cardinality(Holders(i))
<1> DEFINE Rest == Holders(i) \ {p}
<1>1. IsFiniteSet(Rest) /\ p \notin Rest
  BY FS_Subset
<1>2. Cardinality(Rest) \in Nat
  BY <1>1, FS_CardinalityType
<1>3. Cardinality(Rest \union {p}) = Cardinality(Rest) + 1 /\ IsFiniteSet(Rest \union {p})
  BY <1>1, FS_AddElement
<1>4. /\ i \in relays[p].todo => Holders(i) = Rest \union {p}
      /\ i \notin relays[p].todo => Holders(i) = Rest
  BY DEF Holders
<1>5. /\ i \in relays'[p].todo => Holders(i)' = Rest \union {p}
      /\ i \notin relays'[p].todo => Holders(i)' = Rest
  BY DEF Holders
<1> HIDE DEF Rest
<1>6. CASE i \in relays[p].todo
  <2>1. Cardinality(Holders(i)) = Cardinality(Rest) + 1
    BY <1>3, <1>4, <1>6
  <2>2. i \in relays'[p].todo => Cardinality(Holders(i)') = Cardinality(Rest) + 1
    BY <1>3, <1>5
  <2>3. i \notin relays'[p].todo => Cardinality(Holders(i)') = Cardinality(Rest)
    BY <1>5
  <2>4. IsFiniteSet(Holders(i)')
    BY <1>1, <1>3, <1>5
  <2> QED BY <1>2, <1>6, <2>1, <2>2, <2>3, <2>4
<1>7. CASE i \notin relays[p].todo
  BY <1>1, <1>2, <1>3, <1>4, <1>5, <1>7
<1> QED BY <1>6, <1>7

\* No step has more copies of a row, to come or in the topic, than it had or
\* than a failure pays for.
LEMMA CopiesPreserved ==
  ASSUME IInv, [Next]_vars
  PROVE  CopiesAccounted'
<1> USE DEF IInv
<1> DEFINE Kept(i) ==
      /\ IsFiniteSet(Holders(i)')
      /\ Cardinality(Copies(i)') + inflight'[i] + Cardinality(Holders(i)') + Spare(i)'
           <= 1 + faults'
<1>1. SUFFICES ASSUME NEW i \in Ids PROVE Kept(i)
  BY DEF CopiesAccounted
<1> DEFINE c == Cardinality(Copies(i))
           h == Cardinality(Holders(i))
<1>2. log \in Seq(Ids) /\ IsFiniteSet(Holders(i))
  BY DEF TypeOK, CopiesAccounted
<1>3. /\ faults \in Nat /\ inflight[i] \in Nat /\ c \in Nat /\ h \in Nat
      /\ Spare(i) \in Nat /\ Spare(i)' \in Nat
      /\ Spare(i) <= 1 /\ Spare(i)' <= 1
      /\ c + inflight[i] + h + Spare(i) <= 1 + faults
  BY <1>2, CopiesCounted, FS_CardinalityType, MaxFaultsAssumption
     DEF TypeOK, CopiesAccounted, Spare
<1>4. log' = log => Cardinality(Copies(i)') = c
  BY DEF Copies
<1>5. relays' = relays => /\ Cardinality(Holders(i)') = h
                          /\ IsFiniteSet(Holders(i)')
                          /\ sent' = sent => Spare(i)' = Spare(i)
  BY <1>2 DEF Holders, Spare, Pollable
<1>6. CASE UNCHANGED <<log, inflight, relays, sent, faults>>
  BY <1>3, <1>4, <1>5, <1>6
<1>7. ASSUME NEW p \in Relays, NEW B, Poll(p, B) PROVE Kept(i)
  <2>1. /\ inflight' = inflight /\ faults' = faults
        /\ Cardinality(Copies(i)') = c
    BY <1>4, <1>7 DEF Poll
  <2>2. /\ sent' = sent
        /\ relays[p].todo = {} /\ ~relays[p].tx
        /\ relays'[p].todo = B /\ relays'[p].batch = B /\ relays'[p].tx
        /\ \A q \in Relays \ {p} : relays'[q] = relays[q]
    BY <1>7 DEF Poll, TypeOK, NoBatch
  <2>3. IsFiniteSet(Holders(i)')
    BY <1>2, <2>2, HoldersCounted
  <2>4. CASE i \in B
    <3>1. Pollable(i)
      BY <1>7, <2>2, <2>4 DEF Pollable, Poll, IsBatch, Unsent, LockedByOthers
    <3>2. ~Pollable(i)'
      BY <2>2, <2>4 DEF Pollable
    <3>3. Spare(i) = 1 /\ Spare(i)' = 0
      BY <3>1, <3>2 DEF Spare
    <3>4. Cardinality(Holders(i)') = h + 1
      BY <1>2, <2>2, <2>4, HoldersCounted
    <3> QED BY <1>3, <2>1, <2>3, <3>3, <3>4
  <2>5. CASE i \notin B
    <3>1. Pollable(i)' => Pollable(i)
      BY <2>2, <2>5 DEF Pollable
    <3>2. Spare(i)' <= Spare(i)
      BY <3>1 DEF Spare
    <3>3. Cardinality(Holders(i)') = h
      BY <1>2, <2>2, <2>5, HoldersCounted
    <3> QED BY <1>3, <2>1, <2>3, <3>2, <3>3
  <2> QED BY <2>4, <2>5
<1>8. ASSUME NEW p \in Relays, NEW j \in relays[p].todo, Publish(p, j)
      PROVE  Kept(i)
  <2>1. inflight' = inflight /\ faults' = faults
    BY <1>8 DEF Publish
  <2>2. /\ log' = Append(log, j) /\ sent' = sent /\ j \in Ids
        /\ relays'[p].batch = relays[p].batch /\ relays'[p].tx = relays[p].tx
        /\ relays'[p].todo = relays[p].todo \ {j}
        /\ \A q \in Relays \ {p} : relays'[q] = relays[q]
    BY <1>8 DEF Publish, TypeOK, Progress
  <2>3. /\ IsFiniteSet(Holders(i)')
        /\ i = j => Cardinality(Holders(i)') = h - 1
        /\ i # j => Cardinality(Holders(i)') = h
    BY <1>2, <2>2, HoldersCounted
  <2>4. /\ i = j => Cardinality(Copies(i)') = c + 1
        /\ i # j => Cardinality(Copies(i)') = c
    BY <1>2, <2>2, CopiesCounted
  <2>5. Spare(i)' = Spare(i)
    BY <2>2 DEF Spare, Pollable
  <2> QED BY <1>3, <2>1, <2>3, <2>4, <2>5
<1>9. ASSUME NEW p \in Relays, MarkSent(p) \/ MarkFails(p) PROVE Kept(i)
  <2>1. /\ inflight' = inflight /\ faults' = faults
        /\ Cardinality(Copies(i)') = c
    BY <1>4, <1>9 DEF MarkSent, MarkFails
  <2>2. /\ relays[p].todo = {} /\ relays'[p] = NoBatch
        /\ \A q \in Relays \ {p} : relays'[q] = relays[q]
    BY <1>9 DEF MarkSent, MarkFails, TypeOK, BatchesGrounded
  <2>3. IsFiniteSet(Holders(i)') /\ Cardinality(Holders(i)') = h
    BY <1>2, <2>2, HoldersCounted DEF NoBatch
  <2>4. Pollable(i)' => Pollable(i)
    BY <1>9, <2>2 DEF Pollable, MarkSent, MarkFails
  <2>5. Spare(i)' <= Spare(i)
    BY <2>4 DEF Spare
  <2> QED BY <1>3, <2>1, <2>3, <2>5
<1>10. ASSUME NEW p \in Relays, Rollback(p) \/ ConnectionLost(p) PROVE Kept(i)
  <2>1. /\ inflight' = inflight /\ faults' = faults + 1
        /\ Cardinality(Copies(i)') = c
    BY <1>4, <1>10 DEF Rollback, ConnectionLost, Fault
  <2>2. /\ \A q \in Relays \ {p} : relays'[q] = relays[q]
        /\ relays'[p].todo \subseteq relays[p].todo
    BY <1>10 DEF Rollback, ConnectionLost, TypeOK, Progress, NoBatch
  <2>3. /\ IsFiniteSet(Holders(i)')
        /\ Cardinality(Holders(i)') = h \/ Cardinality(Holders(i)') = h - 1
    BY <1>2, <2>2, HoldersCounted
  <2> QED BY <1>3, <2>1, <2>3
<1>11. ASSUME NEW p \in Relays, NEW j \in relays[p].todo, PublishLost(p, j)
       PROVE  Kept(i)
  <2>1. /\ faults' = faults + 1 /\ Cardinality(Copies(i)') = c
        /\ i = j => inflight'[i] = inflight[i] + 1
        /\ i # j => inflight'[i] = inflight[i]
    BY <1>4, <1>11 DEF PublishLost, Fault, TypeOK
  <2>2. sent' = sent
    BY <1>11 DEF PublishLost
  <2>3. CASE relays' = relays
    BY <1>3, <1>5, <2>1, <2>2, <2>3
  <2>4. CASE relays' = [relays EXCEPT ![p] = NoBatch]
    <3>1. /\ \A q \in Relays \ {p} : relays'[q] = relays[q]
          /\ relays'[p].todo = {}
      BY <2>4 DEF TypeOK, NoBatch
    <3>2. /\ IsFiniteSet(Holders(i)')
          /\ Cardinality(Holders(i)') = h \/ Cardinality(Holders(i)') = h - 1
          /\ i = j => Cardinality(Holders(i)') = h - 1
      BY <1>2, <3>1, HoldersCounted
    <3> QED BY <1>3, <2>1, <3>2
  <2> QED BY <1>11, <2>3, <2>4 DEF PublishLost
<1>12. ASSUME NEW j \in Ids, Arrive(j) PROVE Kept(i)
  <2>1. /\ faults' = faults
        /\ i = j => inflight'[i] = inflight[i] - 1
        /\ i # j => inflight'[i] = inflight[i]
    BY <1>12 DEF Arrive, TypeOK
  <2>2. log' = Append(log, j) /\ sent' = sent /\ relays' = relays
    BY <1>12 DEF Arrive
  <2>3. /\ i = j => Cardinality(Copies(i)') = c + 1
        /\ i # j => Cardinality(Copies(i)') = c
    BY <1>2, <2>2, CopiesCounted
  <2>4. /\ Cardinality(Holders(i)') = h /\ IsFiniteSet(Holders(i)')
        /\ Spare(i)' = Spare(i)
    BY <1>5, <2>2
  <2> QED BY <1>3, <2>1, <2>3, <2>4
<1> HIDE DEF Kept
<1>13. CASE UNCHANGED vars
  BY <1>6, <1>13 DEF vars
<1>14. CASE ServiceNext
  BY <1>6, <1>14 DEF ServiceNext, Write, CommitTx, RollbackTx
<1>15. CASE RelayNext
  BY <1>7, <1>8, <1>9, <1>10, <1>11, <1>12, <1>15 DEF RelayNext, dispatch
<1> QED BY <1>13, <1>14, <1>15 DEF Next

-----------------------------------------------------------------------------

\* Every step preserves the invariant.
LEMMA NextIInv ==
  ASSUME IInv, [Next]_vars
  PROVE  IInv'
<1>1. TypeOK'
  BY TypesPreserved DEF IInv
<1>2. CopiesAccounted'
  BY CopiesPreserved
<1>3. CASE UNCHANGED vars
  BY <1>1, <1>2, <1>3
     DEF vars, IInv, SentWasPublished, BatchesExclusive, UncontendedInOrder,
         BatchesGrounded, OpenIsLatest, BatchesComplete, InFlightGrounded,
         Published
<1>4. CASE Next
  <2>1. Safe'
    BY <1>4, WriteSafe, EndTxSafe, PollSafe, PublishSafe, MarkSentSafe,
       RollbackSafe, ConnectionLostSafe, PublishLostSafe, ArriveSafe
       DEF Next, ServiceNext, RelayNext, dispatch
  <2> QED BY <1>1, <1>2, <2>1 DEF Safe, IInv
<1> QED BY <1>3, <1>4

\* The invariant holds initially.
LEMMA InitIInv == Init => IInv
<1> SUFFICES ASSUME Init PROVE IInv
  OBVIOUS
<1>1. TypeOK
  BY MaxIdAssumption, MaxFaultsAssumption DEF Init, TypeOK, Progress, NoBatch
<1>2. DOMAIN log = {}
  BY DEF Init
<1>3. CopiesAccounted
  <2>1. \A i \in Ids : Copies(i) = {} /\ Holders(i) = {} /\ inflight[i] = 0
    BY <1>2 DEF Init, Copies, Holders, NoBatch
  <2>2. \A i \in Ids : Spare(i) \in Nat /\ Spare(i) <= 1
    BY DEF Spare
  <2>3. IsFiniteSet({}) /\ Cardinality({}) = 0
    BY FS_EmptySet
  <2>4. faults = 0
    BY DEF Init
  <2> QED BY <2>1, <2>2, <2>3, <2>4 DEF CopiesAccounted
<1> QED BY <1>1, <1>2, <1>3
        DEF Init, IInv, SentWasPublished, BatchesExclusive,
            UncontendedInOrder, BatchesGrounded, OpenIsLatest,
            BatchesComplete, InFlightGrounded, NoBatch

\* The inductive invariant holds throughout.
THEOREM Invariance == Spec => []IInv
BY InitIInv, NextIInv, PTL DEF Spec

\* Every variable keeps its type: no relay marks or publishes an id that no
\* transaction was ever given.
THEOREM TypeCorrect == Spec => []TypeOK
<1>1. IInv => TypeOK
  BY DEF IInv
<1> QED BY <1>1, Invariance, PTL

\* No row is marked before it is published, and only committed rows are
\* published, for any number of relays that race, fail and retry.
THEOREM SentIsPublished == Spec => []SentWasPublished
<1>1. IInv => SentWasPublished
  BY DEF IInv
<1> QED BY <1>1, Invariance, PTL

\* FOR UPDATE SKIP LOCKED keeps the transactions apart, also from relays that
\* work on without theirs: no live one has a row of another or a marked row.
THEOREM BatchesAreExclusive == Spec => []BatchesExclusive
<1>1. IInv => BatchesExclusive
  BY DEF IInv
<1> QED BY <1>1, Invariance, PTL

\* Each failure adds at most one copy of a row to the topic; without one, no
\* row appears twice.
THEOREM CopiesAreBounded == Spec => []CopiesPerFault
<1>1. ASSUME IInv PROVE CopiesPerFault
  <2>1. SUFFICES ASSUME NEW i \in Ids
                 PROVE  Cardinality(Copies(i)) <= 1 + faults
    BY DEF CopiesPerFault
  <2>2. /\ Cardinality(Copies(i)) \in Nat /\ Cardinality(Holders(i)) \in Nat
        /\ inflight[i] \in Nat /\ Spare(i) \in {0, 1} /\ faults \in Nat
        /\ Cardinality(Copies(i)) + inflight[i] + Cardinality(Holders(i)) + Spare(i)
             <= 1 + faults
    BY <1>1, CopiesCounted, FS_CardinalityType, MaxFaultsAssumption
       DEF IInv, TypeOK, CopiesAccounted, Spare
  <2> QED BY <2>2
<1> QED BY <1>1, Invariance, PTL

\* The events of an order reach the topic in the order they were written,
\* unless two relays have had rows of that order locked at the same time.
THEOREM OrderKeptUnlessContended == Spec => []UncontendedInOrder
<1>1. IInv => UncontendedInOrder
  BY DEF IInv
<1> QED BY <1>1, Invariance, PTL

\* The relays implement the event stream: only committed rows are published,
\* a row is marked once it is in the topic, and no publishing of a row begins
\* after that.
THEOREM RelayImplementsStream == Spec => ImplementsStream
<1> DEFINE begun == {i \in Ids : \/ inflight[i] > 0
                                 \/ \E p \in Relays : i \in relays[p].todo}
<1>1. Init => Stream!StreamInit
  BY DEF Init, Stream!StreamInit, NoBatch
<1>2. ASSUME IInv, [Next]_vars
      PROVE  [Stream!StreamNext]_(Stream!streamVars)
  <2> USE <1>2 DEF IInv
  <2>1. ASSUME NEW i \in open, CommitTx(i) PROVE Stream!StreamNext
    <3>1. i \in Ids /\ Stream!Accept(i)
      BY <2>1, KeyDomain DEF CommitTx, Stream!Accept, OpenIsLatest, TypeOK
    <3> QED BY <3>1 DEF Stream!StreamNext
  <2>2. ASSUME NEW p \in Relays, NEW B, Poll(p, B) PROVE Stream!StreamNext
    <3>1. B \in SUBSET Ids /\ B \subseteq committed \ sent
      BY <2>2, BatchTyped DEF Poll, IsBatch, Unsent
    <3>2. /\ relays[p].todo = {} /\ relays'[p].todo = B
          /\ \A q \in Relays \ {p} : relays'[q] = relays[q]
      BY <2>2 DEF Poll, NoBatch, TypeOK
    <3>3. inflight' = inflight
      BY <2>2 DEF Poll
    <3>4. begun' = begun \union B
      BY <3>1, <3>2, <3>3
    <3>5. Stream!Begin(B)
      BY <2>2, <3>1, <3>4 DEF Poll, Stream!Begin
    <3> QED BY <3>1, <3>5 DEF Stream!StreamNext
  <2>3. ASSUME NEW p \in Relays,
               \A q \in Relays \ {p} : relays'[q] = relays[q],
               relays'[p].todo \subseteq relays[p].todo,
               \A i \in Ids : inflight'[i] > 0 =>
                 inflight[i] > 0 \/ i \in relays[p].todo
        PROVE  begun' \in SUBSET begun
    BY <2>3
  <2>4. ASSUME NEW p \in Relays, NEW i \in relays[p].todo, Publish(p, i)
        PROVE  Stream!StreamNext
    <3>1. i \in Ids /\ i \in begun
      BY DEF TypeOK, Progress
    <3>2. /\ \A q \in Relays \ {p} : relays'[q] = relays[q]
          /\ relays'[p].todo \subseteq relays[p].todo
          /\ inflight' = inflight
      BY <2>4 DEF Publish, TypeOK
    <3>3. begun' \in SUBSET begun
      BY <2>3, <3>2
    <3>4. Stream!Emit(i)
      BY <2>4, <3>1, <3>3 DEF Publish, Stream!Emit
    <3> QED BY <3>1, <3>4 DEF Stream!StreamNext
  <2>5. ASSUME NEW i \in Ids, Arrive(i) PROVE Stream!StreamNext
    <3>1. /\ i \in begun /\ relays' = relays
          /\ \A j \in Ids : inflight'[j] > 0 => inflight[j] > 0
      BY <2>5 DEF Arrive, TypeOK
    <3>2. begun' \in SUBSET begun
      BY <3>1
    <3>3. Stream!Emit(i)
      BY <2>5, <3>1, <3>2 DEF Arrive, Stream!Emit
    <3> QED BY <3>3 DEF Stream!StreamNext
  <2>6. ASSUME NEW p \in Relays, MarkSent(p) PROVE Stream!StreamNext
    <3> SUFFICES ASSUME NEW S \in SUBSET Ids, S = relays[p].batch
                 PROVE  Stream!StreamNext
      BY DEF TypeOK, Progress
    <3>1. begun' \in SUBSET begun
      BY <2>3, <2>6 DEF MarkSent, TypeOK, NoBatch
    <3>2. /\ relays[p].batch \subseteq committed \ sent
          /\ \A i \in relays[p].batch : \E n \in DOMAIN log : log[n] = i
      BY <2>6 DEF MarkSent, BatchesGrounded, BatchesExclusive, Published
    <3>3. Stream!Settle(S)
      BY <2>6, <3>1, <3>2 DEF MarkSent, Stream!Settle
    <3> QED BY <3>3 DEF Stream!StreamNext
  <2>7. ASSUME NEW p \in Relays,
               \/ MarkFails(p) \/ Rollback(p) \/ ConnectionLost(p)
               \/ \E i \in relays[p].todo : PublishLost(p, i)
        PROVE  Stream!StreamNext
    <3>1. /\ \A q \in Relays \ {p} : relays'[q] = relays[q]
          /\ relays'[p].todo \subseteq relays[p].todo
          /\ UNCHANGED <<committed, log, sent>>
      BY <2>7 DEF MarkFails, Rollback, ConnectionLost, PublishLost, NoBatch, TypeOK, Progress
    <3>2. \A i \in Ids : inflight'[i] > 0 =>
            inflight[i] > 0 \/ i \in relays[p].todo
      BY <2>7 DEF MarkFails, Rollback, ConnectionLost, PublishLost, TypeOK
    <3>3. begun' \in SUBSET begun
      BY <2>3, <3>1, <3>2
    <3>4. Stream!End
      BY <3>1, <3>3 DEF Stream!End
    <3> QED BY <3>4 DEF Stream!StreamNext
  <2>8. CASE UNCHANGED <<committed, log, sent, inflight, relays>>
    BY <2>8 DEF Stream!streamVars
  <2>9. CASE UNCHANGED vars
    BY <2>8, <2>9 DEF vars
  <2>10. CASE ServiceNext
    BY <2>1, <2>8, <2>10 DEF ServiceNext, Write, RollbackTx
  <2>11. CASE RelayNext
    BY <2>2, <2>4, <2>5, <2>6, <2>7, <2>11 DEF RelayNext, dispatch
  <2> QED BY <2>9, <2>10, <2>11 DEF Next
<1> QED BY <1>1, <1>2, Invariance, PTL
        DEF Spec, ImplementsStream, Stream!StreamSpec

=============================================================================
