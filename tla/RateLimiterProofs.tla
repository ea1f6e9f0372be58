------------------------- MODULE RateLimiterProofs -------------------------
(***************************************************************************)
(* Proofs about the sliding window, for any limit, any window longer than  *)
(* the longest pipeline, and any number of concurrent requests.            *)
(***************************************************************************)
EXTENDS RateLimiter, FiniteSetTheorems, TLAPS

\* Sets of times are finite, and a larger one has at least as many.
LEMMA TimesCardinality ==
  ASSUME NEW S \in SUBSET Times, NEW T \in SUBSET S
  PROVE  /\ IsFiniteSet(S)
         /\ Cardinality(S) \in Nat
         /\ Cardinality(T) \in Nat
         /\ Cardinality(T) <= Cardinality(S)
<1>1. IsFiniteSet(Times)
  BY BoundsAssumption, FS_Interval DEF Times
<1>2. IsFiniteSet(S)
  BY <1>1, FS_Subset
<1>3. IsFiniteSet(T) /\ Cardinality(T) <= Cardinality(S)
  BY <1>2, FS_Subset
<1> QED BY <1>2, <1>3, FS_CardinalityType

\* The types are kept by every step.
LEMMA TypesPreserved ==
  ASSUME TypeOK, NothingAhead, [Next]_vars
  PROVE  TypeOK'
<1> USE BoundsAssumption, WindowAssumption, LimitAssumption DEF TypeOK, Times
<1>1. CASE Tick
  BY <1>1 DEF Tick, history
<1>2. CASE KeyExpires
  BY <1>2 DEF KeyExpires
<1>3. ASSUME NEW q \in Requests, Allow(q) PROVE TypeOK'
  BY <1>3 DEF Allow, history
<1>4. ASSUME NEW q \in Requests, ZAdd(q) PROVE TypeOK'
  BY <1>4 DEF ZAdd
<1>5. ASSUME NEW q \in Requests, ZRemRangeByScore(q) PROVE TypeOK'
  BY <1>5 DEF ZRemRangeByScore, history
<1>6. ASSUME NEW q \in Requests, ZCard(q) PROVE TypeOK'
  BY <1>6 DEF ZCard
<1>7. ASSUME NEW q \in Requests, Expire(q) PROVE TypeOK'
  BY <1>7 DEF Expire, history
<1>8. ASSUME NEW q \in Requests, Retry(q) PROVE TypeOK'
  BY <1>8 DEF Retry, Fault, history
<1>9. ASSUME NEW q \in Requests, FailOpen(q) PROVE TypeOK'
  BY <1>9 DEF FailOpen, Fault
<1>10. CASE UNCHANGED vars
  BY <1>10 DEF vars
<1> QED BY <1>1, <1>2, <1>3, <1>4, <1>5, <1>6, <1>7, <1>8, <1>9, <1>10
        DEF Next, Pipeline

\* What one request under way knows; PipelinesYoung and OnlyTheWindow say it
\* of all.
Young(q) ==
  UnderWay(q) =>
    /\ req[q].stamp <= now /\ now <= req[q].stamp + MaxDelay
    /\ req[q].pc # "zadd" => req[q].stamp \in zset \/ q \in lost
    /\ req[q].pc \in {"zcard", "expire"} =>
         \A z \in zset : z > req[q].stamp - Window

\* The parts of the invariant that do not count.
Records ==
  /\ \A q \in Requests : Young(q)
  /\ Recorded
  /\ Outlives
  /\ OnlyMade
  /\ NothingAhead
  /\ KeyIsReaped

\* Young is PipelinesYoung and OnlyTheWindow for one request.
LEMMA RecordsFromIInv == TypeOK /\ PipelinesYoung /\ OnlyTheWindow <=>
                         TypeOK /\ \A q \in Requests : Young(q)
BY DEF TypeOK, PipelinesYoung, OnlyTheWindow, Young, UnderWay

\* Time passes.
LEMMA TickRecords ==
  ASSUME TypeOK, Records, Tick
  PROVE  Records'
<1> USE BoundsAssumption, WindowAssumption DEF TypeOK, Times
<1>1. /\ now' = now + 1 /\ zset' = zset /\ expiry' = expiry /\ req' = req
      /\ attempts' = attempts /\ passed' = passed /\ refused' = refused
      /\ lost' = lost
      /\ \A q \in Requests : UnderWay(q) => now < req[q].stamp + MaxDelay
  BY DEF Tick, history
<1>2. \A q \in Requests : Young(q)'
  BY <1>1 DEF Records, Young, UnderWay
<1>3. Recorded' /\ NothingAhead' /\ OnlyMade'
  BY <1>1 DEF Records, Recorded, NothingAhead, OnlyMade, Readings
<1>4. Outlives' /\ KeyIsReaped'
  BY <1>1 DEF Records, Outlives, KeyIsReaped, Readings, UnderWay
<1> QED BY <1>2, <1>3, <1>4 DEF Records

\* The key goes: what it forgets is too old to matter, or is lost.
LEMMA KeyExpiresRecords ==
  ASSUME TypeOK, Records, KeyExpires
  PROVE  Records'
<1> USE BoundsAssumption, WindowAssumption, NoExpiryAssumption DEF TypeOK, Times
<1>1. /\ now' = now /\ zset' = {} /\ expiry' = NoExpiry /\ req' = req
      /\ attempts' = attempts /\ passed' = passed /\ refused' = refused
      /\ lost' = lost \union {q \in Requests : UnderWay(q) /\ req[q].stamp \in zset}
      /\ expiry \in Nat /\ expiry <= now
  BY DEF KeyExpires
<1>2. \A q \in Requests : Young(q)'
  BY <1>1 DEF Records, Young, UnderWay
<1>3. Recorded'
  BY <1>1 DEF Records, Recorded, Outlives
<1>4. Outlives' /\ KeyIsReaped' /\ NothingAhead'
  BY <1>1 DEF Records, Outlives, KeyIsReaped, NothingAhead, Readings
<1>5. OnlyMade'
  BY <1>1 DEF Records, OnlyMade, UnderWay
<1> QED BY <1>2, <1>3, <1>4, <1>5 DEF Records

\* A step of request q that leaves the clock alone.
LEMMA RequestRecords ==
  ASSUME TypeOK, Records, NEW q \in Requests,
         Allow(q) \/ Pipeline(q) \/ Retry(q) \/ FailOpen(q)
  PROVE  Records'
<1> USE BoundsAssumption, WindowAssumption, NoExpiryAssumption DEF TypeOK, Times
<1> DEFINE s == req[q].stamp
<1>0. /\ s \in 0..MaxTime
      /\ UnderWay(q) => s <= now /\ now <= s + MaxDelay
  BY DEF Records, Young
<1>1. CASE Allow(q)
  <2>1. /\ req' = [req EXCEPT ![q] = [pc |-> "zadd", stamp |-> now]]
        /\ UNCHANGED <<now, zset, expiry, attempts, passed, refused, lost>>
        /\ req[q].pc = "new"
    BY <1>1 DEF Allow, history
  <2>2. q \notin passed \union refused \union lost
    BY <2>1 DEF Records, OnlyMade
  <2>3. \A p \in Requests : Young(p)'
    BY <2>1 DEF Records, Young, UnderWay
  <2>4. Recorded' /\ OnlyMade'
    BY <2>1, <2>2 DEF Records, Recorded, OnlyMade
  <2>5. NothingAhead'
    BY <2>1 DEF Records, NothingAhead, Readings
  <2>6. Outlives'
    BY <2>1, <2>2 DEF Records, Outlives, UnderWay
  <2>7. KeyIsReaped'
    BY <2>1, <2>2 DEF Records, KeyIsReaped, Readings, UnderWay
  <2> QED BY <2>3, <2>4, <2>5, <2>6, <2>7 DEF Records
<1>2. CASE ZAdd(q)
  <2>1. /\ req' = [req EXCEPT ![q].pc = "zrem"]
        /\ zset' = zset \union {s} /\ attempts' = attempts \union {s}
        /\ UNCHANGED <<now, expiry, passed, refused, lost>>
        /\ UnderWay(q)
    BY <1>2 DEF ZAdd, AtCommand, UnderWay
  <2>3. ASSUME NEW p \in Requests PROVE Young(p)'
    <3>1. Young(p)
      BY DEF Records
    <3>2. CASE p = q
      BY <1>0, <2>1, <3>2 DEF Young, UnderWay
    <3>3. CASE p # q
      <4>1. req'[p] = req[p]
        BY <2>1, <3>3
      <4> QED BY <1>0, <2>1, <3>1, <4>1 DEF Young, UnderWay
    <3> QED BY <3>2, <3>3
  <2>4. Recorded' /\ OnlyMade'
    BY <2>1 DEF Records, Recorded, OnlyMade
  <2>5. NothingAhead'
    BY <1>0, <2>1 DEF Records, NothingAhead, Readings
  <2>6. Outlives'
    <3>1. SUFFICES ASSUME NEW p \in passed \ lost, p \in Requests,
                          req[p].stamp \in zset', ~UnderWay(p)'
                   PROVE  expiry # NoExpiry /\ req[p].stamp + Window <= expiry
      BY <2>1 DEF Outlives
    <3>2. ~UnderWay(p)
      BY <2>1, <3>1 DEF UnderWay
    <3>3. req[p].stamp \in zset
      BY <1>0, <2>1, <3>1, <3>2 DEF Records, Recorded
    <3> QED BY <3>1, <3>2, <3>3 DEF Records, Outlives
  <2>7. KeyIsReaped'
    BY <2>1 DEF Records, KeyIsReaped, Readings, UnderWay
  <2> QED BY <2>3, <2>4, <2>5, <2>6, <2>7 DEF Records
<1>3. CASE ZRemRangeByScore(q)
  <2>1. /\ req' = [req EXCEPT ![q].pc = "zcard"]
        /\ zset' \subseteq zset
        /\ \A z \in zset' : z > s - Window
        /\ \A z \in zset \ zset' : z < s - Window + Grain
        /\ expiry' = IF zset' = {} THEN NoExpiry ELSE expiry
        /\ UNCHANGED <<now, attempts, passed, refused, lost>>
        /\ UnderWay(q) /\ req[q].pc = "zrem"
    BY <1>3 DEF ZRemRangeByScore, AtCommand, UnderWay, history, Cutoff
  <2>3. ASSUME NEW p \in Requests PROVE Young(p)'
    <3>1. Young(p) /\ Young(q)
      BY DEF Records
    <3>2. UnderWay(p) => (req[p].stamp \in zset => req[p].stamp \in zset')
      BY <1>0, <2>1, <3>1 DEF Young
    <3>3. CASE p = q
      BY <1>0, <2>1, <3>1, <3>2, <3>3 DEF Young, UnderWay
    <3>4. CASE p # q
      <4>1. req'[p] = req[p]
        BY <2>1, <3>4
      <4> QED BY <2>1, <3>1, <3>2, <4>1 DEF Young, UnderWay
    <3> QED BY <3>3, <3>4
  <2>4. Recorded' /\ OnlyMade'
    BY <1>0, <2>1 DEF Records, Recorded, OnlyMade
  <2>5. NothingAhead'
    BY <2>1 DEF Records, NothingAhead, Readings
  <2>6. Outlives'
    BY <2>1 DEF Records, Outlives, UnderWay
  <2>7. KeyIsReaped'
    BY <2>1 DEF Records, KeyIsReaped, Readings, UnderWay
  <2> QED BY <2>3, <2>4, <2>5, <2>6, <2>7 DEF Records
<1>4. CASE ZCard(q)
  <2>1. /\ req' = [req EXCEPT ![q].pc = "expire"]
        /\ passed' \subseteq passed \union {q}
        /\ refused' \subseteq refused \union {q}
        /\ UNCHANGED <<now, zset, expiry, attempts, lost>>
        /\ UnderWay(q) /\ req[q].pc = "zcard"
    BY <1>4 DEF ZCard, AtCommand, UnderWay
  <2>3. \A p \in Requests : Young(p)'
    BY <2>1 DEF Records, Young, UnderWay
  <2>4. Recorded'
    BY <2>1 DEF Records, Recorded, Young
  <2>5. NothingAhead' /\ OnlyMade'
    BY <2>1 DEF Records, NothingAhead, Readings, OnlyMade
  <2>6. Outlives'
    BY <2>1 DEF Records, Outlives, UnderWay
  <2>7. KeyIsReaped'
    BY <2>1 DEF Records, KeyIsReaped, Readings, UnderWay
  <2> QED BY <2>3, <2>4, <2>5, <2>6, <2>7 DEF Records
<1>5. CASE Expire(q)
  <2>1. /\ req' = [req EXCEPT ![q].pc = "done"]
        /\ expiry' = IF zset # {} THEN now + Window ELSE expiry
        /\ UNCHANGED <<now, zset, attempts, passed, refused, lost>>
        /\ UnderWay(q)
    BY <1>5 DEF Expire, AtCommand, UnderWay, history
  <2>2. \A p \in Requests : Young(p)'
    BY <2>1 DEF Records, Young, UnderWay
  <2>3. Recorded' /\ OnlyMade'
    BY <2>1 DEF Records, Recorded, OnlyMade
  <2>4. NothingAhead'
    BY <2>1 DEF Records, NothingAhead, Readings
  <2>5. Outlives'
    BY <2>1 DEF Outlives, Records, NothingAhead
  <2>6. KeyIsReaped'
    BY <2>1 DEF KeyIsReaped
  <2> QED BY <2>2, <2>3, <2>4, <2>5, <2>6 DEF Records
<1>6. CASE Retry(q)
  <2>1. /\ req' = [req EXCEPT ![q].pc = "zadd"]
        /\ UNCHANGED <<now, zset, expiry, attempts, passed, refused, lost>>
        /\ UnderWay(q)
    BY <1>6 DEF Retry, history
  <2>2. \A p \in Requests : Young(p)'
    BY <2>1 DEF Records, Young, UnderWay
  <2>3. Recorded' /\ NothingAhead' /\ OnlyMade'
    BY <2>1 DEF Records, Recorded, NothingAhead, Readings, OnlyMade
  <2>4. Outlives'
    BY <2>1 DEF Records, Outlives, UnderWay
  <2>5. KeyIsReaped'
    BY <2>1 DEF Records, KeyIsReaped, Readings, UnderWay
  <2> QED BY <2>2, <2>3, <2>4, <2>5 DEF Records
<1>7. CASE FailOpen(q)
  <2>1. /\ req' = [req EXCEPT ![q].pc = "done"]
        /\ lost' = lost \union {q}
        /\ refused' = refused \ {q}
        /\ UNCHANGED <<now, zset, expiry, attempts, passed>>
    BY <1>7 DEF FailOpen
  <2>2. \A p \in Requests : Young(p)'
    BY <2>1 DEF Records, Young, UnderWay
  <2>3. Recorded' /\ NothingAhead' /\ OnlyMade'
    BY <2>1 DEF Records, Recorded, NothingAhead, Readings, OnlyMade
  <2>4. Outlives'
    BY <2>1 DEF Records, Outlives, UnderWay
  <2>5. KeyIsReaped'
    BY <2>1 DEF Records, KeyIsReaped, Readings, UnderWay
  <2> QED BY <2>2, <2>3, <2>4, <2>5 DEF Records
<1> QED BY <1>1, <1>2, <1>3, <1>4, <1>5, <1>6, <1>7 DEF Pipeline

\* The attempts that explain a refusal.
Around(A, s) == {a \in A : s - Window < a /\ a <= s + MaxDelay}

\* Apart from ZCARD no step lets a request through by its count or refuses
\* one, and a request that has an outcome keeps its reading.
LEMMA OnlyZCardDecides ==
  ASSUME TypeOK, OnlyMade, [Next]_vars
  PROVE  /\ (\A q \in Requests : ~ZCard(q)) =>
              passed' \subseteq passed /\ refused' \subseteq refused
         /\ lost \subseteq lost' /\ attempts \subseteq attempts'
         /\ \A q \in passed \union refused \union lost : req'[q].stamp = req[q].stamp
<1>1. CASE \E q \in Requests : Allow(q)
  BY <1>1 DEF Allow, TypeOK, OnlyMade, history
<1>2. CASE \E q \in Requests : Pipeline(q) \/ Retry(q) \/ FailOpen(q)
  BY <1>2 DEF Pipeline, ZAdd, ZRemRangeByScore, ZCard, Expire, Retry, FailOpen,
              TypeOK, history
<1>3. CASE Tick \/ KeyExpires \/ UNCHANGED vars
  BY <1>3 DEF Tick, KeyExpires, vars, history
<1> QED BY <1>1, <1>2, <1>3 DEF Next

\* Requests whose readings differ are no more than the members they have.
LEMMA ReadingsCount ==
  ASSUME TypeOK, NEW S \in SUBSET Requests,
         \A q \in S : req[q].stamp \in zset,
         \A p, q \in S : req[p].stamp = req[q].stamp => p = q
  PROVE  /\ Cardinality(S) \in Nat /\ Cardinality(zset) \in Nat
         /\ Cardinality(S) <= Cardinality(zset)
<1>1. IsFiniteSet(zset)
  BY TimesCardinality DEF TypeOK
<1>2. IsFiniteSet(S)
  BY RequestsAssumption, FS_Subset
<1> DEFINE f == [q \in S |-> req[q].stamp]
<1>3. f \in Injection(S, zset)
  BY DEF Injection, IsInjective
<1> HIDE DEF f
<1>4. Cardinality(S) <= Cardinality(zset)
  BY <1>1, <1>3, FS_Injection
<1> QED BY <1>1, <1>2, <1>4, FS_CardinalityType

\* The limit is kept.
LEMMA WindowKept ==
  ASSUME IInv, TypeOK', [Next]_vars
  PROVE  WindowRespected'
<1> USE BoundsAssumption, WindowAssumption, LimitAssumption
<1>1. SUFFICES ASSUME NEW t \in Times, NEW S \in SUBSET Through(t)',
                      Cardinality(S) > Limit,
                      \A p, q \in S : req'[p].stamp = req'[q].stamp => p = q
               PROVE  FALSE
  BY <1>1 DEF WindowRespected
<1>2. /\ lost \subseteq lost'
      /\ \A q \in passed \union refused \union lost : req'[q].stamp = req[q].stamp
  BY OnlyZCardDecides DEF IInv
<1>3. ASSUME S \subseteq passed PROVE FALSE
  <2>1. S \subseteq Through(t)
    BY <1>2, <1>3 DEF Through
  <2>2. \A p, q \in S : req[p].stamp = req[q].stamp => p = q
    BY <1>1, <1>2, <1>3
  <2> QED BY <1>1, <2>1, <2>2 DEF IInv, WindowRespected
<1>4. CASE \A q \in Requests : ~ZCard(q)
  BY <1>3, <1>4, OnlyZCardDecides DEF IInv, Through
<1>5. ASSUME NEW q \in Requests, ZCard(q) PROVE FALSE
  <2> DEFINE s == req[q].stamp
  <2>1. /\ lost' = lost /\ now' = now /\ zset' = zset
        /\ req' = [req EXCEPT ![q].pc = "expire"]
        /\ passed' = IF Cardinality(zset) <= Limit THEN passed \union {q} ELSE passed \ {q}
        /\ req[q].pc = "zcard" /\ UnderWay(q)
    BY <1>5 DEF ZCard, AtCommand, UnderWay
  <2>2. \A p \in Requests : req'[p].stamp = req[p].stamp
    BY <2>1 DEF IInv, TypeOK
  <2>3. CASE q \notin S
    BY <1>3, <2>1, <2>3 DEF Through
  <2>4. CASE q \in S
    <3>1. Cardinality(zset) <= Limit
      BY <2>1, <2>4 DEF Through
    <3>2. /\ s <= now /\ now <= s + MaxDelay /\ s \in zset
          /\ s <= t + Span /\ t <= s
          /\ s \in Int /\ t \in Int /\ now \in Int
      BY <2>1, <2>2, <2>4 DEF IInv, PipelinesYoung, TypeOK, Through, Times
    <3>3. ASSUME NEW g \in S PROVE req[g].stamp \in zset
      <4>1. g \in Requests /\ (g \in passed \ lost \/ g = q)
        BY <2>1 DEF Through, IInv, TypeOK
      <4>2. req[g].stamp \in Int /\ t <= req[g].stamp
        BY <2>2, <4>1 DEF Through, IInv, TypeOK, Times
      <4>3. ~(req[g].stamp < now - Window + Grain)
        BY <3>2, <4>2 DEF Span
      <4> QED BY <3>2, <4>1, <4>3 DEF IInv, Recorded
    <3>4. S \in SUBSET Requests
      BY TypeOK' DEF Through, TypeOK
    <3>5. /\ Cardinality(S) \in Nat /\ Cardinality(zset) \in Nat
          /\ Cardinality(S) <= Cardinality(zset)
      BY <1>1, <2>2, <3>3, <3>4, ReadingsCount DEF IInv
    <3> QED BY <1>1, <3>1, <3>5
  <2> QED BY <2>3, <2>4
<1> QED BY <1>4, <1>5

\* A refusal has its reason.
LEMMA RefusalsJustified ==
  ASSUME IInv, TypeOK', [Next]_vars
  PROVE  RefusedOnlyWhenBusy'
<1> USE BoundsAssumption, WindowAssumption, LimitAssumption
<1>0. \A p \in refused : Cardinality(Around(attempts, req[p].stamp)) > Limit
  BY DEF IInv, RefusedOnlyWhenBusy, Around, Readings
<1>1. SUFFICES ASSUME NEW p \in refused'
               PROVE  Cardinality(Around(attempts', req'[p].stamp)) > Limit
  BY <1>1 DEF RefusedOnlyWhenBusy, Around, Readings
<1> DEFINE r == req'[p].stamp
<1>2. Around(attempts', r) \in SUBSET Times
  BY DEF Around, TypeOK
<1>3. attempts \subseteq attempts' /\ (p \in refused => r = req[p].stamp)
  BY OnlyZCardDecides DEF IInv
<1>4. CASE p \in refused
  <2>1. Around(attempts, r) \subseteq Around(attempts', r)
    BY <1>3 DEF Around
  <2>2. /\ Cardinality(Around(attempts, r)) <= Cardinality(Around(attempts', r))
        /\ Cardinality(Around(attempts, r)) \in Nat /\ Cardinality(Around(attempts', r)) \in Nat
    BY <1>2, <2>1, TimesCardinality
  <2> QED BY <1>0, <1>3, <1>4, <2>2
<1>5. CASE p \notin refused
  <2>1. PICK q \in Requests : ZCard(q)
    BY <1>5, OnlyZCardDecides DEF IInv
  <2>2. /\ p = q /\ r = req[q].stamp /\ ~(Cardinality(zset) <= Limit)
        /\ attempts' = attempts /\ req[q].pc = "zcard" /\ UnderWay(q)
    BY <1>5, <2>1 DEF ZCard, AtCommand, UnderWay, IInv, TypeOK
  <2>3. r \in Int /\ now \in Int /\ now <= r + MaxDelay
    BY <2>2 DEF IInv, PipelinesYoung, TypeOK, Times
  <2>4. zset \subseteq Around(attempts', r)
    <3>1. SUFFICES ASSUME NEW z \in zset PROVE z \in Around(attempts', r)
      OBVIOUS
    <3>2. z \in attempts' /\ z <= now /\ z \in Int
      BY <2>2 DEF IInv, NothingAhead, TypeOK, Times
    <3>3. z > r - Window
      BY <2>2 DEF IInv, OnlyTheWindow
    <3> QED BY <2>3, <3>2, <3>3 DEF Around
  <2>5. /\ Cardinality(zset) <= Cardinality(Around(attempts', r))
        /\ Cardinality(zset) \in Nat /\ Cardinality(Around(attempts', r)) \in Nat
    BY <1>2, <2>4, TimesCardinality
  <2> QED BY <2>2, <2>5
<1> QED BY <1>4, <1>5

\* The inductive invariant holds throughout.
THEOREM Invariance == Spec => []IInv
<1>1. Init => IInv
  <2> SUFFICES ASSUME Init PROVE IInv
    OBVIOUS
  <2> USE BoundsAssumption, LimitAssumption, WindowAssumption
  <2>1. TypeOK
    BY DEF Init, TypeOK, Times
  <2>2. PipelinesYoung /\ OnlyTheWindow /\ Recorded /\ Outlives /\ OnlyMade
    BY DEF Init, PipelinesYoung, OnlyTheWindow, Recorded, Outlives, OnlyMade, UnderWay
  <2>3. RefusedOnlyWhenBusy /\ KeyIsReaped /\ NothingAhead
    BY DEF Init, RefusedOnlyWhenBusy, KeyIsReaped, NothingAhead, Readings
  <2>4. WindowRespected
    <3>1. \A t \in Times : Through(t) = {}
      BY DEF Init, Through
    <3> QED BY <3>1, FS_EmptySet DEF WindowRespected
  <2> QED BY <2>1, <2>2, <2>3, <2>4 DEF IInv
<1>2. ASSUME IInv, [Next]_vars PROVE IInv'
  <2>1. TypeOK'
    BY <1>2, TypesPreserved DEF IInv
  <2>2. Records
    BY <1>2, RecordsFromIInv DEF IInv, Records
  <2>3. Records'
    <3>1. CASE UNCHANGED vars
      BY <2>2, <3>1 DEF vars, Records, Young, UnderWay, Recorded, Outlives,
                        OnlyMade, NothingAhead, KeyIsReaped, Readings
    <3> QED BY <1>2, <2>2, <3>1, TickRecords, KeyExpiresRecords, RequestRecords
            DEF Next, IInv
  <2>4. PipelinesYoung' /\ OnlyTheWindow'
    BY <2>1, <2>3 DEF TypeOK, PipelinesYoung, OnlyTheWindow, Young, UnderWay, Records
  <2>5. WindowRespected' /\ RefusedOnlyWhenBusy'
    BY <1>2, <2>1, WindowKept, RefusalsJustified
  <2> QED BY <2>1, <2>3, <2>4, <2>5 DEF IInv, Records
<1> QED BY <1>1, <1>2, PTL DEF Spec

\* The types are right in every reachable state.
THEOREM TypeCorrect == Spec => []TypeOK
<1>1. IInv => TypeOK
  BY DEF IInv
<1> QED BY <1>1, Invariance, PTL

\* Of any Limit + 1 requests let through in a span shorter than the window two
\* read the same time.
THEOREM LimitIsKept == Spec => []WindowRespected
<1>1. IInv => WindowRespected
  BY DEF IInv
<1> QED BY <1>1, Invariance, PTL

\* A request is refused only when its window is full.
THEOREM RefusalHasReason == Spec => []RefusedOnlyWhenBusy
<1>1. IInv => RefusedOnlyWhenBusy
  BY DEF IInv
<1> QED BY <1>1, Invariance, PTL

\* A key nobody uses is reaped, unless a pipeline was given up on it.
THEOREM IdleKeyIsReaped == Spec => []KeyIsReaped
<1>1. IInv => KeyIsReaped
  BY DEF IInv
<1> QED BY <1>1, Invariance, PTL

=============================================================================
