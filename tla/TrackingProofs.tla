--------------------------- MODULE TrackingProofs ---------------------------
(***************************************************************************)
(* Proofs about the way from a rider's position to an ETA, for any number  *)
(* of replicas of eta-service, riders, orders, positions and failures.     *)
(***************************************************************************)
EXTENDS Tracking, KafkaConsumerProofs

\* Every step is a step of the consumer group, or leaves it alone.
LEMMA StepOfGroup ==
  ASSUME [TrackingNext]_trackingVars
  PROVE  [Next]_vars
BY DEF TrackingNext, trackingVars, UpdateLocation, Claim, UpdateStatus, Group,
       OnLocation, LookupNone, Lookup, UpdateEta, PublishEta, OnLocationError,
       Die, Next, Run

\* The invariant of the consumer group is preserved.
LEMMA GroupPreserved ==
  ASSUME IInv, [TrackingNext]_trackingVars
  PROVE  IInv'
BY StepOfGroup, TypesPreserved, StepSafe
   DEF IInv, Grounded, MembersGrounded, HandlesMessage

\* A handler that is under way holds a message that exists.
LEMMA InHands ==
  ASSUME TrackingIInv, NEW c \in Members, members[c].pc = "handle"
  PROVE  /\ members[c].msg \in Messages
         /\ members[c].msg \in 1..produced
         /\ \A m \in 1..(members[c].msg - 1) : Tried(m)
<1>1. members[c].msg \in Messages
  BY DEF TrackingIInv, IInv, HandlesMessage
<1>2. members[c].msg <= produced /\ produced \in Nat
  BY BoundsAssumption DEF TrackingIInv, OnlyProduced, IInv, TypeOK
<1>3. \A m \in 1..(members[c].msg - 1) : Tried(m)
  BY DEF TrackingIInv, IInv, MembersGrounded
<1>4. members[c].msg \in 1..produced
  BY <1>1, <1>2, BoundsAssumption DEF Messages
<1> QED BY <1>1, <1>3, <1>4

\* The consumers only ever know messages that exist.
LEMMA ProducedPreserved ==
  ASSUME TrackingIInv, [TrackingNext]_trackingVars
  PROVE  OnlyProduced' /\ produced \in Nat /\ produced <= produced'
<1> USE BoundsAssumption DEF TrackingIInv, IInv, TypeOK, OnlyProduced
<1>1. [Next]_vars
  BY StepOfGroup
<1>2. CASE UNCHANGED vars
  BY <1>2 DEF vars
<1>3. CASE Produce
  BY <1>3 DEF Produce
<1>4. CASE RevokePartition
  BY <1>4 DEF RevokePartition
<1>5. ASSUME NEW c \in Members,
             \/ AssignPartition(c) \/ Restart(c) \/ Run(c)
             \/ HandlerError(c) \/ CommitError(c)
      PROVE  OnlyProduced' /\ produced \in Nat /\ produced <= produced'
  <2>1. produced' = produced /\ produced \in Nat
    BY <1>5 DEF AssignPartition, Restart, Run, FetchMessage, HandlerOk,
                CommitMessages, HandlerError, CommitError
  <2>2. committed' <= produced
    BY <1>5 DEF AssignPartition, Restart, Run, FetchMessage, HandlerOk,
                CommitMessages, HandlerError, CommitError
  <2>3. ASSUME NEW d \in Members
        PROVE  members'[d].position <= produced /\ members'[d].msg <= produced
    <3>1. CASE AssignPartition(c)
      BY <3>1 DEF AssignPartition
    <3>2. CASE Restart(c)
      BY <2>1, <3>2 DEF Restart
    <3>3. CASE FetchMessage(c)
      BY <3>3 DEF FetchMessage
    <3>4. CASE HandlerOk(c) \/ CommitMessages(c) \/ HandlerError(c)
               \/ CommitError(c)
      BY <3>4 DEF HandlerOk, CommitMessages, HandlerError, CommitError
    <3> QED BY <1>5, <3>1, <3>2, <3>3, <3>4 DEF Run
  <2> QED BY <2>1, <2>2, <2>3
<1> QED BY <1>1, <1>2, <1>3, <1>4, <1>5 DEF Next

\* Every variable keeps its type.
LEMMA TrackingTypes ==
  ASSUME TrackingIInv, [TrackingNext]_trackingVars
  PROVE  TrackingTypeOK'
<1> USE BoundsAssumption, RowsAssumption, NoRiderAssumption
    DEF TrackingIInv, TrackingTypeOK
<1>1. TypeOK'
  BY GroupPreserved DEF IInv
<1>2. produced \in 0..Never
  BY DEF TypeOK, Never
<1>3. ASSUME NEW c \in Members, members[c].pc = "handle", job[c].step # "lookup"
      PROVE  /\ job[c].order \in Orders /\ job[c].target \in Targets
             /\ members[c].msg \in Messages
             /\ [msg |-> members[c].msg, target |-> job[c].target] \in
                  [msg : 0..MaxMessages, target : Targets]
             /\ Announcement(c) \in
                  [order : Orders, msg : Messages, target : Targets]
  <2>1. job[c].order \in Orders /\ job[c].target \in Targets
    BY <1>3 DEF JobsGrounded
  <2>2. members[c].msg \in Messages
    BY <1>3, InHands
  <2> QED BY <2>1, <2>2 DEF Announcement, Messages
<1>4. ASSUME NEW c \in Members, job' = [job EXCEPT ![c] = NoJob]
      PROVE  job' \in [Members -> [step   : {"lookup", "update", "publish"},
                                   order  : Orders \union {NoOrder},
                                   target : Targets]]
  BY <1>4 DEF NoJob, Targets
<1>5. ASSUME NEW r \in Riders, UpdateLocation(r) PROVE TrackingTypeOK'
  <2>1. position' \in [Messages -> Riders \union {NoRider}]
    BY <1>5 DEF UpdateLocation
  <2> QED BY <1>1, <1>5, <2>1 DEF UpdateLocation, rows
<1>6. ASSUME NEW o \in Orders, NEW r \in Riders, Claim(o, r)
      PROVE  TrackingTypeOK'
  <2>1. orders' \in [Orders -> [status : Statuses,
                               rider : Riders \union {NoRider}]]
    BY <1>6 DEF Claim
  <2>2. changes' \in 0..MaxChanges
    BY <1>6 DEF Claim, Change
  <2> QED BY <1>1, <1>6, <2>1, <2>2 DEF Claim
<1>7. ASSUME NEW o \in Orders, NEW s \in Statuses, UpdateStatus(o, s)
      PROVE  TrackingTypeOK'
  <2>1. orders' \in [Orders -> [status : Statuses,
                               rider : Riders \union {NoRider}]]
    BY <1>7 DEF UpdateStatus
  <2>2. changes' \in 0..MaxChanges
    BY <1>7 DEF UpdateStatus, Change
  <2>3. history' \in [Orders -> [pickedAt : 0..Never, endedAt : 0..Never,
                                stale : BOOLEAN]]
    BY <1>2, <1>7 DEF UpdateStatus
  <2> QED BY <1>1, <1>7, <2>1, <2>2, <2>3 DEF UpdateStatus
<1>8. CASE UNCHANGED notGroup
  BY <1>1, <1>8 DEF notGroup, rows
<1>9. ASSUME NEW c \in Members, Lookup(c) PROVE TrackingTypeOK'
  <2>1. PICK o \in Orders :
          job' = [job EXCEPT ![c] =
            [step |-> "update", order |-> o, target |-> Target(o)]]
    BY <1>9 DEF Lookup
  <2>2. job' \in [Members -> [step   : {"lookup", "update", "publish"},
                              order  : Orders \union {NoOrder},
                              target : Targets]]
    BY <2>1 DEF Target, Targets
  <2> QED BY <1>1, <1>9, <2>2 DEF Lookup, rows
<1>10. ASSUME NEW c \in Members, UpdateEta(c) PROVE TrackingTypeOK'
  <2>1. eta' \in [Orders -> [msg : 0..MaxMessages, target : Targets]]
    BY <1>3, <1>10 DEF UpdateEta, OnMessage
  <2>2. job' \in [Members -> [step   : {"lookup", "update", "publish"},
                              order  : Orders \union {NoOrder},
                              target : Targets]]
    BY <1>10 DEF UpdateEta
  <2> QED BY <1>1, <1>10, <2>1, <2>2 DEF UpdateEta, rows
<1>11. ASSUME NEW c \in Members, PublishEta(c) PROVE TrackingTypeOK'
  <2>1. announced' \subseteq [order : Orders, msg : Messages, target : Targets]
    BY <1>3, <1>11 DEF PublishEta, OnMessage
  <2> QED BY <1>1, <1>4, <1>11, <2>1 DEF PublishEta, rows
<1>12. ASSUME NEW c \in Members, OnLocationError(c) PROVE TrackingTypeOK'
  <2>1. members[c].pc = "handle"
    BY <1>12 DEF OnLocationError, HandlerError
  <2>2. announced' \subseteq [order : Orders, msg : Messages, target : Targets]
    BY <1>3, <1>12, <2>1 DEF OnLocationError
  <2>3. eta' \in [Orders -> [msg : 0..MaxMessages, target : Targets]]
    BY <1>3, <1>12, <2>1 DEF OnLocationError
  <2> QED BY <1>1, <1>4, <1>12, <2>2, <2>3 DEF OnLocationError, rows
<1>13. ASSUME NEW c \in Members, Die(c) PROVE TrackingTypeOK'
  <2>1. cut' \subseteq Messages
    BY <1>13, InHands DEF Die
  <2> QED BY <1>1, <1>4, <1>13, <2>1 DEF Die, rows
<1>14. CASE UNCHANGED trackingVars
  BY <1>1, <1>14 DEF trackingVars
<1> QED BY <1>5, <1>6, <1>7, <1>8, <1>9, <1>10, <1>11, <1>12, <1>13, <1>14
        DEF TrackingNext, Group, OnLocation, LookupNone

\* What a step does to the handler of member c: nothing, while it keeps its
\* message or has no handler running; it ends; or it makes its next call.
LEMMA HandlerShape ==
  ASSUME TrackingIInv, [TrackingNext]_trackingVars, NEW c \in Members
  PROVE  \/ /\ job'[c] = job[c]
            /\ \/ members[c].pc # "handle"
               \/ members'[c].pc = "handle" /\ members'[c].msg = members[c].msg
         \/ job'[c] = NoJob
         \/ /\ Lookup(c)
            /\ members' = members
            /\ \E o \in Orders :
                 /\ IsActiveOrder(o, position[members[c].msg])
                 /\ job'[c] = [step |-> "update", order |-> o,
                               target |-> Target(o)]
         \/ /\ UpdateEta(c)
            /\ members' = members
            /\ job'[c] = [job[c] EXCEPT !.step = "publish"]
<1> USE DEF TrackingIInv, TrackingTypeOK, IInv, TypeOK
<1>1. CASE UNCHANGED <<members, job>>
  BY <1>1
<1>2. CASE Group
  <2>1. job' = job
    BY <1>2 DEF Group, notGroup
  <2>2. ASSUME NEW d \in Members, AssignPartition(d)
        PROVE  members'[c].pc = members[c].pc /\ members'[c].msg = members[c].msg
    BY <2>2 DEF AssignPartition
  <2>3. ASSUME NEW d \in Members,
               FetchMessage(d) \/ CommitMessages(d) \/ CommitError(d)
        PROVE  members[c].pc # "handle" \/ members'[c] = members[c]
    BY <2>3 DEF FetchMessage, CommitMessages, CommitError
  <2> QED BY <1>2, <2>1, <2>2, <2>3 DEF Group, RevokePartition
<1>3. ASSUME NEW d \in Members, job' = [job EXCEPT ![d] = NoJob],
             \A e \in Members \ {d} : members'[e] = members[e]
      PROVE  \/ job'[c] = job[c] /\ members'[c] = members[c]
             \/ job'[c] = NoJob
  BY <1>3
<1>4. ASSUME NEW d \in Members, HandlerOk(d) \/ HandlerError(d) \/ Restart(d)
      PROVE  \A e \in Members \ {d} : members'[e] = members[e]
  BY <1>4 DEF HandlerOk, HandlerError, Restart
<1>5. ASSUME NEW d \in Members,
             PublishEta(d) \/ OnLocationError(d) \/ Die(d)
      PROVE  \/ job'[c] = job[c] /\ members'[c] = members[c]
             \/ job'[c] = NoJob
  BY <1>3, <1>4, <1>5 DEF PublishEta, OnLocationError, Die
<1>6. ASSUME NEW d \in Members, LookupNone(d)
      PROVE  \/ job'[c] = job[c] /\ members'[c] = members[c]
             \/ job'[c] = NoJob
  BY <1>4, <1>6 DEF LookupNone, notGroup, OnMessage, JobsGrounded
<1>7. ASSUME NEW d \in Members, Lookup(d), c # d
      PROVE  job'[c] = job[c] /\ members' = members
  BY <1>7 DEF Lookup, vars
<1>8. ASSUME Lookup(c)
      PROVE  /\ members' = members
             /\ \E o \in Orders :
                  /\ IsActiveOrder(o, position[members[c].msg])
                  /\ job'[c] = [step |-> "update", order |-> o,
                                target |-> Target(o)]
  BY <1>8 DEF Lookup, vars
<1>9. ASSUME NEW d \in Members, UpdateEta(d)
      PROVE  /\ members' = members
             /\ c # d => job'[c] = job[c]
             /\ c = d => job'[c] = [job[c] EXCEPT !.step = "publish"]
  BY <1>9 DEF UpdateEta, vars
<1>10. CASE UNCHANGED trackingVars
  BY <1>1, <1>10 DEF trackingVars, vars
<1>11. CASE \/ \E r \in Riders : UpdateLocation(r)
            \/ \E o \in Orders, r \in Riders : Claim(o, r)
            \/ \E o \in Orders, s \in Statuses : UpdateStatus(o, s)
  BY <1>1, <1>11 DEF UpdateLocation, Produce, Claim, UpdateStatus, vars
<1>12. ASSUME NEW d \in Members, OnLocation(d) \/ OnLocationError(d) \/ Die(d)
       PROVE  \/ job'[c] = job[c] /\ members'[c] = members[c]
              \/ job'[c] = NoJob
              \/ c = d /\ (Lookup(c) \/ UpdateEta(c))
  BY <1>5, <1>6, <1>7, <1>9, <1>12 DEF OnLocation
<1> QED BY <1>2, <1>8, <1>9, <1>10, <1>11, <1>12 DEF TrackingNext

\* A handler under way keeps having an order.
LEMMA JobsPreserved ==
  ASSUME TrackingIInv, [TrackingNext]_trackingVars
  PROVE  JobsGrounded'
<1> USE DEF TrackingIInv, TrackingTypeOK
<1> SUFFICES ASSUME NEW c \in Members
             PROVE  /\ members'[c].pc # "handle" \/ job'[c].step = "lookup"
                         => job'[c] = NoJob
                    /\ job'[c].step # "lookup" => job'[c].order \in Orders
  BY DEF JobsGrounded
<1>1. CASE /\ job'[c] = job[c]
           /\ \/ members[c].pc # "handle"
              \/ members'[c].pc = "handle" /\ members'[c].msg = members[c].msg
  BY <1>1 DEF JobsGrounded
<1>2. CASE job'[c] = NoJob
  BY <1>2 DEF NoJob
<1>3. CASE Lookup(c) /\ members' = members
  <2>1. members'[c].pc = "handle"
    BY <1>3 DEF Lookup, OnMessage
  <2>2. PICK o \in Orders :
          job' = [job EXCEPT ![c] =
            [step |-> "update", order |-> o, target |-> Target(o)]]
    BY <1>3 DEF Lookup
  <2> QED BY <2>1, <2>2
<1>4. CASE UpdateEta(c) /\ members' = members
  <2>1. members'[c].pc = "handle" /\ job[c].step = "update"
    BY <1>4 DEF UpdateEta, OnMessage
  <2>2. job' = [job EXCEPT ![c].step = "publish"]
    BY <1>4 DEF UpdateEta
  <2> QED BY <2>1, <2>2 DEF JobsGrounded
<1> QED BY <1>1, <1>2, <1>3, <1>4, HandlerShape

\* What a step does to the rows of orders.
LEMMA RowShape ==
  ASSUME [TrackingNext]_trackingVars
  PROVE  \/ UNCHANGED <<history, orders>>
         \/ UNCHANGED history /\ \E o \in Orders, r \in Riders : Claim(o, r)
         \/ \E o \in Orders, s \in Statuses : UpdateStatus(o, s)
<1>1. CASE UNCHANGED notGroup
  BY <1>1 DEF notGroup, rows
<1>2. ASSUME NEW c \in Members, OnLocation(c) \/ OnLocationError(c) \/ Die(c)
      PROVE  UNCHANGED <<history, orders>>
  BY <1>2 DEF OnLocation, LookupNone, Lookup, UpdateEta, PublishEta,
              OnLocationError, Die, notGroup, rows
<1> QED BY <1>1, <1>2
        DEF TrackingNext, trackingVars, Group, UpdateLocation, Claim, rows

\* The status of a row that never went back keeps agreeing with its past.
LEMMA HistoryPreserved ==
  ASSUME TrackingIInv, [TrackingNext]_trackingVars
  PROVE  HistoryGrounded'
<1> USE BoundsAssumption DEF TrackingIInv, TrackingTypeOK
<1>1. CASE UNCHANGED <<history, orders>>
  BY <1>1 DEF HistoryGrounded
<1>2. ASSUME NEW o \in Orders, NEW r \in Riders, Claim(o, r)
      PROVE  HistoryGrounded'
  <2>1. history' = history
        /\ \A p \in Orders : orders'[p].status = orders[p].status
    BY <1>2 DEF Claim
  <2> QED BY <2>1 DEF HistoryGrounded
<1>3. ASSUME NEW o \in Orders, NEW s \in Statuses, UpdateStatus(o, s)
      PROVE  HistoryGrounded'
  <2>1. produced # Never
    BY DEF TypeOK, Never
  <2>2. /\ orders'[o].status = s /\ orders[o].status # s
        /\ history'[o].stale =
             (history[o].stale \/ s = "PLACED" \/ orders[o].status = "DELIVERED")
        /\ history'[o].pickedAt =
             IF s = "PICKED_UP" /\ history[o].pickedAt = Never
               THEN produced ELSE history[o].pickedAt
        /\ history'[o].endedAt =
             IF s = "DELIVERED" /\ history[o].endedAt = Never
               THEN produced ELSE history[o].endedAt
    BY <1>3 DEF UpdateStatus
  <2>3. \A p \in Orders \ {o} : orders'[p] = orders[p] /\ history'[p] = history[p]
    BY <1>3 DEF UpdateStatus
  <2>4. ASSUME ~history'[o].stale
        PROVE  /\ orders'[o].status = "PICKED_UP" <=>
                    history'[o].pickedAt # Never /\ history'[o].endedAt = Never
               /\ orders'[o].status = "DELIVERED" <=> history'[o].endedAt # Never
    <3>1. ~history[o].stale /\ s # "PLACED" /\ orders[o].status # "DELIVERED"
      BY <2>2, <2>4
    <3>2. history[o].endedAt = Never
      BY <3>1 DEF HistoryGrounded
    <3>3. CASE s = "PICKED_UP"
      BY <2>1, <2>2, <3>2, <3>3
    <3>4. CASE s = "DELIVERED"
      BY <2>1, <2>2, <3>2, <3>4
    <3> QED BY <3>1, <3>3, <3>4 DEF Statuses
  <2> QED BY <2>3, <2>4 DEF HistoryGrounded
<1> QED BY <1>1, <1>2, <1>3, RowShape

\* An ETA that is allowed stays allowed, whatever the rows do later.
LEMMA ClaimStaysOK ==
  ASSUME TrackingIInv, [TrackingNext]_trackingVars,
         NEW o \in Orders, NEW m, NEW t, ClaimOK(o, m, t)
  PROVE  ClaimOK(o, m, t)'
<1> USE BoundsAssumption DEF TrackingIInv, TrackingTypeOK
<1>1. m \in 1..produced /\ m \in 1..produced'
  BY ProducedPreserved, GroupPreserved DEF ClaimOK, IInv, TypeOK
<1>2. CASE history' = history
  BY <1>1, <1>2 DEF ClaimOK
<1>3. ASSUME NEW p \in Orders, NEW s \in Statuses, UpdateStatus(p, s)
      PROVE  ClaimOK(o, m, t)'
  <2>1. produced # Never /\ produced \in Nat
    BY DEF TypeOK, Never
  <2>2. CASE p # o
    <3>1. history'[o] = history[o]
      BY <1>3, <2>2 DEF UpdateStatus
    <3> QED BY <1>1, <3>1 DEF ClaimOK
  <2>3. CASE p = o
    <3>1. /\ ~history'[o].stale => ~history[o].stale
          /\ history'[o].pickedAt \in {history[o].pickedAt, produced}
          /\ history'[o].endedAt \in {history[o].endedAt, produced}
          /\ history[o].pickedAt # Never => history'[o].pickedAt # Never
      BY <1>3, <2>1, <2>3 DEF UpdateStatus
    <3>2. ~(m > produced)
      BY <1>1, <2>1
    <3> QED BY <1>1, <3>1, <3>2 DEF ClaimOK
  <2> QED BY <2>2, <2>3
<1> QED BY <1>2, <1>3, RowShape

\* A row's ETA is only changed by a handler that has found the order.
LEMMA EtaShape ==
  ASSUME TrackingIInv, [TrackingNext]_trackingVars, NEW o \in Orders
  PROVE  \/ eta'[o] = eta[o]
         \/ \E c \in Members :
              /\ OnMessage(c, "update") /\ job[c].order = o
              /\ eta'[o] = [msg |-> members[c].msg, target |-> job[c].target]
              /\ UpdateEta(c) \/ OnLocationError(c)
<1> USE DEF TrackingIInv, TrackingTypeOK
<1>1. CASE eta' = eta
  BY <1>1
<1>2. ASSUME NEW c \in Members, UpdateEta(c) \/ OnLocationError(c)
      PROVE  \/ eta'[o] = eta[o]
             \/ /\ OnMessage(c, "update") /\ job[c].order = o
                /\ eta'[o] = [msg |-> members[c].msg, target |-> job[c].target]
  BY <1>2 DEF UpdateEta, OnLocationError, HandlerError, OnMessage
<1>3. \/ eta' = eta
      \/ \E c \in Members : UpdateEta(c) \/ OnLocationError(c)
  BY DEF TrackingNext, trackingVars, Group, UpdateLocation, Claim,
         UpdateStatus, OnLocation, LookupNone, Lookup, PublishEta, Die, notGroup
<1> QED BY <1>1, <1>2, <1>3

\* An event is only published by a handler that has written the row.
LEMMA AnnouncedShape ==
  ASSUME [TrackingNext]_trackingVars, NEW a \in announced'
  PROVE  \/ a \in announced
         \/ \E c \in Members : OnMessage(c, "publish") /\ a = Announcement(c)
<1>1. ASSUME NEW c \in Members, PublishEta(c) \/ OnLocationError(c)
      PROVE  \/ a \in announced
             \/ OnMessage(c, "publish") /\ a = Announcement(c)
  BY <1>1 DEF PublishEta, OnLocationError, HandlerError, OnMessage
<1>2. \/ announced' = announced
      \/ \E c \in Members : PublishEta(c) \/ OnLocationError(c)
  BY DEF TrackingNext, trackingVars, Group, UpdateLocation, Claim,
         UpdateStatus, OnLocation, LookupNone, Lookup, UpdateEta, Die, notGroup
<1> QED BY <1>1, <1>2

\* Events are never taken back.
LEMMA AnnouncedGrows ==
  ASSUME [TrackingNext]_trackingVars
  PROVE  announced \subseteq announced'
BY DEF TrackingNext, trackingVars, Group, UpdateLocation, Claim, UpdateStatus,
       OnLocation, LookupNone, Lookup, UpdateEta, PublishEta, OnLocationError,
       Die, notGroup

\* activeOrderForRider and the switch on the status yield an allowed ETA.
LEMMA LookupIsOK ==
  ASSUME TrackingIInv, NEW c \in Members, Lookup(c), NEW o \in Orders,
         IsActiveOrder(o, position[members[c].msg])
  PROVE  ClaimOK(o, members[c].msg, Target(o))
<1> USE BoundsAssumption DEF TrackingIInv, TrackingTypeOK
<1>1. members[c].msg \in 1..produced /\ members[c].msg \in Messages
  BY InHands DEF Lookup, OnMessage
<1>2. ~(members[c].msg > Never)
  BY <1>1 DEF Messages, Never
<1>3. orders[o].status # "DELIVERED" /\ orders[o].status \in Statuses
  BY DEF IsActiveOrder, Active
<1>4. ASSUME ~history[o].stale
      PROVE  history[o].endedAt = Never
  BY <1>3, <1>4 DEF HistoryGrounded
<1>5. CASE orders[o].status = "PICKED_UP"
  <2>1. Target(o) = "dropoff"
    BY <1>5 DEF Target
  <2>2. ~history[o].stale => history[o].pickedAt # Never
    BY <1>5 DEF HistoryGrounded
  <2> QED BY <1>1, <1>2, <1>4, <2>1, <2>2 DEF ClaimOK
<1>6. CASE orders[o].status # "PICKED_UP"
  <2>1. Target(o) = "pickup"
    BY <1>6 DEF Target
  <2>2. ~history[o].stale => history[o].pickedAt = Never
    BY <1>4, <1>6 DEF HistoryGrounded
  <2> QED BY <1>1, <1>2, <1>4, <2>1, <2>2 DEF ClaimOK
<1> QED BY <1>5, <1>6

\* Every ETA stays allowed, and every new one is.
LEMMA ClaimsPreserved ==
  ASSUME TrackingIInv, [TrackingNext]_trackingVars
  PROVE  ClaimsOK'
<1> USE DEF TrackingIInv, TrackingTypeOK
<1>1. ASSUME NEW c \in Members, NEW o, NEW m, NEW t,
             members[c].pc = "handle", job[c].step # "lookup",
             o = job[c].order, m = members[c].msg, t = job[c].target
      PROVE  o \in Orders /\ ClaimOK(o, m, t)'
  <2>1. o \in Orders
    BY <1>1 DEF JobsGrounded
  <2>2. ClaimOK(o, m, t)
    BY <1>1 DEF ClaimsOK
  <2> QED BY <2>1, <2>2, ClaimStaysOK
<1>2. ASSUME NEW c \in Members, job'[c].step # "lookup",
             NEW o, NEW m, NEW t,
             o = job'[c].order, m = members'[c].msg, t = job'[c].target
      PROVE  ClaimOK(o, m, t)'
  <2>1. CASE /\ job'[c] = job[c]
             /\ \/ members[c].pc # "handle"
                \/ members'[c].pc = "handle" /\ members'[c].msg = members[c].msg
    <3>1. members[c].pc = "handle"
      BY <1>2, <2>1 DEF JobsGrounded, NoJob
    <3> QED BY <1>1, <1>2, <2>1, <3>1
  <2>2. CASE job'[c] = NoJob
    BY <1>2, <2>2 DEF NoJob
  <2>3. ASSUME Lookup(c), members' = members, NEW p \in Orders,
               IsActiveOrder(p, position[members[c].msg]),
               job'[c] = [step |-> "update", order |-> p, target |-> Target(p)]
        PROVE  ClaimOK(o, m, t)'
    <3>1. o = p /\ m = members[c].msg /\ t = Target(p)
      BY <1>2, <2>3
    <3>2. ClaimOK(o, m, t)
      BY <2>3, <3>1, LookupIsOK
    <3> QED BY <3>1, <3>2, ClaimStaysOK
  <2>4. CASE /\ UpdateEta(c)
             /\ members' = members
             /\ job'[c] = [job[c] EXCEPT !.step = "publish"]
    <3>1. members[c].pc = "handle" /\ job[c].step = "update"
      BY <2>4 DEF UpdateEta, OnMessage
    <3>2. o = job[c].order /\ m = members[c].msg /\ t = job[c].target
      BY <1>2, <2>4
    <3> QED BY <1>1, <3>1, <3>2
  <2> QED BY <2>1, <2>2, <2>3, <2>4, HandlerShape
<1>3. ASSUME NEW o \in Orders, eta'[o].msg # 0, NEW m, NEW t,
             m = eta'[o].msg, t = eta'[o].target
      PROVE  ClaimOK(o, m, t)'
  <2>1. CASE eta'[o] = eta[o]
    <3>1. ClaimOK(o, m, t)
      BY <1>3, <2>1 DEF ClaimsOK
    <3> QED BY <3>1, ClaimStaysOK
  <2>2. ASSUME NEW c \in Members, OnMessage(c, "update"), job[c].order = o,
               eta'[o] = [msg |-> members[c].msg, target |-> job[c].target]
        PROVE  ClaimOK(o, m, t)'
    BY <1>1, <1>3, <2>2 DEF OnMessage
  <2> QED BY <2>1, <2>2, EtaShape
<1>4. ASSUME NEW a \in announced', NEW o, NEW m, NEW t,
             o = a.order, m = a.msg, t = a.target
      PROVE  ClaimOK(o, m, t)'
  <2>1. CASE a \in announced
    <3>1. ClaimOK(o, m, t) /\ o \in Orders
      BY <1>4, <2>1 DEF ClaimsOK
    <3> QED BY <3>1, ClaimStaysOK
  <2>2. ASSUME NEW c \in Members, OnMessage(c, "publish"), a = Announcement(c)
        PROVE  ClaimOK(o, m, t)'
    <3>1. o = job[c].order /\ m = members[c].msg /\ t = job[c].target
      BY <1>4, <2>2 DEF Announcement
    <3> QED BY <1>1, <2>2, <3>1 DEF OnMessage
  <2> QED BY <2>1, <2>2, AnnouncedShape
<1>5. \A c \in Members : job'[c].step # "lookup" =>
        ClaimOK(job[c].order, members[c].msg, job[c].target)'
  BY <1>2 DEF ClaimOK
<1>6. \A o \in Orders : eta'[o].msg # 0 =>
        ClaimOK(o, eta[o].msg, eta[o].target)'
  BY <1>3 DEF ClaimOK
<1>7. \A a \in announced' : ClaimOK(a.order, a.msg, a.target)'
  BY <1>4 DEF ClaimOK
<1> QED BY <1>5, <1>6, <1>7 DEF ClaimsOK

\* Handlers and their results are never forgotten.
LEMMA FailuresGrow ==
  ASSUME [TrackingNext]_trackingVars
  PROVE  failed \subseteq failed' /\ cut \subseteq cut'
<1>1. failed \subseteq failed'
  <2>1. [Next]_vars
    BY StepOfGroup
  <2> QED BY <2>1 DEF Next, Run, vars, Produce, RevokePartition,
             AssignPartition, Restart, FetchMessage, HandlerOk, HandlerError,
             CommitMessages, CommitError
<1>2. cut \subseteq cut'
  BY DEF TrackingNext, trackingVars, Group, UpdateLocation, Claim, UpdateStatus,
         OnLocation, LookupNone, Lookup, UpdateEta, PublishEta,
         OnLocationError, Die, notGroup
<1> QED BY <1>1, <1>2

\* The ETA of a row comes from a handler that is about to publish it, was
\* published, or belongs to a position whose handler failed or died.
LEMMA RowPreserved ==
  ASSUME TrackingIInv, [TrackingNext]_trackingVars
  PROVE  RowWasAnnounced'
<1> USE DEF TrackingIInv, TrackingTypeOK
<1> SUFFICES ASSUME NEW o \in Orders, eta'[o].msg # 0
             PROVE  \/ [order |-> o, msg |-> eta'[o].msg,
                        target |-> eta'[o].target] \in announced'
                    \/ eta'[o].msg \in failed' \union cut'
                    \/ \E c \in Members :
                         /\ members'[c].pc = "handle" /\ job'[c].step = "publish"
                         /\ members'[c].msg = eta'[o].msg
                         /\ job'[c].order = o /\ job'[c].target = eta'[o].target
  BY DEF RowWasAnnounced, OnMessage
<1>1. CASE eta'[o] = eta[o]
  <2>1. CASE [order |-> o, msg |-> eta[o].msg, target |-> eta[o].target]
               \in announced
    BY <1>1, <2>1, AnnouncedGrows
  <2>2. CASE eta[o].msg \in failed \union cut
    BY <1>1, <2>2, FailuresGrow
  <2>3. ASSUME NEW c \in Members, OnMessage(c, "publish"),
               members[c].msg = eta[o].msg,
               job[c].order = o, job[c].target = eta[o].target
        PROVE  \/ [order |-> o, msg |-> eta[o].msg, target |-> eta[o].target]
                    \in announced'
               \/ eta[o].msg \in failed' \union cut'
               \/ /\ members'[c].pc = "handle" /\ job'[c] = job[c]
                  /\ members'[c].msg = members[c].msg
    <3>1. members[c].pc = "handle" /\ job[c].step = "publish"
      BY <2>3 DEF OnMessage
    <3>2. CASE /\ job'[c] = job[c]
               /\ \/ members[c].pc # "handle"
                  \/ members'[c].pc = "handle" /\ members'[c].msg = members[c].msg
      BY <3>1, <3>2
    <3>3. CASE job'[c] = NoJob
      <4>1. job' # job
        BY <3>1, <3>3 DEF NoJob
      <4>2. ASSUME NEW d \in Members,
                   PublishEta(d) \/ OnLocationError(d) \/ Die(d)
            PROVE  d = c
        BY <3>1, <3>3, <4>2 DEF PublishEta, OnLocationError, Die, NoJob
      <4>3. ASSUME NEW d \in Members, Lookup(d) \/ UpdateEta(d) PROVE FALSE
        <5>1. job'[c].step = "lookup"
          BY <3>3 DEF NoJob
        <5>2. CASE Lookup(d)
          BY <3>1, <5>1, <5>2 DEF Lookup, OnMessage
        <5>3. CASE UpdateEta(d)
          BY <3>1, <5>1, <5>3 DEF UpdateEta, OnMessage
        <5> QED BY <4>3, <5>2, <5>3
      <4>4. PublishEta(c) \/ OnLocationError(c) \/ Die(c)
        BY <4>1, <4>2, <4>3
           DEF TrackingNext, trackingVars, Group, UpdateLocation, Claim,
               UpdateStatus, OnLocation, LookupNone, notGroup
      <4>5. CASE PublishEta(c)
        BY <2>3, <4>5 DEF PublishEta, Announcement
      <4>6. CASE OnLocationError(c)
        BY <2>3, <4>6 DEF OnLocationError, HandlerError
      <4>7. CASE Die(c)
        BY <2>3, <3>1, <4>7 DEF Die
      <4> QED BY <4>4, <4>5, <4>6, <4>7
    <3>4. CASE Lookup(c) \/ UpdateEta(c)
      BY <3>1, <3>4 DEF Lookup, UpdateEta, OnMessage
    <3> QED BY <3>2, <3>3, <3>4, HandlerShape
  <2> QED BY <1>1, <2>1, <2>2, <2>3 DEF RowWasAnnounced, OnMessage
<1>2. ASSUME NEW c \in Members, OnMessage(c, "update"), job[c].order = o,
             eta'[o] = [msg |-> members[c].msg, target |-> job[c].target],
             UpdateEta(c)
      PROVE  /\ members'[c].pc = "handle" /\ job'[c].step = "publish"
             /\ members'[c].msg = eta'[o].msg
             /\ job'[c].order = o /\ job'[c].target = eta'[o].target
  <2>1. members' = members /\ job' = [job EXCEPT ![c].step = "publish"]
    BY <1>2 DEF UpdateEta, vars
  <2> QED BY <1>2, <2>1 DEF OnMessage
<1>3. ASSUME NEW c \in Members,
             eta'[o] = [msg |-> members[c].msg, target |-> job[c].target],
             OnLocationError(c)
      PROVE  eta'[o].msg \in failed'
  BY <1>3 DEF OnLocationError, HandlerError
<1> QED BY <1>1, <1>2, <1>3, EtaShape

\* What comes before the position of a row's ETA was tried, and stays so.
LEMMA OrderPreserved ==
  ASSUME TrackingIInv, [TrackingNext]_trackingVars
  PROVE  EtaInOrder'
<1> USE DEF TrackingIInv, TrackingTypeOK
<1>1. \A m : Tried(m) => Tried(m)'
  BY StepOfGroup, Framing
<1> SUFFICES ASSUME NEW o \in Orders, NEW m \in 1..(eta'[o].msg - 1)
             PROVE  Tried(m)'
  BY DEF EtaInOrder
<1>2. CASE eta'[o] = eta[o]
  BY <1>1, <1>2 DEF EtaInOrder
<1>3. ASSUME NEW c \in Members, OnMessage(c, "update"),
             eta'[o] = [msg |-> members[c].msg, target |-> job[c].target]
      PROVE  Tried(m)'
  BY <1>1, <1>3, InHands DEF OnMessage
<1> QED BY <1>2, <1>3, EtaShape

\* The invariant holds initially.
LEMMA TrackingInitially == TrackingInit => TrackingIInv
<1> SUFFICES ASSUME TrackingInit PROVE TrackingIInv
  OBVIOUS
<1> USE BoundsAssumption, RowsAssumption DEF TrackingInit
<1>1. IInv
  BY DEF Init, IInv, TypeOK, CommittedWasTried, MembersGrounded,
         HandlesMessage, Messages
<1>2. TrackingTypeOK
  BY <1>1 DEF IInv, TrackingTypeOK, Never, NoJob, NoOrder, Targets, Statuses
<1>3. OnlyProduced
  BY DEF Init, OnlyProduced
<1>4. JobsGrounded
  BY DEF JobsGrounded, NoJob
<1>5. HistoryGrounded
  BY DEF HistoryGrounded
<1>6. ClaimsOK /\ RowWasAnnounced /\ EtaInOrder
  BY DEF ClaimsOK, RowWasAnnounced, EtaInOrder, NoJob
<1> QED BY <1>1, <1>2, <1>3, <1>4, <1>5, <1>6 DEF TrackingIInv

\* The inductive invariant holds throughout.
THEOREM TrackingInvariance == TrackingSpec => []TrackingIInv
<1>1. ASSUME TrackingIInv, [TrackingNext]_trackingVars PROVE TrackingIInv'
  <2>1. IInv'
    BY <1>1, GroupPreserved DEF TrackingIInv
  <2> QED BY <1>1, <2>1, TrackingTypes, ProducedPreserved, JobsPreserved,
             HistoryPreserved, ClaimsPreserved, RowPreserved, OrderPreserved
          DEF TrackingIInv
<1> QED BY <1>1, TrackingInitially, PTL DEF TrackingSpec

\* Every variable keeps its type: the event published always names an order.
THEOREM TrackingTypeCorrect == TrackingSpec => []TrackingTypeOK
<1>1. TrackingIInv => TrackingTypeOK
  BY DEF TrackingIInv
<1> QED BY <1>1, TrackingInvariance, PTL

\* The consumer group as eta-service uses it passes no position over untried.
THEOREM NoPositionPassedOver ==
  TrackingSpec => [](CommittedWasTried /\ PositionWasTried)
<1>1. TrackingIInv => CommittedWasTried /\ PositionWasTried
  BY DEF TrackingIInv, IInv, TypeOK, MembersGrounded, PositionWasTried, Tried
<1> QED BY <1>1, TrackingInvariance, PTL

\* OnLocation measures to the dropoff exactly from the pickup on, for any
\* interleaving of replicas, rebalances, status changes and claims.
THEOREM TargetIsRight == TrackingSpec => []TargetFollowsPickup
<1>1. TrackingIInv => TargetFollowsPickup
  BY DEF TrackingIInv, TrackingTypeOK, ClaimsOK, ClaimOK, EtaClaims,
         TargetFollowsPickup
<1> QED BY <1>1, TrackingInvariance, PTL

\* A position sent after the end of an order gives that order no ETA.
THEOREM EndedOrdersGetNone == TrackingSpec => []NoEtaAfterEnd
<1>1. TrackingIInv => NoEtaAfterEnd
  BY DEF TrackingIInv, TrackingTypeOK, ClaimsOK, ClaimOK, EtaClaims,
         NoEtaAfterEnd
<1> QED BY <1>1, TrackingInvariance, PTL

\* A row and the event about it differ only when a handler failed or died
\* between the UPDATE and the publish.
THEOREM RowsAreAnnounced == TrackingSpec => []RowWasAnnounced
<1>1. TrackingIInv => RowWasAnnounced
  BY DEF TrackingIInv
<1> QED BY <1>1, TrackingInvariance, PTL

\* An ETA goes back to an earlier position only when a handler repeats one.
THEOREM OlderIsRepeated == TrackingSpec => OlderOnlyOnRepeat
<1> DEFINE P == \A o \in Orders : eta'[o].msg < eta[o].msg =>
                  eta'[o].msg \in handled \union failed
<1>1. TrackingIInv /\ [TrackingNext]_trackingVars => [P]_trackingVars
  <2> SUFFICES ASSUME TrackingIInv, [TrackingNext]_trackingVars,
                      NEW o \in Orders, eta'[o].msg < eta[o].msg
               PROVE  eta'[o].msg \in handled \union failed
    OBVIOUS
  <2>1. eta[o].msg \in Nat
    BY BoundsAssumption DEF TrackingIInv, TrackingTypeOK
  <2>2. PICK c \in Members :
          /\ OnMessage(c, "update")
          /\ eta'[o] = [msg |-> members[c].msg, target |-> job[c].target]
    BY <2>1, EtaShape
  <2>3. eta'[o].msg \in 1..produced
    BY <2>2, InHands DEF OnMessage
  <2>4. eta'[o].msg \in 1..(eta[o].msg - 1)
    BY <2>1, <2>3 DEF TrackingIInv, IInv, TypeOK
  <2> QED BY <2>4 DEF TrackingIInv, EtaInOrder, Tried
<1> QED BY <1>1, TrackingInvariance, PTL DEF TrackingSpec, OlderOnlyOnRepeat

\* eta-service is a consumer group as KafkaConsumer describes it, with
\* OnLocation as the handler: hiding the rows, the handlers' steps and the
\* events leaves a behaviour of the consumer loop, so that whatever holds of
\* every such group holds here.
THEOREM PipelineIsConsumerGroup == TrackingSpec => Spec
<1>1. TrackingInit => Init
  BY DEF TrackingInit
<1>2. [TrackingNext]_trackingVars => [Next]_vars
  BY StepOfGroup
<1> QED BY <1>1, <1>2, PTL DEF TrackingSpec, Spec

\* So what the loop guarantees its handlers holds of eta-service: a position
\* that only failed is passed over by a later one that was handled.
THEOREM FailedPositionsArePassed == TrackingSpec => []FailedPassedByLater
BY PipelineIsConsumerGroup, FailureIsPassedByLater, PTL

=============================================================================
