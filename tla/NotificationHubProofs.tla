------------------------ MODULE NotificationHubProofs ------------------------
(***************************************************************************)
(* The theorems of NotificationHub: for any replicas, the hub holds the    *)
(* connections whose handlers are at work; for one replica, no event that  *)
(* is owed to a connected customer is passed over.                         *)
(***************************************************************************)
EXTENDS NotificationHub, SequenceTheorems, TLAPS

\* What a step does, by action: the form in which the lemmas use Next.
LEMMA Steps ==
  ASSUME [Next]_vars
  PROVE  \/ \E t \in Topics, o \in Orders \union {NoOrder} : Publish(t, o)
         \/ \E t \in Topics : RevokePartition(t)
         \/ \E n \in Replicas, t \in Topics : AssignPartition(n, t)
         \/ \E n \in Replicas, t \in Topics, o \in Orders \union {NoOrder} :
              Broadcast(n, t, o)
         \/ \E n \in Replicas, t \in Topics, c \in Conns : StartWrite(n, t, c)
         \/ \E n \in Replicas, t \in Topics, c \in Conns : WriteStalls(n, t, c)
         \/ \E n \in Replicas, t \in Topics, c \in Conns : WriteOk(n, t, c)
         \/ \E n \in Replicas, t \in Topics, c \in Conns : WriteFail(n, t, c)
         \/ \E n \in Replicas, t \in Topics : CommitMessages(n, t)
         \/ \E n \in Replicas, t \in Topics : CommitError(n, t)
         \/ \E c \in Conns, n \in Replicas, o \in Orders : Register(c, n, o)
         \/ \E c \in Conns : ReadError(c)
         \/ \E c \in Conns : Unregister(c)
         \/ \E c \in Conns : Close(c)
         \/ \E c \in Conns : Ping(c)
         \/ \E c \in Conns : PingReturns(c)
         \/ \E n \in Replicas : Crash(n)
         \/ UNCHANGED vars
BY DEF Next, Consume, order

\* The log of a topic has a length, and what is published becomes its end.
LEMMA Published ==
  ASSUME TypeOK, NEW t \in Topics, NEW o \in Orders \union {NoOrder}, Publish(t, o)
  PROVE  /\ Len(log[t]) \in Nat
         /\ log' \in [Topics -> Seq(Orders \union {NoOrder})]
         /\ Len(log'[t]) = Len(log[t]) + 1
         /\ log'[t][Len(log[t]) + 1] = o
         /\ \A i \in 1..Len(log[t]) : log'[t][i] = log[t][i]
         /\ \A u \in Topics \ {t} : log'[u] = log[u]
<1>1. log[t] \in Seq(Orders \union {NoOrder})
  BY DEF TypeOK
<1>2. log'[t] = Append(log[t], o) /\ \A u \in Topics \ {t} : log'[u] = log[u]
  BY DEF TypeOK, Publish
<1>3. log' \in [Topics -> Seq(Orders \union {NoOrder})]
  BY <1>1 DEF TypeOK, Publish
<1> QED BY <1>1, <1>2, <1>3

LEMMA Lengths ==
  ASSUME TypeOK
  PROVE  \A t \in Topics : Len(log[t]) \in Nat
BY DEF TypeOK

-----------------------------------------------------------------------------
(* Types. *)

JobType ==
  [pc : {"fetch", "send"}, event : 0..MaxEvents,
   todo : SUBSET Conns, now : SUBSET Conns, stalled : BOOLEAN]

ConnType ==
  [pc      : {"new", "reading", "leaving", "unregistered", "done"},
   replica : Replicas \union {NoReplica},
   order   : Orders \union {NoOrder},
   closed  : BOOLEAN]

HistoryType ==
  /\ owed \in [Conns -> SUBSET (Topics \X (1..MaxEvents))]
  /\ latest \in [Conns -> [Topics -> 0..MaxEvents]]

\* An idle consumer's record is one.
LEMMA IdleTyped ==
  NoJob \in JobType
BY BoundsAssumption DEF NoJob, JobType

\* A consumer's record stays one when the event goes on to the next
\* connection, or is done with one.
LEMMA JobTyped ==
  ASSUME TypeOK, NEW n \in Replicas, NEW t \in Topics, NEW j \in JobType, SetJob(n, t, j)
  PROVE  jobs' \in [Replicas -> [Topics -> JobType]]
<1>1. jobs \in [Replicas -> [Topics -> JobType]]
  BY DEF TypeOK, JobType
<1> QED BY <1>1 DEF SetJob

LEMMA JobsTyped ==
  ASSUME TypeOK, NEW n \in Replicas, NEW t \in Topics
  PROVE  /\ jobs[n][t] \in JobType
         /\ [jobs[n][t] EXCEPT !.now = {}, !.stalled = FALSE] \in JobType
         /\ [jobs[n][t] EXCEPT !.stalled = TRUE] \in JobType
         /\ \A c \in Conns :
              [jobs[n][t] EXCEPT !.todo = @ \ {c}, !.now = {c}] \in JobType
<1>1. jobs[n][t] \in JobType
  BY DEF TypeOK, JobType
<1>2. [jobs[n][t] EXCEPT !.now = {}, !.stalled = FALSE] \in JobType
  BY <1>1 DEF JobType
<1>4. [jobs[n][t] EXCEPT !.stalled = TRUE] \in JobType
  BY <1>1 DEF JobType
<1>3. ASSUME NEW c \in Conns
      PROVE  [jobs[n][t] EXCEPT !.todo = @ \ {c}, !.now = {c}] \in JobType
  BY <1>1 DEF JobType
<1> QED BY <1>1, <1>2, <1>3, <1>4

\* A connection's record stays one when its handler goes on or it is closed.
LEMMA ConnTyped ==
  ASSUME TypeOK, NEW c \in Conns,
         NEW pc \in {"new", "reading", "leaving", "unregistered", "done"}
  PROVE  /\ conns \in [Conns -> ConnType]
         /\ [conns[c] EXCEPT !.pc = pc] \in ConnType
         /\ [conns[c] EXCEPT !.closed = TRUE] \in ConnType
         /\ [conns[c] EXCEPT !.pc = pc, !.closed = TRUE] \in ConnType
<1>1. conns \in [Conns -> ConnType]
  BY DEF TypeOK, ConnType
<1>2. conns[c] \in ConnType
  BY <1>1
<1>3. [conns[c] EXCEPT !.pc = pc] \in ConnType
  BY <1>2, Zenon DEF ConnType
<1>4. [conns[c] EXCEPT !.closed = TRUE] \in ConnType
  BY <1>2 DEF ConnType
<1>5. [conns[c] EXCEPT !.pc = pc, !.closed = TRUE] \in ConnType
  BY <1>2 DEF ConnType
<1> QED BY <1>1, <1>3, <1>4, <1>5

\* Forgetting leaves a history.
LEMMA Forgotten ==
  ASSUME TypeOK, NEW C \in SUBSET Conns, Forget(C)
  PROVE  HistoryType'
<1>1. {} \in SUBSET (Topics \X (1..MaxEvents)) /\ 0 \in 0..MaxEvents
  BY BoundsAssumption
<1> QED BY <1>1 DEF TypeOK, HistoryType, Forget

\* A reader that stays, or starts again, is within the log.
LEMMA ReadersTyped ==
  ASSUME TypeOK,
         \A n \in Replicas, t \in Topics :
           position'[n][t] = position[n][t] \/ position'[n][t] = 0
  PROVE  \A n \in Replicas, t \in Topics : position'[n][t] <= Len(log[t])
<1>1. \A n \in Replicas, t \in Topics : position[n][t] <= Len(log[t])
  BY DEF TypeOK
<1> QED BY <1>1, Lengths

LEMMA TypesPreserved ==
  ASSUME TypeOK, JobsGrounded, HandlersGrounded, [Next]_vars
  PROVE  TypeOK'
<1> USE BoundsAssumption, NoReplicaAssumption, NoOrderAssumption
<1>1. ASSUME NEW t \in Topics, NEW o \in Orders \union {NoOrder}, Publish(t, o)
      PROVE  TypeOK'
  <2>1. /\ log' \in [Topics -> Seq(Orders \union {NoOrder})]
        /\ \A u \in Topics : Len(log[u]) \in Nat /\ Len(log[u]) <= Len(log'[u])
        /\ \A u \in Topics : Len(log'[u]) <= MaxEvents
    BY <1>1, Published, Lengths DEF TypeOK, Publish
  <2>2. owed' \in [Conns -> SUBSET (Topics \X (1..MaxEvents))]
    <3>1. Len(log[t]) + 1 \in 1..MaxEvents
      BY <1>1, Published DEF TypeOK, Publish
    <3>2. <<t, Len(log[t]) + 1>> \in Topics \X (1..MaxEvents)
      BY <3>1
    <3> QED BY <1>1, <3>2 DEF TypeOK, Publish
  <2>3. /\ \A u \in Topics : offset'[u] <= Len(log'[u])
        /\ \A n \in Replicas, u \in Topics : position'[n][u] <= Len(log'[u])
    BY <1>1, <2>1 DEF TypeOK, Publish, groupVars
  <2> QED BY <1>1, <2>1, <2>2, <2>3 DEF TypeOK, Publish, groupVars
<1>2. ASSUME NEW t \in Topics, RevokePartition(t) PROVE TypeOK'
  <2>1. owner[t] \in Replicas
    BY <1>2 DEF TypeOK, RevokePartition
  <2>2. \A n \in Replicas, u \in Topics :
          position'[n][u] = position[n][u] \/ position'[n][u] = 0
    BY <1>2, <2>1 DEF TypeOK, RevokePartition
  <2>3. \A n \in Replicas, u \in Topics : position'[n][u] <= Len(log[u])
    BY <2>2, ReadersTyped
  <2>4. position' \in [Replicas -> [Topics -> 0..MaxEvents]]
    BY <1>2, <2>1 DEF TypeOK, RevokePartition
  <2> QED BY <1>2, <2>3, <2>4 DEF TypeOK, RevokePartition, Fault, connVars, history
<1>3. ASSUME NEW n \in Replicas, NEW t \in Topics, AssignPartition(n, t)
      PROVE  TypeOK'
  <2>1. /\ position' \in [Replicas -> [Topics -> 0..MaxEvents]]
        /\ \A m \in Replicas, u \in Topics : position'[m][u] <= Len(log[u])
    BY <1>3 DEF TypeOK, AssignPartition
  <2> QED BY <1>3, <2>1 DEF TypeOK, AssignPartition, connVars, history
<1>4. ASSUME NEW n \in Replicas, NEW t \in Topics, NEW o \in Orders \union {NoOrder},
             Broadcast(n, t, o)
      PROVE  TypeOK'
  <2>1. position[n][t] + 1 \in 0..MaxEvents /\ position[n][t] + 1 <= Len(log[t])
    <3>1. position[n][t] \in 0..MaxEvents /\ Len(log[t]) <= MaxEvents
      BY DEF TypeOK
    <3>2. position[n][t] < Len(log[t])
      BY <1>4 DEF Broadcast
    <3> QED BY <3>1, <3>2, Lengths
  <2>2. (IF o \in Orders THEN hub[n][o] ELSE {}) \in SUBSET Conns
    BY DEF TypeOK
  <2>3. /\ position' \in [Replicas -> [Topics -> 0..MaxEvents]]
        /\ \A m \in Replicas, u \in Topics : position'[m][u] <= Len(log[u])
    BY <1>4, <2>1 DEF TypeOK, Broadcast
  <2> DEFINE copy == IF o \in Orders THEN hub[n][o] ELSE {}
             j == [pc |-> "send", event |-> position[n][t] + 1, now |-> {},
                   todo |-> copy, stalled |-> FALSE]
  <2>4. j \in JobType
    BY <2>1, <2>2 DEF JobType
  <2>5. SetJob(n, t, j)
    BY <1>4 DEF Broadcast
  <2> HIDE DEF j, copy
  <2>6. jobs' \in [Replicas -> [Topics -> JobType]]
    BY <2>4, <2>5, JobTyped
  <2>7. UNCHANGED <<log, offset, owner, hub, conns, ping, owed, latest, faults>>
    BY <1>4 DEF Broadcast, connVars, history
  <2> QED BY <2>3, <2>6, <2>7 DEF TypeOK, JobType
<1>5. ASSUME NEW n \in Replicas, NEW t \in Topics, NEW c \in Conns,
             StartWrite(n, t, c) \/ WriteStalls(n, t, c)
      PROVE  TypeOK'
  <2>1. jobs' \in [Replicas -> [Topics -> JobType]]
    BY <1>5, JobTyped, JobsTyped DEF StartWrite, WriteStalls
  <2> QED BY <1>5, <2>1
          DEF TypeOK, JobType, StartWrite, WriteStalls, groupVars, connVars, history
<1>6. ASSUME NEW n \in Replicas, NEW t \in Topics, NEW c \in Conns, WriteOk(n, t, c)
      PROVE  TypeOK'
  <2>2. jobs' \in [Replicas -> [Topics -> JobType]]
    BY <1>6, JobTyped, JobsTyped DEF WriteOk, WriteReturns
  <2>3. jobs[n][t].event \in 0..MaxEvents
    BY DEF TypeOK
  <2>4. owed' \in [Conns -> SUBSET (Topics \X (1..MaxEvents))]
    BY <1>6 DEF TypeOK, WriteOk
  <2>5. latest' \in [Conns -> [Topics -> 0..MaxEvents]]
    BY <1>6, <2>3 DEF TypeOK, WriteOk
  <2> QED BY <1>6, <2>2, <2>4, <2>5 DEF TypeOK, JobType, WriteOk, groupVars
<1>7. ASSUME NEW n \in Replicas, NEW t \in Topics, NEW c \in Conns, WriteFail(n, t, c)
      PROVE  TypeOK'
  <2>1. jobs' \in [Replicas -> [Topics -> JobType]]
    BY <1>7, JobTyped, JobsTyped DEF WriteFail, WriteReturns
  <2>2. conns' \in [Conns -> ConnType]
    BY <1>7, ConnTyped DEF WriteFail
  <2>3. HistoryType'
    BY <1>7, Forgotten DEF WriteFail
  <2> QED BY <1>7, <2>1, <2>2, <2>3
          DEF TypeOK, JobType, ConnType, HistoryType, WriteFail, groupVars
<1>8. ASSUME NEW n \in Replicas, NEW t \in Topics, CommitMessages(n, t)
      PROVE  TypeOK'
  <2>1. jobs' \in [Replicas -> [Topics -> JobType]]
    BY <1>8, JobTyped, IdleTyped DEF CommitMessages
  <2>2. /\ offset' \in [Topics -> 0..MaxEvents]
        /\ \A u \in Topics : offset'[u] <= Len(log[u])
    BY <1>8 DEF TypeOK, JobsGrounded, CommitMessages
  <2> QED BY <1>8, <2>1, <2>2
          DEF TypeOK, JobType, CommitMessages, connVars, history
<1>17. ASSUME NEW n \in Replicas, NEW t \in Topics, CommitError(n, t)
       PROVE  TypeOK'
  <2>1. jobs' \in [Replicas -> [Topics -> JobType]]
    BY <1>17, JobTyped, IdleTyped DEF CommitError
  <2>2. faults' \in 0..MaxFaults
    BY <1>17 DEF TypeOK, CommitError, Fault
  <2> QED BY <1>17, <2>1, <2>2
          DEF TypeOK, JobType, CommitError, groupVars, connVars, history
<1>9. ASSUME NEW c \in Conns, NEW n \in Replicas, NEW o \in Orders, Register(c, n, o)
      PROVE  TypeOK'
  BY <1>9 DEF TypeOK, Register, groupVars, history
<1>10. ASSUME NEW c \in Conns, ReadError(c) PROVE TypeOK'
  <2>1. conns' \in [Conns -> ConnType]
    BY <1>10, ConnTyped DEF ReadError
  <2>2. ping' \in [Conns -> {"wait", "write", "stopped"}]
    BY <1>10 DEF TypeOK, ReadError
  <2>3. HistoryType'
    BY <1>10, Forgotten DEF ReadError
  <2> QED BY <1>10, <2>1, <2>2, <2>3
          DEF TypeOK, ConnType, HistoryType, ReadError, groupVars
<1>11. ASSUME NEW c \in Conns, Unregister(c) PROVE TypeOK'
  <2>1. conns' \in [Conns -> ConnType]
    BY <1>11, ConnTyped DEF Unregister
  <2>2. hub' \in [Replicas -> [Orders -> SUBSET Conns]]
    <3>1. conns[c].replica \in Replicas /\ conns[c].order \in Orders
      BY <1>11 DEF HandlersGrounded, Unregister
    <3> QED BY <1>11, <3>1 DEF TypeOK, Unregister
  <2> QED BY <1>11, <2>1, <2>2 DEF TypeOK, ConnType, Unregister, groupVars, history
<1>12. ASSUME NEW c \in Conns, Close(c) PROVE TypeOK'
  <2>1. conns' \in [Conns -> ConnType]
    BY <1>12, ConnTyped DEF Close
  <2> QED BY <1>12, <2>1 DEF TypeOK, ConnType, Close, groupVars, history
<1>13. ASSUME NEW c \in Conns, Ping(c) PROVE TypeOK'
  BY <1>13 DEF TypeOK, Ping, groupVars, history
<1>14. ASSUME NEW c \in Conns, PingReturns(c) PROVE TypeOK'
  BY <1>14 DEF TypeOK, PingReturns, groupVars, history
<1>15. ASSUME NEW n \in Replicas, Crash(n) PROVE TypeOK'
  <2>1. conns' \in [Conns -> ConnType]
    BY <1>15, ConnTyped DEF Crash
  <2>2. jobs' \in [Replicas -> [Topics -> JobType]]
    <3>1. jobs \in [Replicas -> [Topics -> JobType]]
      BY DEF TypeOK, JobType
    <3> QED BY <1>15, <3>1, IdleTyped DEF Crash
  <2>3. HistoryType'
    BY <1>15, Forgotten DEF Crash
  <2>4. hub' \in [Replicas -> [Orders -> SUBSET Conns]]
    BY <1>15 DEF TypeOK, Crash
  <2>5. /\ owner' \in [Topics -> Replicas \union {NoReplica}]
        /\ ping' \in [Conns -> {"wait", "write", "stopped"}]
    BY <1>15 DEF TypeOK, Crash
  <2>6. faults' \in 0..MaxFaults
    <3>1. faults' = faults \/ (faults < MaxFaults /\ faults' = faults + 1)
      BY <1>15, Zenon DEF Crash
    <3> QED BY <3>1 DEF TypeOK
  <2>7. /\ position' \in [Replicas -> [Topics -> 0..MaxEvents]]
        /\ \A m \in Replicas, u \in Topics : position'[m][u] <= Len(log[u])
    <3>1. position \in [Replicas -> [Topics -> 0..MaxEvents]]
      BY DEF TypeOK
    <3>2. position' = [position EXCEPT ![n] = [t \in Topics |-> 0]]
      BY <1>15 DEF Crash
    <3>3. \A m \in Replicas, u \in Topics :
            position'[m][u] = position[m][u] \/ position'[m][u] = 0
      BY <3>1, <3>2
    <3> QED BY <3>1, <3>2, <3>3, ReadersTyped
  <2> QED BY <1>15, <2>1, <2>2, <2>3, <2>4, <2>5, <2>6, <2>7
          DEF TypeOK, JobType, ConnType, HistoryType, Crash
<1>16. CASE UNCHANGED vars
  BY <1>16 DEF TypeOK, vars, groupVars, connVars, history
<1> QED BY <1>1, <1>2, <1>3, <1>4, <1>5, <1>6, <1>7, <1>8, <1>9, <1>10, <1>11,
           <1>12, <1>13, <1>14, <1>15, <1>16, <1>17, Steps

-----------------------------------------------------------------------------
(* The hub and the handlers. *)

Served == {"reading", "leaving"}

\* Steps that move no handler into or out of the hub's care.
LEMMA HubUntouched ==
  ASSUME HubMatchesHandlers, HandlersGrounded, UNCHANGED hub,
         \A c \in Conns :
           /\ conns'[c].replica = conns[c].replica
           /\ conns'[c].order = conns[c].order
           /\ conns'[c].pc \in Served <=> conns[c].pc \in Served
           /\ conns[c].pc = "new" <=> conns'[c].pc = "new"
  PROVE  HubMatchesHandlers' /\ HandlersGrounded'
BY DEF HubMatchesHandlers, HandlersGrounded, Served

LEMMA HubPreserved ==
  ASSUME TypeOK, HubMatchesHandlers, HandlersGrounded, [Next]_vars
  PROVE  HubMatchesHandlers' /\ HandlersGrounded'
<1> USE DEF Served
<1>1. ASSUME NEW c \in Conns, NEW n \in Replicas, NEW o \in Orders, Register(c, n, o)
      PROVE  HubMatchesHandlers' /\ HandlersGrounded'
  <2>1. /\ conns'[c] = [pc |-> "reading", replica |-> n, order |-> o, closed |-> FALSE]
        /\ \A x \in Conns \ {c} : conns'[x] = conns[x]
        /\ conns[c].pc = "new"
    BY <1>1 DEF TypeOK, Register
  <2>2. ASSUME NEW m \in Replicas, NEW p \in Orders
        PROVE  hub'[m][p] = IF m = n /\ p = o THEN hub[m][p] \union {c} ELSE hub[m][p]
    BY <1>1 DEF TypeOK, Register
  <2>3. HandlersGrounded'
    BY <2>1 DEF HandlersGrounded
  <2>4. ASSUME NEW m \in Replicas, NEW p \in Orders
        PROVE  hub'[m][p] = {x \in Conns : /\ conns'[x].pc \in {"reading", "leaving"}
                                          /\ conns'[x].replica = m
                                          /\ conns'[x].order = p}
    <3>1. \A x \in Conns : x \in hub[m][p] <=>
            conns[x].pc \in Served /\ conns[x].replica = m /\ conns[x].order = p
      BY DEF HubMatchesHandlers
    <3>2. conns'[c].pc = "reading" /\ conns'[c].replica = n /\ conns'[c].order = o
      BY <2>1
    <3>3. c \notin hub[m][p]
      BY <2>1, <3>1
    <3>4. \A x \in Conns : x \in hub'[m][p] <=>
            conns'[x].pc \in Served /\ conns'[x].replica = m /\ conns'[x].order = p
      <4> SUFFICES ASSUME NEW x \in Conns
                   PROVE  x \in hub'[m][p] <=>
                            /\ conns'[x].pc \in Served
                            /\ conns'[x].replica = m /\ conns'[x].order = p
        OBVIOUS
      <4>1. CASE x = c
        BY <4>1, <2>2, <3>2, <3>3, Zenon
      <4>2. CASE x # c
        <5>1. conns'[x] = conns[x]
          BY <4>2, <2>1
        <5>2. x \in hub'[m][p] <=> x \in hub[m][p]
          BY <4>2, <2>2
        <5> QED BY <5>1, <5>2, <3>1
      <4> QED BY <4>1, <4>2
    <3>5. hub[m][p] \subseteq Conns
      BY DEF TypeOK
    <3>6. hub'[m][p] \subseteq Conns
      BY <2>2, <3>5
    <3> QED BY <3>4, <3>6
  <2> QED BY <2>3, <2>4 DEF HubMatchesHandlers
<1>2. ASSUME NEW c \in Conns, ReadError(c)
      PROVE  HubMatchesHandlers' /\ HandlersGrounded'
  <2>1. /\ conns[c].pc = "reading"
        /\ conns'[c] = [conns[c] EXCEPT !.pc = "leaving"]
        /\ \A x \in Conns \ {c} : conns'[x] = conns[x]
        /\ UNCHANGED hub
    BY <1>2 DEF TypeOK, ReadError
  <2>2. /\ conns'[c].pc = "leaving"
        /\ conns'[c].replica = conns[c].replica /\ conns'[c].order = conns[c].order
    BY <2>1 DEF TypeOK
  <2> QED BY <2>1, <2>2, HubUntouched
<1>3. ASSUME NEW c \in Conns, Unregister(c)
      PROVE  HubMatchesHandlers' /\ HandlersGrounded'
  <2>1. /\ conns[c].pc = "leaving"
        /\ conns'[c] = [conns[c] EXCEPT !.pc = "unregistered"]
        /\ \A x \in Conns \ {c} : conns'[x] = conns[x]
    BY <1>3 DEF TypeOK, Unregister
  <2>2. /\ conns'[c].pc = "unregistered"
        /\ conns'[c].replica = conns[c].replica /\ conns'[c].order = conns[c].order
    BY <2>1 DEF TypeOK
  <2>3. conns[c].replica \in Replicas /\ conns[c].order \in Orders
    BY <2>1 DEF HandlersGrounded
  <2>4. ASSUME NEW m \in Replicas, NEW p \in Orders
        PROVE  hub'[m][p] = IF m = conns[c].replica /\ p = conns[c].order
                              THEN hub[m][p] \ {c} ELSE hub[m][p]
    BY <1>3, <2>3 DEF TypeOK, Unregister
  <2>5. HandlersGrounded'
    BY <2>1, <2>2, <2>3 DEF HandlersGrounded
  <2>6. ASSUME NEW m \in Replicas, NEW p \in Orders
        PROVE  hub'[m][p] = {x \in Conns : /\ conns'[x].pc \in {"reading", "leaving"}
                                          /\ conns'[x].replica = m
                                          /\ conns'[x].order = p}
    <3>1. \A x \in Conns : x \in hub[m][p] <=>
            conns[x].pc \in Served /\ conns[x].replica = m /\ conns[x].order = p
      BY DEF HubMatchesHandlers
    <3>2. c \notin hub'[m][p]
      <4>1. CASE m = conns[c].replica /\ p = conns[c].order
        BY <4>1, <2>4
      <4>2. CASE ~(m = conns[c].replica /\ p = conns[c].order)
        BY <4>2, <2>4, <3>1
      <4> QED BY <4>1, <4>2
    <3>3. \A x \in Conns : x \in hub'[m][p] <=>
            conns'[x].pc \in Served /\ conns'[x].replica = m /\ conns'[x].order = p
      <4> SUFFICES ASSUME NEW x \in Conns
                   PROVE  x \in hub'[m][p] <=>
                            /\ conns'[x].pc \in Served
                            /\ conns'[x].replica = m /\ conns'[x].order = p
        OBVIOUS
      <4>1. CASE x = c
        BY <4>1, <2>2, <3>2
      <4>2. CASE x # c
        <5>1. conns'[x] = conns[x]
          BY <4>2, <2>1
        <5>2. x \in hub'[m][p] <=> x \in hub[m][p]
          BY <4>2, <2>4
        <5> QED BY <5>1, <5>2, <3>1
      <4> QED BY <4>1, <4>2
    <3>4. hub[m][p] \subseteq Conns
      BY DEF TypeOK
    <3>5. hub'[m][p] \subseteq Conns
      BY <2>4, <3>4
    <3> QED BY <3>3, <3>5
  <2> QED BY <2>5, <2>6 DEF HubMatchesHandlers
<1>4. ASSUME NEW c \in Conns, Close(c)
      PROVE  HubMatchesHandlers' /\ HandlersGrounded'
  <2>1. /\ conns[c].pc = "unregistered"
        /\ conns'[c] = [conns[c] EXCEPT !.pc = "done", !.closed = TRUE]
        /\ \A x \in Conns \ {c} : conns'[x] = conns[x]
        /\ UNCHANGED hub
    BY <1>4 DEF TypeOK, Close
  <2>2. /\ conns'[c].pc = "done"
        /\ conns'[c].replica = conns[c].replica /\ conns'[c].order = conns[c].order
    BY <2>1 DEF TypeOK
  <2> QED BY <2>1, <2>2, HubUntouched
<1>5. ASSUME NEW n \in Replicas, NEW t \in Topics, NEW c \in Conns, WriteFail(n, t, c)
      PROVE  HubMatchesHandlers' /\ HandlersGrounded'
  <2>1. /\ conns'[c] = [conns[c] EXCEPT !.closed = TRUE]
        /\ \A x \in Conns \ {c} : conns'[x] = conns[x]
        /\ UNCHANGED hub
    BY <1>5 DEF TypeOK, WriteFail
  <2>2. /\ conns'[c].pc = conns[c].pc
        /\ conns'[c].replica = conns[c].replica /\ conns'[c].order = conns[c].order
    BY <2>1 DEF TypeOK
  <2> QED BY <2>1, <2>2, HubUntouched
<1>6. ASSUME NEW n \in Replicas, Crash(n)
      PROVE  HubMatchesHandlers' /\ HandlersGrounded'
  <2>1. ASSUME NEW x \in Conns
        PROVE  /\ conns[x].replica = n =>
                    /\ conns'[x].pc = "done" /\ conns'[x].replica = n
                    /\ conns'[x].order = conns[x].order
               /\ conns[x].replica # n => conns'[x] = conns[x]
    BY <1>6 DEF TypeOK, Crash
  <2>2. ASSUME NEW m \in Replicas, NEW p \in Orders
        PROVE  hub'[m][p] = IF m = n THEN {} ELSE hub[m][p]
    BY <1>6 DEF TypeOK, Crash
  <2>3. HandlersGrounded'
    <3> SUFFICES ASSUME NEW x \in Conns
                 PROVE  /\ conns'[x].pc = "new" => conns'[x].replica = NoReplica
                        /\ conns'[x].pc # "new" =>
                             conns'[x].replica \in Replicas /\ conns'[x].order \in Orders
      BY DEF HandlersGrounded
    <3>1. CASE conns[x].replica = n
      <4>1. conns[x].pc # "new"
        BY <3>1, NoReplicaAssumption DEF HandlersGrounded
      <4> QED BY <2>1, <3>1, <4>1 DEF HandlersGrounded
    <3>2. CASE conns[x].replica # n
      BY <2>1, <3>2 DEF HandlersGrounded
    <3> QED BY <3>1, <3>2
  <2>4. ASSUME NEW m \in Replicas, NEW p \in Orders
        PROVE  hub'[m][p] = {x \in Conns : /\ conns'[x].pc \in {"reading", "leaving"}
                                          /\ conns'[x].replica = m
                                          /\ conns'[x].order = p}
    BY <2>1, <2>2 DEF HubMatchesHandlers
  <2> QED BY <2>3, <2>4 DEF HubMatchesHandlers
<1>7. CASE UNCHANGED <<hub, conns>>
  BY <1>7, HubUntouched
<1> QED BY <1>1, <1>2, <1>3, <1>4, <1>5, <1>6, <1>7, Steps
        DEF Publish, RevokePartition, AssignPartition, Broadcast, StartWrite,
            WriteStalls, WriteOk, CommitMessages, CommitError, Ping, PingReturns, connVars, vars

-----------------------------------------------------------------------------
(* The consumers' hands. *)

\* SetJob changes one consumer of one replica.
LEMMA JobSet ==
  ASSUME TypeOK, NEW n \in Replicas, NEW t \in Topics, NEW j, SetJob(n, t, j)
  PROVE  /\ jobs'[n][t] = j
         /\ \A m \in Replicas, u \in Topics :
              m # n \/ u # t => jobs'[m][u] = jobs[m][u]
<1>1. jobs \in [Replicas -> [Topics -> JobType]]
  BY DEF TypeOK, JobType
<1> QED BY <1>1 DEF SetJob

\* A write begins.
LEMMA Writing ==
  ASSUME TypeOK, NEW n \in Replicas, NEW t \in Topics, NEW c \in Conns,
         StartWrite(n, t, c)
  PROVE  /\ jobs'[n][t].pc = "send"
         /\ jobs'[n][t].event = jobs[n][t].event
         /\ jobs'[n][t].todo = jobs[n][t].todo \ {c}
         /\ jobs'[n][t].now = {c}
         /\ jobs[n][t].pc = "send" /\ c \in jobs[n][t].todo
         /\ jobs[n][t].now = {}
         /\ \A m \in Replicas, u \in Topics :
              m # n \/ u # t => jobs'[m][u] = jobs[m][u]
<1>1. jobs[n][t] \in JobType
  BY JobsTyped
<1>2. /\ jobs'[n][t] = [jobs[n][t] EXCEPT !.todo = @ \ {c}, !.now = {c}]
      /\ \A m \in Replicas, u \in Topics :
           m # n \/ u # t => jobs'[m][u] = jobs[m][u]
  BY JobSet DEF StartWrite
<1> QED BY <1>1, <1>2 DEF StartWrite, JobType

\* A write blocks, which leaves in the consumer's hands what was there.
LEMMA Stalling ==
  ASSUME TypeOK, JobsGrounded, NEW n \in Replicas, NEW t \in Topics, NEW c \in Conns,
         WriteStalls(n, t, c)
  PROVE  /\ jobs[n][t].pc = "send"
         /\ \A m \in Replicas, u \in Topics :
              /\ jobs'[m][u].pc = jobs[m][u].pc /\ jobs'[m][u].event = jobs[m][u].event
              /\ jobs'[m][u].todo = jobs[m][u].todo /\ jobs'[m][u].now = jobs[m][u].now
         /\ \A m \in Replicas, u \in Topics :
              m # n \/ u # t => jobs'[m][u] = jobs[m][u]
<1>1. jobs[n][t] \in JobType
  BY JobsTyped
<1>2. /\ jobs'[n][t] = [jobs[n][t] EXCEPT !.stalled = TRUE]
      /\ \A m \in Replicas, u \in Topics :
           m # n \/ u # t => jobs'[m][u] = jobs[m][u]
  BY JobSet DEF WriteStalls
<1>3. jobs[n][t] # NoJob
  BY DEF WriteStalls, NoJob
<1>4. jobs[n][t].pc = "send"
  BY <1>1, <1>3 DEF JobsGrounded, JobType
<1> QED BY <1>1, <1>2, <1>4 DEF JobType

\* A write ends, well or badly.
LEMMA Written ==
  ASSUME TypeOK, JobsGrounded, NEW n \in Replicas, NEW t \in Topics, NEW c \in Conns,
         jobs[n][t].now = {c}, WriteReturns(n, t)
  PROVE  /\ jobs[n][t].pc = "send" /\ jobs'[n][t].pc = "send"
         /\ jobs'[n][t].event = jobs[n][t].event
         /\ jobs'[n][t].todo = jobs[n][t].todo
         /\ jobs'[n][t].now = {}
         /\ \A m \in Replicas, u \in Topics :
              m # n \/ u # t => jobs'[m][u] = jobs[m][u]
<1>1. jobs[n][t] \in JobType
  BY JobsTyped
<1>2. /\ jobs'[n][t] = [jobs[n][t] EXCEPT !.now = {}, !.stalled = FALSE]
      /\ \A m \in Replicas, u \in Topics :
           m # n \/ u # t => jobs'[m][u] = jobs[m][u]
  BY JobSet DEF WriteReturns
<1>3. jobs[n][t].pc = "send"
  <2>1. jobs[n][t] # NoJob
    BY DEF NoJob
  <2> QED BY <1>1, <2>1 DEF JobsGrounded, JobType
<1> QED BY <1>1, <1>2, <1>3 DEF JobType

LEMMA JobsPreserved ==
  ASSUME TypeOK, JobsGrounded, [Next]_vars
  PROVE  JobsGrounded'
<1>0. \A t \in Topics : Len(log[t]) \in Nat
  BY Lengths
<1>1. ASSUME NEW t \in Topics, NEW o \in Orders \union {NoOrder}, Publish(t, o)
      PROVE  JobsGrounded'
  <2>1. \A u \in Topics : Len(log[u]) <= Len(log'[u]) /\ Len(log'[u]) \in Nat
    BY <1>0, <1>1, Published
  <2>2. UNCHANGED jobs
    BY <1>1 DEF Publish
  <2>3. \A n \in Replicas, u \in Topics : jobs[n][u].event \in Nat
    BY DEF TypeOK
  <2> QED BY <1>0, <2>1, <2>2, <2>3 DEF JobsGrounded
<1>2. ASSUME NEW n \in Replicas, NEW t \in Topics, NEW o \in Orders \union {NoOrder},
             Broadcast(n, t, o)
      PROVE  JobsGrounded'
  <2>1. /\ jobs'[n][t].pc = "send" /\ jobs'[n][t].event = position[n][t] + 1
        /\ \A m \in Replicas, u \in Topics :
             m # n \/ u # t => jobs'[m][u] = jobs[m][u]
    BY <1>2, JobSet DEF Broadcast
  <2>2. position[n][t] + 1 <= Len(log[t]) /\ UNCHANGED log
    BY <1>0, <1>2 DEF TypeOK, Broadcast
  <2> QED BY <2>1, <2>2 DEF JobsGrounded
<1>3. ASSUME NEW n \in Replicas, NEW t \in Topics, NEW c \in Conns, StartWrite(n, t, c)
      PROVE  JobsGrounded'
  <2>1. UNCHANGED log
    BY <1>3 DEF StartWrite
  <2> QED BY <1>3, <2>1, Writing DEF JobsGrounded
<1>8. ASSUME NEW n \in Replicas, NEW t \in Topics, NEW c \in Conns, WriteStalls(n, t, c)
      PROVE  JobsGrounded'
  <2>1. UNCHANGED log
    BY <1>8 DEF WriteStalls
  <2> QED BY <1>8, <2>1, Stalling DEF JobsGrounded
<1>4. ASSUME NEW n \in Replicas, NEW t \in Topics, NEW c \in Conns,
             WriteOk(n, t, c) \/ WriteFail(n, t, c)
      PROVE  JobsGrounded'
  <2>1. /\ UNCHANGED log
        /\ jobs[n][t].now = {c} /\ WriteReturns(n, t)
    BY <1>4 DEF WriteOk, WriteFail
  <2>2. /\ jobs'[n][t].pc = "send"
        /\ jobs'[n][t].event = jobs[n][t].event
        /\ \A m \in Replicas, u \in Topics :
             m # n \/ u # t => jobs'[m][u] = jobs[m][u]
    BY <2>1, Written
  <2>3. UNCHANGED log
    BY <2>1
  <2> QED BY <2>2, <2>3 DEF JobsGrounded
<1>5. ASSUME NEW n \in Replicas, NEW t \in Topics,
             CommitMessages(n, t) \/ CommitError(n, t)
      PROVE  JobsGrounded'
  <2>1. /\ jobs'[n][t] = NoJob
        /\ \A m \in Replicas, u \in Topics :
             m # n \/ u # t => jobs'[m][u] = jobs[m][u]
    BY <1>5, JobSet DEF CommitMessages, CommitError
  <2>2. UNCHANGED log /\ NoJob.event = 0
    BY <1>5 DEF CommitMessages, CommitError, NoJob
  <2>3. \A m \in Replicas, u \in Topics :
          jobs'[m][u] = jobs[m][u] \/ jobs'[m][u] = NoJob
    BY <2>1
  <2> QED BY <1>0, <2>2, <2>3 DEF JobsGrounded
<1>6. ASSUME NEW n \in Replicas, Crash(n) PROVE JobsGrounded'
  <2>1. \A m \in Replicas, u \in Topics :
          jobs'[m][u] = jobs[m][u] \/ jobs'[m][u] = NoJob
    BY <1>6 DEF TypeOK, Crash
  <2>2. UNCHANGED log /\ NoJob.event = 0
    BY <1>6 DEF Crash, NoJob
  <2> QED BY <1>0, <2>1, <2>2 DEF JobsGrounded
<1>7. CASE UNCHANGED <<log, jobs>>
  BY <1>7 DEF JobsGrounded
<1> QED BY <1>1, <1>2, <1>3, <1>4, <1>5, <1>6, <1>7, <1>8, Steps
        DEF RevokePartition, AssignPartition, Register, ReadError, Unregister, Close,
            Ping, PingReturns, vars

-----------------------------------------------------------------------------
(* What is owed and what was written. *)

\* Whatever a step takes from what is owed, the rest is still owed to open
\* connections, as long as those are left alone.
LEMMA HistoryKept ==
  ASSUME HistoryGrounded, UNCHANGED log,
         \A c \in Conns : owed'[c] \subseteq owed[c],
         \A c \in Conns : owed'[c] # {} => conns'[c] = conns[c],
         \A c \in Conns, t \in Topics : latest'[c][t] <= Len(log[t])
  PROVE  HistoryGrounded'
<1>1. ASSUME NEW c \in Conns, NEW e \in owed'[c]
      PROVE  Open(c)' /\ e[2] <= Len(log'[e[1]]) /\ log'[e[1]][e[2]] = conns'[c].order
  <2>1. e \in owed[c] /\ conns'[c] = conns[c]
    BY <1>1
  <2>2. Open(c) /\ e[2] <= Len(log[e[1]]) /\ log[e[1]][e[2]] = conns[c].order
    BY <2>1 DEF HistoryGrounded
  <2> QED BY <2>1, <2>2 DEF Open
<1> QED BY <1>1 DEF HistoryGrounded

\* Forgetting the history of those whose record changes keeps the rest.
LEMMA ForgetKeeps ==
  ASSUME TypeOK, HistoryGrounded, UNCHANGED log, NEW C \in SUBSET Conns, Forget(C),
         \A c \in Conns \ C : conns'[c] = conns[c]
  PROVE  HistoryGrounded'
<1>1. \A c \in Conns : owed'[c] = IF c \in C THEN {} ELSE owed[c]
  BY DEF Forget
<1>2. \A c \in Conns, t \in Topics : latest'[c][t] = 0 \/ latest'[c][t] = latest[c][t]
  BY DEF Forget
<1>3. \A c \in Conns, t \in Topics : latest'[c][t] <= Len(log[t])
  BY <1>2, Lengths DEF HistoryGrounded
<1> QED BY <1>1, <1>3, HistoryKept

\* A step that leaves events and history alone, and the open connections.
LEMMA HistoryUntouched ==
  ASSUME HistoryGrounded, UNCHANGED <<log, owed, latest>>,
         \A c \in Conns : Open(c) => conns'[c] = conns[c]
  PROVE  HistoryGrounded'
<1>1. \A c \in Conns : owed'[c] # {} => conns'[c] = conns[c]
  BY DEF HistoryGrounded
<1> QED BY <1>1, HistoryKept DEF HistoryGrounded

LEMMA HistoryPreserved ==
  ASSUME TypeOK, JobsGrounded, HandlersGrounded, HistoryGrounded, [Next]_vars
  PROVE  HistoryGrounded'
<1>0. \A t \in Topics : Len(log[t]) \in Nat
  BY Lengths
<1>1. ASSUME NEW t \in Topics, NEW o \in Orders \union {NoOrder}, Publish(t, o)
      PROVE  HistoryGrounded'
  <2> DEFINE i == Len(log[t]) + 1
  <2>1. /\ \A u \in Topics : Len(log[u]) <= Len(log'[u]) /\ Len(log'[u]) \in Nat
        /\ \A u \in Topics : \A j \in 1..Len(log[u]) : log'[u][j] = log[u][j]
        /\ Len(log'[t]) = i /\ log'[t][i] = o
    BY <1>0, <1>1, Published
  <2>2. UNCHANGED <<conns, latest>>
    BY <1>1 DEF Publish
  <2>3. ASSUME NEW c \in Conns, NEW e \in owed'[c]
        PROVE  Open(c) /\ e[2] <= Len(log'[e[1]]) /\ log'[e[1]][e[2]] = conns[c].order
    <3>1. CASE e \in owed[c]
      <4>1. e \in Topics \X (1..MaxEvents)
        BY <3>1 DEF TypeOK
      <4>2. Open(c) /\ e[2] <= Len(log[e[1]]) /\ log[e[1]][e[2]] = conns[c].order
        BY <3>1 DEF HistoryGrounded
      <4>3. e[1] \in Topics /\ e[2] \in 1..Len(log[e[1]])
        BY <1>0, <4>1, <4>2, BoundsAssumption
      <4>4. e[2] <= Len(log'[e[1]])
        BY <1>0, <2>1, <4>3
      <4>5. log'[e[1]][e[2]] = log[e[1]][e[2]]
        BY <2>1, <4>3
      <4> QED BY <4>2, <4>4, <4>5
    <3>2. CASE e \notin owed[c]
      <4>1. owed'[c] = IF Open(c) /\ conns[c].order = o
                         THEN owed[c] \union {<<t, i>>} ELSE owed[c]
        BY <1>1 DEF Publish
      <4>2. Open(c) /\ conns[c].order = o /\ e = <<t, i>>
        BY <2>3, <3>2, <4>1
      <4>3. e[1] = t /\ e[2] = i
        BY <4>2
      <4> QED BY <1>0, <2>1, <4>2, <4>3
    <3> QED BY <3>1, <3>2
  <2>4. ASSUME NEW c \in Conns, NEW u \in Topics
        PROVE  latest[c][u] <= Len(log'[u])
    <3>1. latest[c][u] \in Nat /\ latest[c][u] <= Len(log[u])
      BY DEF TypeOK, HistoryGrounded
    <3> QED BY <1>0, <2>1, <3>1
  <2> QED BY <2>2, <2>3, <2>4 DEF HistoryGrounded, Open
<1>2. ASSUME NEW n \in Replicas, NEW t \in Topics, NEW c \in Conns, WriteOk(n, t, c)
      PROVE  HistoryGrounded'
  <2> DEFINE i == jobs[n][t].event
  <2>1. /\ UNCHANGED <<log, conns>>
        /\ owed' = [owed EXCEPT ![c] = @ \ {<<t, i>>}]
        /\ latest' = [latest EXCEPT ![c][t] = IF Open(c) /\ @ < i THEN i ELSE @]
    BY <1>2 DEF WriteOk
  <2> HIDE DEF i
  <2>2. \A x \in Conns : owed'[x] \subseteq owed[x]
    BY <2>1 DEF TypeOK
  <2>3. i <= Len(log[t])
    BY DEF JobsGrounded, i
  <2>4. \A x \in Conns, u \in Topics :
          latest'[x][u] = latest[x][u] \/ (u = t /\ latest'[x][u] = i)
    BY <2>1 DEF TypeOK
  <2>5. \A x \in Conns, u \in Topics : latest'[x][u] <= Len(log[u])
    BY <2>3, <2>4 DEF HistoryGrounded
  <2>6. UNCHANGED log /\ \A x \in Conns : conns'[x] = conns[x]
    BY <2>1
  <2> QED BY <2>2, <2>5, <2>6, HistoryKept
<1>3. ASSUME NEW n \in Replicas, NEW t \in Topics, NEW c \in Conns, WriteFail(n, t, c)
      PROVE  HistoryGrounded'
  <2>1. \A x \in Conns \ {c} : conns'[x] = conns[x]
    BY <1>3 DEF TypeOK, WriteFail
  <2>2. UNCHANGED log /\ Forget({c}) /\ {c} \in SUBSET Conns
    BY <1>3 DEF WriteFail
  <2> QED BY <2>1, <2>2, ForgetKeeps
<1>4. ASSUME NEW c \in Conns, ReadError(c) PROVE HistoryGrounded'
  <2>1. \A x \in Conns \ {c} : conns'[x] = conns[x]
    BY <1>4 DEF TypeOK, ReadError
  <2>2. UNCHANGED log /\ Forget({c}) /\ {c} \in SUBSET Conns
    BY <1>4 DEF ReadError
  <2> QED BY <2>1, <2>2, ForgetKeeps
<1>5. ASSUME NEW n \in Replicas, Crash(n) PROVE HistoryGrounded'
  <2> DEFINE mine == {c \in Conns : conns[c].replica = n}
  <2>1. \A x \in Conns \ mine : conns'[x] = conns[x]
    BY <1>5 DEF Crash
  <2>2. UNCHANGED log /\ Forget(mine) /\ mine \in SUBSET Conns
    BY <1>5 DEF Crash
  <2> HIDE DEF mine
  <2> QED BY <2>1, <2>2, ForgetKeeps
<1>6. ASSUME NEW c \in Conns, NEW n \in Replicas, NEW o \in Orders, Register(c, n, o)
      PROVE  HistoryGrounded'
  <2>1. /\ ~Open(c)
        /\ \A x \in Conns \ {c} : conns'[x] = conns[x]
    BY <1>6 DEF TypeOK, Register, Open
  <2>2. UNCHANGED <<log, owed, latest>>
    BY <1>6 DEF Register, history
  <2> QED BY <2>1, <2>2, HistoryUntouched
<1>7. ASSUME NEW c \in Conns, Unregister(c) \/ Close(c) PROVE HistoryGrounded'
  <2>1. /\ ~Open(c)
        /\ \A x \in Conns \ {c} : conns'[x] = conns[x]
    BY <1>7 DEF TypeOK, Unregister, Close, Open
  <2>2. UNCHANGED <<log, owed, latest>>
    BY <1>7 DEF Unregister, Close, history
  <2> QED BY <2>1, <2>2, HistoryUntouched
<1>8. CASE UNCHANGED <<log, conns, owed, latest>>
  BY <1>8, HistoryUntouched
<1> QED BY <1>1, <1>2, <1>3, <1>4, <1>5, <1>6, <1>7, <1>8, Steps
        DEF RevokePartition, AssignPartition, Broadcast, StartWrite, WriteStalls,
            CommitMessages, CommitError, Ping, PingReturns, connVars, history, vars

\* The invariant is one.
THEOREM Invariance == Spec => []IInv
<1> USE BoundsAssumption
<1>1. Init => IInv
  <2> SUFFICES ASSUME Init PROVE IInv
    OBVIOUS
  <2>1. /\ \A t \in Topics : log[t] = <<>> /\ Len(log[t]) = 0 /\ offset[t] = 0
        /\ \A c \in Conns : conns[c] = NewConn /\ owed[c] = {}
        /\ \A c \in Conns, t \in Topics : latest[c][t] = 0
        /\ \A n \in Replicas, t \in Topics : jobs[n][t] = NoJob /\ position[n][t] = 0
        /\ \A n \in Replicas, o \in Orders : hub[n][o] = {}
    BY DEF Init
  <2>2. /\ NewConn.pc = "new" /\ NewConn.replica = NoReplica
        /\ NoJob.event = 0
    BY DEF NewConn, NoJob
  <2>3. TypeOK
    <3>1. conns \in [Conns -> ConnType]
      BY DEF Init, ConnType, NewConn
    <3>2. jobs \in [Replicas -> [Topics -> JobType]]
      BY IdleTyped DEF Init
    <3> QED BY <2>1, <3>1, <3>2 DEF Init, TypeOK, ConnType, JobType
  <2>4. HubMatchesHandlers
    BY <2>1, <2>2 DEF HubMatchesHandlers
  <2>5. HandlersGrounded
    BY <2>1, <2>2 DEF HandlersGrounded
  <2>6. JobsGrounded
    BY <2>1, <2>2 DEF JobsGrounded
  <2>7. HistoryGrounded
    BY <2>1 DEF HistoryGrounded
  <2> QED BY <2>3, <2>4, <2>5, <2>6, <2>7 DEF IInv
<1>2. IInv /\ [Next]_vars => IInv'
  BY TypesPreserved, HubPreserved, JobsPreserved, HistoryPreserved DEF IInv
<1> QED BY <1>1, <1>2, PTL DEF Spec

\* However many replicas, consumers and connections there are, the state of
\* notification-service keeps its types, and no consumer commits an event
\* that was not published.
THEOREM TypeCorrect == Spec => []TypeOK
BY Invariance, PTL DEF IInv

\* The hub of every replica holds exactly the connections whose handlers
\* stand between Register and Unregister, through failed writes, broadcasts
\* from old copies, rebalances and crashes.
THEOREM HubIsExact == Spec => []HubMatchesHandlers
BY Invariance, PTL DEF IInv

-----------------------------------------------------------------------------
(* One replica serves its subscribers. *)

\* What OwedIsAhead and OwedIsInHand say of one event that is owed.
AheadOf(n, e) ==
  \/ e[2] > position[n][e[1]]
  \/ jobs[n][e[1]].pc = "send" /\ jobs[n][e[1]].event = e[2]

InHand(n, c, e) ==
  jobs[n][e[1]].pc = "send" =>
    \/ e[2] > jobs[n][e[1]].event
    \/ /\ e[2] = jobs[n][e[1]].event
       /\ c \in jobs[n][e[1]].todo \union jobs[n][e[1]].now

\* The invariant, event by event.
LEMMA ServedByEvent ==
  ASSUME \A c \in Conns : \A e \in owed[c] :
           /\ e[2] > offset[e[1]] /\ e[2] > latest[c][e[1]]
           /\ \A n \in Replicas : AheadOf(n, e) /\ InHand(n, c, e)
  PROVE  ServedIInv
BY DEF ServedIInv, OwedIsAhead, OwedIsInHand, SubscribersServed, AheadOf, InHand

LEMMA ServedByEventNext ==
  ASSUME \A c \in Conns : \A e \in owed'[c] :
           /\ e[2] > offset'[e[1]] /\ e[2] > latest'[c][e[1]]
           /\ \A n \in Replicas : AheadOf(n, e)' /\ InHand(n, c, e)'
  PROVE  ServedIInv'
BY DEF ServedIInv, OwedIsAhead, OwedIsInHand, SubscribersServed, AheadOf, InHand

\* What else is known of an event that is owed.
LEMMA OwedFacts ==
  ASSUME IInv, ServedIInv, NEW c \in Conns, NEW e \in owed[c]
  PROVE  /\ e[1] \in Topics /\ e[2] \in Nat /\ e = <<e[1], e[2]>>
         /\ e[2] > offset[e[1]] /\ e[2] > latest[c][e[1]]
         /\ e[2] <= Len(log[e[1]])
         /\ e[2] > 0 /\ offset[e[1]] \in Nat /\ latest[c][e[1]] \in Nat
         /\ conns[c].replica \in Replicas /\ conns[c].order \in Orders
         /\ conns[c].pc = "reading" /\ log[e[1]][e[2]] = conns[c].order
         /\ \A n \in Replicas : AheadOf(n, e) /\ InHand(n, c, e)
<1>1. e \in Topics \X (1..MaxEvents)
  BY DEF IInv, TypeOK
<1>2. e[1] \in Topics /\ e[2] \in Nat /\ e[2] > 0 /\ e = <<e[1], e[2]>>
  BY <1>1, BoundsAssumption
<1>3. Open(c) /\ e[2] <= Len(log[e[1]]) /\ log[e[1]][e[2]] = conns[c].order
  BY DEF IInv, HistoryGrounded
<1>4. /\ conns[c].pc = "reading"
      /\ conns[c].replica \in Replicas /\ conns[c].order \in Orders
  BY <1>3 DEF IInv, HandlersGrounded, Open
<1>5. e[2] > offset[e[1]] /\ e[2] > latest[c][e[1]]
  BY DEF ServedIInv, SubscribersServed
<1>6. offset[e[1]] \in Nat /\ latest[c][e[1]] \in Nat
  BY <1>2 DEF IInv, TypeOK
<1>7. \A n \in Replicas : AheadOf(n, e) /\ InHand(n, c, e)
  BY DEF ServedIInv, OwedIsAhead, OwedIsInHand, AheadOf, InHand
<1> QED BY <1>2, <1>3, <1>4, <1>5, <1>6, <1>7

\* A step that commits nothing, writes nothing and begins nothing.
LEMMA ServedKept ==
  ASSUME IInv, ServedIInv, UNCHANGED offset,
         \A c \in Conns : owed'[c] \subseteq owed[c],
         \A c \in Conns : owed'[c] # {} => latest'[c] = latest[c],
         \A n \in Replicas, t \in Topics :
           \/ jobs'[n][t] = jobs[n][t] /\ position'[n][t] = position[n][t]
           \/ jobs'[n][t] = jobs[n][t] /\ position'[n][t] \in {0, offset[t]}
           \/ jobs'[n][t].pc = "fetch" /\ position'[n][t] = 0
  PROVE  ServedIInv'
<1> SUFFICES ASSUME NEW c \in Conns, NEW e \in owed'[c]
             PROVE  /\ e[2] > offset'[e[1]] /\ e[2] > latest'[c][e[1]]
                    /\ \A n \in Replicas : AheadOf(n, e)' /\ InHand(n, c, e)'
  BY ServedByEventNext
<1>1. e \in owed[c] /\ latest'[c] = latest[c]
  OBVIOUS
<1>2. /\ e[1] \in Topics /\ e[2] > 0
      /\ e[2] > offset[e[1]] /\ e[2] > latest[c][e[1]]
  BY <1>1, OwedFacts
<1>3. ASSUME NEW n \in Replicas PROVE AheadOf(n, e)' /\ InHand(n, c, e)'
  <2>1. AheadOf(n, e) /\ InHand(n, c, e)
    BY <1>1, OwedFacts
  <2> QED BY <1>2, <2>1 DEF AheadOf, InHand
<1> QED BY <1>1, <1>2, <1>3

\* A consumer whose copy is done with, and who lets go of the event.
LEMMA LetGo ==
  ASSUME IInv, ServedIInv, NEW n \in Replicas, NEW t \in Topics, Sent(n, t),
         SetJob(n, t, NoJob), UNCHANGED <<position, owed, latest>>,
         \A u \in Topics : \/ offset'[u] = offset[u]
                           \/ u = t /\ offset'[u] = jobs[n][t].event
  PROVE  ServedIInv'
<1> SUFFICES ASSUME NEW c \in Conns, NEW e \in owed[c]
             PROVE  /\ e[2] > offset'[e[1]] /\ e[2] > latest[c][e[1]]
                    /\ \A m \in Replicas : AheadOf(m, e)' /\ InHand(m, c, e)'
  BY ServedByEventNext
<1>1. /\ jobs'[n][t].pc = "fetch"
      /\ \A m \in Replicas, u \in Topics : m # n \/ u # t => jobs'[m][u] = jobs[m][u]
  BY JobSet DEF IInv, NoJob
<1>2. e[1] \in Topics /\ e[2] > offset[e[1]] /\ e[2] > latest[c][e[1]]
  BY OwedFacts
<1>3. ASSUME e[1] = t PROVE e[2] > jobs[n][t].event
  <2>1. InHand(n, c, e)
    BY OwedFacts
  <2> QED BY <1>3, <2>1 DEF Sent, InHand
<1>4. ASSUME e[1] = t PROVE e[2] > position[n][t]
  <2>1. AheadOf(n, e)
    BY OwedFacts
  <2>2. e[2] # jobs[n][t].event
    BY <1>3, <1>4, OwedFacts DEF IInv, TypeOK
  <2> QED BY <1>4, <2>1, <2>2 DEF AheadOf
<1>5. ASSUME NEW m \in Replicas PROVE AheadOf(m, e)' /\ InHand(m, c, e)'
  <2>1. AheadOf(m, e) /\ InHand(m, c, e)
    BY OwedFacts
  <2>2. CASE m = n /\ e[1] = t
    BY <1>1, <1>4, <2>2 DEF AheadOf, InHand
  <2>3. CASE m # n \/ e[1] # t
    <3>1. jobs'[m][e[1]] = jobs[m][e[1]]
      BY <1>1, <1>2, <2>3
    <3> QED BY <2>1, <3>1 DEF AheadOf, InHand
  <2> QED BY <2>2, <2>3
<1> QED BY <1>2, <1>3, <1>5

LEMMA ServedPreserved ==
  ASSUME OneReplica, IInv, ServedIInv, [Next]_vars
  PROVE  ServedIInv'
<1>0. TypeOK /\ JobsGrounded /\ \A t \in Topics : Len(log[t]) \in Nat
  BY Lengths DEF IInv
<1>1. ASSUME NEW t \in Topics, NEW o \in Orders \union {NoOrder}, Publish(t, o)
      PROVE  ServedIInv'
  <2> DEFINE i == Len(log[t]) + 1
  <2>1. UNCHANGED <<offset, position, jobs, latest>>
    BY <1>1 DEF Publish, groupVars
  <2>2. ASSUME NEW c \in Conns, NEW e \in owed'[c]
        PROVE  /\ e[2] > offset[e[1]] /\ e[2] > latest[c][e[1]]
               /\ \A n \in Replicas : AheadOf(n, e) /\ InHand(n, c, e)
    <3>1. CASE e \in owed[c]
      BY <3>1, OwedFacts
    <3>2. CASE e \notin owed[c]
      <4>1. owed'[c] = owed[c] \union {<<t, i>>} \/ owed'[c] = owed[c]
        BY <1>1 DEF Publish
      <4>2. e = <<t, i>>
        BY <2>2, <3>2, <4>1
      <4>3. e[1] = t /\ e[2] = i
        BY <4>2
      <4>4. /\ offset[t] <= Len(log[t]) /\ latest[c][t] <= Len(log[t])
            /\ offset[t] \in Nat /\ latest[c][t] \in Nat
        BY DEF IInv, TypeOK, HistoryGrounded
      <4>5. \A n \in Replicas :
              /\ jobs[n][t].event <= Len(log[t]) /\ jobs[n][t].event \in Nat
              /\ position[n][t] <= Len(log[t]) /\ position[n][t] \in Nat
        BY DEF IInv, TypeOK, JobsGrounded
      <4> QED BY <1>0, <4>3, <4>4, <4>5 DEF AheadOf, InHand
    <3> QED BY <3>1, <3>2
  <2>3. \A n \in Replicas, c \in Conns : \A e \in owed'[c] :
          (AheadOf(n, e) => AheadOf(n, e)') /\ (InHand(n, c, e) => InHand(n, c, e)')
    BY <2>1 DEF AheadOf, InHand
  <2> QED BY <2>1, <2>2, <2>3, ServedByEventNext
<1>2. ASSUME NEW n \in Replicas, NEW t \in Topics, NEW o \in Orders \union {NoOrder},
             Broadcast(n, t, o)
      PROVE  ServedIInv'
  <2> DEFINE i == position[n][t] + 1
  <2>1. UNCHANGED <<offset, owed, latest>>
    BY <1>2 DEF Broadcast, connVars, history
  <2>2. /\ jobs'[n][t].pc = "send" /\ jobs'[n][t].event = i
        /\ jobs'[n][t].todo = IF o \in Orders THEN hub[n][o] ELSE {}
        /\ \A m \in Replicas, u \in Topics :
             m # n \/ u # t => jobs'[m][u] = jobs[m][u]
    <3> DEFINE copy == IF o \in Orders THEN hub[n][o] ELSE {}
               j == [pc |-> "send", event |-> i, now |-> {}, todo |-> copy,
                     stalled |-> FALSE]
    <3>1. SetJob(n, t, j)
      BY <1>2 DEF Broadcast
    <3>2. j.pc = "send" /\ j.event = i /\ j.todo = copy
      OBVIOUS
    <3> HIDE DEF j, copy
    <3>3. /\ jobs'[n][t] = j
          /\ \A m \in Replicas, u \in Topics :
               m # n \/ u # t => jobs'[m][u] = jobs[m][u]
      BY <1>0, <3>1, JobSet
    <3>4. jobs'[n][t].pc = "send" /\ jobs'[n][t].event = i /\ jobs'[n][t].todo = copy
      BY <3>2, <3>3
    <3> QED BY <3>3, <3>4 DEF copy
  <2>3. /\ position'[n][t] = i /\ position[n][t] \in Nat
        /\ \A m \in Replicas, u \in Topics :
             m # n \/ u # t => position'[m][u] = position[m][u]
    <3>1. position \in [Replicas -> [Topics -> 0..MaxEvents]]
      BY <1>0 DEF TypeOK
    <3>2. position' = [position EXCEPT ![n][t] = @ + 1]
      BY <1>2 DEF Broadcast
    <3> QED BY <3>1, <3>2, BoundsAssumption
  <2>4. jobs[n][t].pc = "fetch"
    BY <1>2 DEF Broadcast, NoJob
  <2>5. ASSUME NEW m \in Replicas, NEW c \in Conns, NEW e \in owed[c]
        PROVE  AheadOf(m, e)' /\ InHand(m, c, e)'
    <3>1. m = n
      BY DEF OneReplica
    <3>2. AheadOf(n, e) /\ InHand(n, c, e) /\ e[1] \in Topics /\ e[2] \in Nat
      BY OwedFacts
    <3>3. CASE e[1] # t
      <4>1. jobs'[n][e[1]] = jobs[n][e[1]] /\ position'[n][e[1]] = position[n][e[1]]
        BY <2>2, <2>3, <3>2, <3>3
      <4> QED BY <3>1, <3>2, <4>1 DEF AheadOf, InHand
    <3>4. CASE e[1] = t
      <4>1. e[2] > position[n][t]
        BY <2>4, <3>2, <3>4 DEF AheadOf
      <4>2. CASE e[2] # i
        <5>1. e[2] > i
          BY <2>3, <3>2, <4>1, <4>2
        <5> QED BY <2>2, <2>3, <3>1, <3>4, <5>1 DEF AheadOf, InHand
      <4>3. CASE e[2] = i
        <5>1. log[t][i] = conns[c].order
          BY <3>4, <4>3, OwedFacts
        <5>2. conns[c].order = o /\ o \in Orders
          BY <1>2, <5>1, OwedFacts, NoOrderAssumption DEF Broadcast
        <5>3. conns[c].replica = n /\ conns[c].pc = "reading"
          BY OwedFacts DEF OneReplica
        <5>4. c \in hub[n][o]
          BY <5>2, <5>3 DEF IInv, HubMatchesHandlers
        <5>5. c \in jobs'[n][t].todo
          BY <2>2, <5>2, <5>4
        <5> QED BY <2>2, <3>1, <3>4, <4>3, <5>5 DEF AheadOf, InHand
      <4> QED BY <4>2, <4>3
    <3> QED BY <3>3, <3>4
  <2>6. \A c \in Conns : \A e \in owed[c] :
          e[2] > offset[e[1]] /\ e[2] > latest[c][e[1]]
    BY OwedFacts
  <2> QED BY <2>1, <2>5, <2>6, ServedByEventNext
<1>3. ASSUME NEW n \in Replicas, NEW t \in Topics, NEW c \in Conns,
             StartWrite(n, t, c) \/ WriteStalls(n, t, c)
      PROVE  ServedIInv'
  <2>1. UNCHANGED <<offset, position, owed, latest>>
    BY <1>3 DEF StartWrite, WriteStalls, groupVars, connVars, history
  <2>2. \A m \in Replicas, u \in Topics :
          /\ jobs'[m][u].pc = jobs[m][u].pc /\ jobs'[m][u].event = jobs[m][u].event
          /\ jobs'[m][u].todo \union jobs'[m][u].now
               = jobs[m][u].todo \union jobs[m][u].now
    BY <1>0, <1>3, Writing, Stalling
  <2>3. ASSUME NEW m \in Replicas, NEW x \in Conns, NEW e \in owed[x]
        PROVE  AheadOf(m, e)' /\ InHand(m, x, e)'
    <3>1. AheadOf(m, e) /\ InHand(m, x, e) /\ e[1] \in Topics
      BY OwedFacts
    <3> QED BY <2>1, <2>2, <3>1 DEF AheadOf, InHand
  <2>4. \A x \in Conns : \A e \in owed[x] :
          e[2] > offset[e[1]] /\ e[2] > latest[x][e[1]]
    BY OwedFacts
  <2> QED BY <2>1, <2>3, <2>4, ServedByEventNext
<1>4. ASSUME NEW n \in Replicas, NEW t \in Topics, NEW c \in Conns,
             jobs[n][t].now = {c}, WriteReturns(n, t),
             UNCHANGED position,
             NEW x \in Conns, NEW e \in owed[x], x = c => e # <<t, jobs[n][t].event>>
      PROVE  /\ \A m \in Replicas : AheadOf(m, e)' /\ InHand(m, x, e)'
             /\ x = c /\ e[1] = t => e[2] > jobs[n][t].event
  <2>1. /\ jobs[n][t].pc = "send" /\ jobs'[n][t].pc = "send"
        /\ jobs'[n][t].event = jobs[n][t].event
        /\ jobs'[n][t].todo = jobs[n][t].todo
        /\ \A m \in Replicas, u \in Topics :
             m # n \/ u # t => jobs'[m][u] = jobs[m][u]
    BY <1>0, <1>4, Written
  <2>2. e[1] \in Topics /\ e = <<e[1], e[2]>> /\ e[2] \in Nat
    BY OwedFacts
  <2>3. /\ jobs[n][t].now = {c} /\ UNCHANGED position
        /\ x = c => e # <<t, jobs[n][t].event>>
    BY <1>4
  <2>4. ASSUME e[1] = t
        PROVE  \/ e[2] > jobs[n][t].event
               \/ e[2] = jobs[n][t].event /\ x \in jobs[n][t].todo /\ x # c
    <3>1. InHand(n, x, e)
      BY OwedFacts
    <3>2. x = c => e[2] # jobs[n][t].event
      BY <2>2, <2>3, <2>4
    <3> QED BY <2>1, <2>3, <2>4, <3>1, <3>2 DEF InHand
  <2>5. ASSUME NEW m \in Replicas PROVE AheadOf(m, e)' /\ InHand(m, x, e)'
    <3>1. AheadOf(m, e) /\ InHand(m, x, e)
      BY OwedFacts
    <3>2. CASE m = n /\ e[1] = t
      BY <2>1, <2>3, <2>4, <3>1, <3>2 DEF AheadOf, InHand
    <3>3. CASE m # n \/ e[1] # t
      <4>1. jobs'[m][e[1]] = jobs[m][e[1]]
        BY <2>1, <2>2, <3>3
      <4> QED BY <2>3, <3>1, <4>1 DEF AheadOf, InHand
    <3> QED BY <3>2, <3>3
  <2> QED BY <2>4, <2>5
<1>5. ASSUME NEW n \in Replicas, NEW t \in Topics, NEW c \in Conns, WriteOk(n, t, c)
      PROVE  ServedIInv'
  <2> DEFINE i == jobs[n][t].event
  <2>1. /\ UNCHANGED <<offset, position>>
        /\ owed' = [owed EXCEPT ![c] = @ \ {<<t, i>>}]
        /\ latest' = [latest EXCEPT ![c][t] = IF Open(c) /\ @ < i THEN i ELSE @]
        /\ jobs[n][t].now = {c} /\ WriteReturns(n, t)
    BY <1>5 DEF WriteOk, groupVars
  <2> HIDE DEF i
  <2>2. /\ owed'[c] = owed[c] \ {<<t, i>>}
        /\ \A x \in Conns \ {c} : owed'[x] = owed[x]
    BY <1>0, <2>1 DEF TypeOK
  <2>3. /\ \A x \in Conns, u \in Topics : x # c \/ u # t => latest'[x][u] = latest[x][u]
        /\ latest'[c][t] = latest[c][t] \/ latest'[c][t] = i
    BY <1>0, <2>1 DEF TypeOK
  <2>4. ASSUME NEW x \in Conns, NEW e \in owed'[x]
        PROVE  e \in owed[x] /\ (x = c => e # <<t, i>>)
    BY <2>2, <2>4
  <2>5. ASSUME NEW x \in Conns, NEW e \in owed'[x]
        PROVE  /\ \A m \in Replicas : AheadOf(m, e)' /\ InHand(m, x, e)'
               /\ x = c /\ e[1] = t => e[2] > i
    <3>1. e \in owed[x] /\ (x = c => e # <<t, jobs[n][t].event>>)
      BY <2>4, <2>5 DEF i
    <3>2. /\ jobs[n][t].now = {c} /\ WriteReturns(n, t)
          /\ UNCHANGED position
      BY <2>1
    <3> QED BY <1>4, <3>1, <3>2 DEF i
  <2>6. ASSUME NEW x \in Conns, NEW e \in owed'[x]
        PROVE  e[2] > offset[e[1]] /\ e[2] > latest'[x][e[1]]
    <3>1. e \in owed[x]
      BY <2>4, <2>6
    <3>2. e[1] \in Topics /\ e[2] > offset[e[1]] /\ e[2] > latest[x][e[1]]
      BY <3>1, OwedFacts
    <3> QED BY <2>3, <2>5, <2>6, <3>2
  <2>7. UNCHANGED offset
    BY <2>1
  <2> QED BY <2>5, <2>6, <2>7, ServedByEventNext
<1>6. ASSUME NEW n \in Replicas, NEW t \in Topics, NEW c \in Conns, WriteFail(n, t, c)
      PROVE  ServedIInv'
  <2>1. /\ UNCHANGED <<offset, position>>
        /\ jobs[n][t].now = {c} /\ WriteReturns(n, t)
    BY <1>6 DEF WriteFail, groupVars
  <2>2. /\ owed'[c] = {}
        /\ \A x \in Conns \ {c} : owed'[x] = owed[x] /\ latest'[x] = latest[x]
    BY <1>6 DEF WriteFail, Forget
  <2>3. ASSUME NEW x \in Conns, NEW e \in owed'[x]
        PROVE  /\ e[2] > offset[e[1]] /\ e[2] > latest'[x][e[1]]
               /\ \A m \in Replicas : AheadOf(m, e)' /\ InHand(m, x, e)'
    <3>1. e \in owed[x] /\ x # c /\ latest'[x] = latest[x]
      BY <2>2, <2>3
    <3>2. \A m \in Replicas : AheadOf(m, e)' /\ InHand(m, x, e)'
      BY <1>4, <2>1, <3>1
    <3>3. e[2] > offset[e[1]] /\ e[2] > latest[x][e[1]]
      BY <3>1, OwedFacts
    <3> QED BY <3>1, <3>2, <3>3
  <2>4. UNCHANGED offset
    BY <2>1
  <2> QED BY <2>3, <2>4, ServedByEventNext
<1>7. ASSUME NEW n \in Replicas, NEW t \in Topics, CommitMessages(n, t) \/ CommitError(n, t)
      PROVE  ServedIInv'
  <2>1. /\ Sent(n, t) /\ SetJob(n, t, NoJob) /\ UNCHANGED <<position, owed, latest>>
        /\ \A u \in Topics : \/ offset'[u] = offset[u]
                             \/ u = t /\ offset'[u] = jobs[n][t].event
    BY <1>0, <1>7 DEF TypeOK, CommitMessages, CommitError, groupVars, connVars, history
  <2> QED BY <2>1, LetGo
<1>8. ASSUME NEW c \in Conns, ReadError(c) PROVE ServedIInv'
  <2>1. UNCHANGED <<offset, position, jobs>>
    BY <1>8 DEF ReadError, groupVars
  <2>2. \A x \in Conns : \/ owed'[x] = {}
                         \/ owed'[x] = owed[x] /\ latest'[x] = latest[x]
    BY <1>8 DEF ReadError, Forget
  <2> QED BY <2>1, <2>2, ServedKept
<1>9. ASSUME NEW n \in Replicas, Crash(n) PROVE ServedIInv'
  <2>1. UNCHANGED offset
    BY <1>9 DEF Crash
  <2>2. \A x \in Conns : \/ owed'[x] = {}
                         \/ owed'[x] = owed[x] /\ latest'[x] = latest[x]
    BY <1>9 DEF Crash, Forget
  <2>3. \A m \in Replicas, t \in Topics :
          \/ jobs'[m][t] = jobs[m][t] /\ position'[m][t] = position[m][t]
          \/ jobs'[m][t].pc = "fetch" /\ position'[m][t] = 0
    <3>1. /\ jobs' = [jobs EXCEPT ![n] = [t \in Topics |-> NoJob]]
          /\ position' = [position EXCEPT ![n] = [t \in Topics |-> 0]]
      BY <1>9 DEF Crash
    <3>2. /\ jobs \in [Replicas -> [Topics -> JobType]]
          /\ position \in [Replicas -> [Topics -> 0..MaxEvents]]
      BY <1>0 DEF TypeOK, JobType
    <3>3. NoJob.pc = "fetch"
      BY DEF NoJob
    <3> QED BY <3>1, <3>2, <3>3
  <2> QED BY <2>1, <2>2, <2>3, ServedKept
<1>10. ASSUME NEW t \in Topics, RevokePartition(t) PROVE ServedIInv'
  <2>1. UNCHANGED <<offset, jobs, owed, latest>>
    BY <1>10 DEF RevokePartition, connVars, history
  <2>2. \A m \in Replicas, u \in Topics :
          position'[m][u] = position[m][u] \/ position'[m][u] = 0
    <3>1. owner[t] \in Replicas
      BY <1>0, <1>10 DEF TypeOK, RevokePartition
    <3> QED BY <1>0, <1>10, <3>1 DEF TypeOK, RevokePartition
  <2> QED BY <2>1, <2>2, ServedKept
<1>11. ASSUME NEW n \in Replicas, NEW t \in Topics, AssignPartition(n, t)
       PROVE  ServedIInv'
  <2>1. UNCHANGED <<offset, jobs, owed, latest>>
    BY <1>11 DEF AssignPartition, connVars, history
  <2>2. \A m \in Replicas, u \in Topics :
          position'[m][u] = position[m][u] \/ position'[m][u] = offset[u]
    BY <1>0, <1>11 DEF TypeOK, AssignPartition
  <2> QED BY <2>1, <2>2, ServedKept
<1>12. CASE UNCHANGED <<offset, position, jobs, owed, latest>>
  BY <1>12, ServedKept
<1> QED BY <1>1, <1>2, <1>3, <1>5, <1>6, <1>7, <1>8, <1>9, <1>10, <1>11, <1>12, Steps
        DEF Register, Unregister, Close, Ping, PingReturns, groupVars, history, vars,
            connVars

\* A notification-service that runs as one process passes nobody over: what
\* is owed to a connected customer is never committed before it was written,
\* nor overtaken by a later event of its topic, through rebalances, failed
\* writes, crashes, and customers who come and go.  With two replicas it is
\* false (run notification_replicas).
THEOREM OneReplicaServes ==
  ASSUME OneReplica
  PROVE  Spec => []SubscribersServed
<1>1. Init => ServedIInv
  <2> SUFFICES ASSUME Init PROVE ServedIInv
    OBVIOUS
  <2>1. \A c \in Conns : owed[c] = {}
    BY DEF Init
  <2> QED BY <2>1, ServedByEvent
<1>2. IInv /\ ServedIInv /\ [Next]_vars => ServedIInv'
  BY ServedPreserved
<1>3. ServedIInv => SubscribersServed
  BY DEF ServedIInv
<1> QED BY <1>1, <1>2, <1>3, Invariance, PTL DEF Spec

=============================================================================
