---------------------------- MODULE KafkaConsumer ----------------------------
(***************************************************************************)
(* The consumer loop of pkg/kafka/consumer.go: the replicas of a service   *)
(* are members of one consumer group on a topic with one partition         *)
(* (pkg/kafka/admin.go), and each runs FetchMessage, the handler and       *)
(* CommitMessages in a loop.                                               *)
(*                                                                         *)
(* External, modelled from how the loop uses them: the broker's group      *)
(* (one owner of the partition at a time, who starts at the committed      *)
(* offset) and the reader (FetchMessage returns the message after the one  *)
(* it returned before, committed or not).                                  *)
(***************************************************************************)
EXTENDS Integers, FiniteSets

CONSTANTS
  Members,      \* replicas of the service
  NoMember,     \* the partition has no owner
  MaxMessages,  \* bound: messages ever produced
  MaxFaults     \* bound: handler errors, failed commits, rebalances, crashes

ASSUME NoMemberAssumption == NoMember \notin Members
ASSUME BoundsAssumption == MaxMessages \in Nat /\ MaxFaults \in Nat

VARIABLES
  produced,   \* number of messages in the partition; they are 1..produced
  committed,  \* the group's offset: messages up to it are not fetched again
  owner,      \* the member the partition is assigned to
  members,    \* members[c]: [pc, position, msg]
  handled,    \* messages some handler returned nil for
  failed,     \* messages some handler returned an error for
  faults      \* failures so far

vars == <<produced, committed, owner, members, handled, failed, faults>>

Messages == 1..MaxMessages

\* The types of the partition, of the group's offset and of the consumers.
TypeOK ==
  /\ produced \in 0..MaxMessages
  /\ committed \in 0..MaxMessages
  /\ owner \in Members \union {NoMember}
  /\ members \in [Members -> [pc       : {"fetch", "handle", "commit"},
                              position : 0..MaxMessages,
                              msg      : 0..MaxMessages]]
  /\ handled \subseteq Messages
  /\ failed \subseteq Messages
  /\ faults \in 0..MaxFaults

Init ==
  /\ produced = 0
  /\ committed = 0
  /\ owner = NoMember
  /\ members = [c \in Members |-> [pc |-> "fetch", position |-> 0, msg |-> 0]]
  /\ handled = {}
  /\ failed = {}
  /\ faults = 0

Fault ==
  /\ faults < MaxFaults
  /\ faults' = faults + 1

\* A producer appends a message.
Produce ==
  /\ produced < MaxMessages
  /\ produced' = produced + 1
  /\ UNCHANGED <<committed, owner, members, handled, failed, faults>>

\* Mutant of AssignPartition: a new owner starts at the end of the log.
AssignPartitionAtEnd(c) ==
  /\ owner = NoMember
  /\ owner' = c
  /\ members' = [members EXCEPT ![c].position = produced]
  /\ UNCHANGED <<produced, committed, handled, failed, faults>>

\* The group assigns the partition that nobody owns; the reader of the new
\* owner starts after the committed offset.  It may still be inside a
\* handler it entered when it owned the partition before.
AssignPartition(c) ==
  /\ owner = NoMember
  /\ owner' = c
  /\ members' = [members EXCEPT ![c].position = committed]
  /\ UNCHANGED <<produced, committed, handled, failed, faults>>

\* The owner loses the partition (a rebalance, a missed heartbeat); its
\* handler, if one is running, runs on.
RevokePartition ==
  /\ owner # NoMember
  /\ Fault
  /\ owner' = NoMember
  /\ UNCHANGED <<produced, committed, members, handled, failed>>

\* A replica dies and is started again; what it was handling is forgotten.
Restart(c) ==
  /\ Fault
  /\ owner' = IF owner = c THEN NoMember ELSE owner
  /\ members' = [members EXCEPT ![c] =
       [pc |-> "fetch", position |-> 0, msg |-> 0]]
  /\ UNCHANGED <<produced, committed, handled, failed>>

\* Mutants of FetchMessage: the last message is never due; the offset is
\* committed on fetch, as ReadMessage does.
FetchMessageOffByOne(c) ==
  /\ members[c].pc = "fetch"
  /\ owner = c
  /\ members[c].position + 1 < produced
  /\ members' = [members EXCEPT ![c] =
       [pc |-> "handle", position |-> @.position + 1, msg |-> @.position + 1]]
  /\ UNCHANGED <<produced, committed, owner, handled, failed, faults>>

ReadMessage(c) ==
  /\ members[c].pc = "fetch"
  /\ owner = c
  /\ members[c].position < produced
  /\ committed' = members[c].position + 1
  /\ members' = [members EXCEPT ![c] =
       [pc |-> "handle", position |-> @.position + 1, msg |-> @.position + 1]]
  /\ UNCHANGED <<produced, owner, handled, failed, faults>>

FetchMessage(c) ==
  /\ members[c].pc = "fetch"
  /\ owner = c
  /\ members[c].position < produced
  /\ members' = [members EXCEPT ![c] =
       [pc |-> "handle", position |-> @.position + 1, msg |-> @.position + 1]]
  /\ UNCHANGED <<produced, committed, owner, handled, failed, faults>>

\* The handler returns nil.
HandlerOk(c) ==
  /\ members[c].pc = "handle"
  /\ handled' = handled \union {members[c].msg}
  /\ members' = [members EXCEPT ![c].pc = "commit"]
  /\ UNCHANGED <<produced, committed, owner, failed, faults>>

\* Mutant of HandlerError: the error is logged and the message committed.
HandlerErrorCommits(c) ==
  /\ members[c].pc = "handle"
  /\ Fault
  /\ failed' = failed \union {members[c].msg}
  /\ members' = [members EXCEPT ![c].pc = "commit"]
  /\ UNCHANGED <<produced, committed, owner, handled>>

\* The handler returns an error: `continue`, without a commit and without
\* moving the reader back.
HandlerError(c) ==
  /\ members[c].pc = "handle"
  /\ Fault
  /\ failed' = failed \union {members[c].msg}
  /\ members' = [members EXCEPT ![c].pc = "fetch"]
  /\ UNCHANGED <<produced, committed, owner, handled>>

\* CommitMessages: the offset of this message becomes the group's offset,
\* whatever happened to the messages before it.
CommitMessages(c) ==
  /\ members[c].pc = "commit"
  /\ owner = c
  /\ committed' = members[c].msg
  /\ members' = [members EXCEPT ![c].pc = "fetch"]
  /\ UNCHANGED <<produced, owner, handled, failed, faults>>

\* CommitMessages fails, which is only logged.
CommitError(c) ==
  /\ members[c].pc = "commit"
  /\ owner # c \/ faults < MaxFaults
  /\ faults' = IF owner = c THEN faults + 1 ELSE faults
  /\ members' = [members EXCEPT ![c].pc = "fetch"]
  /\ UNCHANGED <<produced, committed, owner, handled, failed>>

Run(c) ==
  \/ FetchMessage(c)
  \/ HandlerOk(c)
  \/ CommitMessages(c)

Next ==
  \/ Produce
  \/ RevokePartition
  \/ \E c \in Members :
       \/ AssignPartition(c)
       \/ Restart(c)
       \/ Run(c)
       \/ HandlerError(c)
       \/ CommitError(c)

Spec == Init /\ [][Next]_vars

\* A handler returns and the loop goes on; the group gives an unowned
\* partition to some member; failures are finitely many.
FairSpec ==
  /\ Spec
  /\ WF_vars(\E c \in Members : AssignPartition(c))
  /\ \A c \in Members : WF_vars(Run(c))

-----------------------------------------------------------------------------

\* No message is passed over in silence: a message the group will not fetch
\* again was given to a handler at least once, by whichever member, across
\* rebalances, late commits of former owners and restarts.
CommittedWasTried == \A m \in 1..committed : m \in handled \union failed

\* The reader of the owner is never ahead of what was tried, so losing the
\* partition and getting it back skips nothing either.
PositionWasTried ==
  owner # NoMember =>
    \A m \in 1..members[owner].position :
      \/ m \in handled \union failed
      \/ members[owner].pc = "handle" /\ members[owner].msg = m

\* "do NOT commit, so Kafka will redeliver the message on the next fetch"
\* (pkg/kafka/consumer.go): a message whose handler only ever failed is not
\* behind the group's offset.
FailedIsRedelivered == \A m \in failed \ handled : m > committed

\* What is true of it: a message that only failed is behind the offset only
\* when a later one was handled; the last one of the partition stays ahead of
\* the offset, for the member that reads the partition next.
FailedPassedByLater ==
  \A m \in failed \ handled :
    m <= committed => \E n \in handled : m < n /\ n <= committed

\* Every message that is produced is given to a handler in the end.
EventuallyTried ==
  \A m \in Messages : m <= produced ~> m \in handled \union failed

-----------------------------------------------------------------------------
(***************************************************************************)
(* The inductive invariant the proofs use.                                 *)
(***************************************************************************)

Tried(m) == m \in handled \union failed

\* Every member, owner or not: what it commits was handled, and all that
\* comes before the message in its hands, or before its position, was tried.
MembersGrounded ==
  \A c \in Members :
    /\ members[c].pc = "commit" => members[c].msg \in handled
    /\ members[c].pc # "fetch" => \A m \in 1..(members[c].msg - 1) : Tried(m)
    /\ \A m \in 1..members[c].position :
         Tried(m) \/ (members[c].pc = "handle" /\ members[c].msg = m)

\* A handler always has a message of the partition.
HandlesMessage ==
  \A c \in Members : members[c].pc # "fetch" => members[c].msg \in Messages

\* The message at the group's offset was handled.
OffsetWasHandled == committed = 0 \/ committed \in handled

IInv ==
  /\ TypeOK
  /\ CommittedWasTried
  /\ MembersGrounded
  /\ HandlesMessage

=============================================================================
