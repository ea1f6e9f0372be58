------------------------- MODULE KafkaConsumerProofs -------------------------
(***************************************************************************)
(* Proofs about the consumer loop, for any number of members, messages and *)
(* failures.                                                               *)
(***************************************************************************)
EXTENDS KafkaConsumer, TLAPS

USE DEF Messages

\* A member's record after a step has the right type.
LEMMA TypesPreserved ==
  ASSUME IInv, [Next]_vars
  PROVE  TypeOK'
<1> USE BoundsAssumption DEF IInv, TypeOK
<1>0. ASSUME Produce PROVE TypeOK'
  BY <1>0 DEF Produce
<1>1. ASSUME RevokePartition PROVE TypeOK'
  BY <1>1 DEF RevokePartition, Fault
<1>2. ASSUME NEW c \in Members, AssignPartition(c) PROVE TypeOK'
  BY <1>2 DEF AssignPartition
<1>3. ASSUME NEW c \in Members, Restart(c) PROVE TypeOK'
  BY <1>3 DEF Restart, Fault
<1>4. ASSUME NEW c \in Members, FetchMessage(c) PROVE TypeOK'
  BY <1>4 DEF FetchMessage
<1>5. ASSUME NEW c \in Members, HandlerOk(c) PROVE TypeOK'
  BY <1>5 DEF HandlerOk, HandlesMessage
<1>6. ASSUME NEW c \in Members, HandlerError(c) PROVE TypeOK'
  BY <1>6 DEF HandlerError, Fault, HandlesMessage
<1>7. ASSUME NEW c \in Members, CommitMessages(c) PROVE TypeOK'
  BY <1>7 DEF CommitMessages, HandlesMessage
<1>8. ASSUME NEW c \in Members, CommitError(c) PROVE TypeOK'
  BY <1>8 DEF CommitError
<1>9. CASE UNCHANGED vars
  BY <1>9 DEF vars
<1> QED BY <1>0, <1>1, <1>2, <1>3, <1>4, <1>5, <1>6, <1>7, <1>8, <1>9
        DEF Next, Run

\* Only the member that steps changes; what was tried stays tried.
LEMMA Framing ==
  ASSUME TypeOK, [Next]_vars
  PROVE  /\ \A m : Tried(m) => Tried(m)'
         /\ handled \subseteq handled'
BY DEF Next, Run, vars, Produce, RevokePartition, AssignPartition, Restart,
       FetchMessage, HandlerOk, HandlerError, CommitMessages, CommitError, Tried

\* One member's part of MembersGrounded and HandlesMessage.
Grounded(c) ==
  /\ members[c].pc # "fetch" => members[c].msg \in Messages
  /\ members[c].pc = "commit" => members[c].msg \in handled
  /\ members[c].pc # "fetch" => \A m \in 1..(members[c].msg - 1) : Tried(m)
  /\ \A m \in 1..members[c].position :
       Tried(m) \/ (members[c].pc = "handle" /\ members[c].msg = m)

\* A member that does not step stays grounded.
LEMMA OthersGrounded ==
  ASSUME IInv, [Next]_vars, NEW c \in Members, members'[c] = members[c]
  PROVE  Grounded(c)'
BY Framing DEF IInv, MembersGrounded, HandlesMessage, Grounded

\* Each step preserves what members know and what was committed.
LEMMA StepSafe ==
  ASSUME IInv, [Next]_vars
  PROVE  CommittedWasTried' /\ \A c \in Members : Grounded(c)'
<1> USE BoundsAssumption DEF IInv
<1>0. CommittedWasTried <=> \A m \in 1..committed : Tried(m)
  BY DEF CommittedWasTried, Tried
<1>1. ASSUME committed' = committed PROVE CommittedWasTried'
  BY <1>0, <1>1, Framing DEF CommittedWasTried, Tried
<1>2. ASSUME UNCHANGED <<members, committed>>
      PROVE  CommittedWasTried' /\ \A c \in Members : Grounded(c)'
  BY <1>1, <1>2, OthersGrounded
<1>3. ASSUME NEW c \in Members,
             \A d \in Members \ {c} : members'[d] = members[d],
             Grounded(c)'
      PROVE  \A d \in Members : Grounded(d)'
  BY <1>3, OthersGrounded
<1>4. ASSUME NEW c \in Members, AssignPartition(c)
      PROVE  CommittedWasTried' /\ \A d \in Members : Grounded(d)'
  <2>1. /\ members'[c].position = committed
        /\ members'[c].pc = members[c].pc /\ members'[c].msg = members[c].msg
        /\ \A d \in Members \ {c} : members'[d] = members[d]
        /\ committed' = committed /\ handled' = handled /\ failed' = failed
    BY <1>4 DEF AssignPartition, TypeOK
  <2>2. Grounded(c)'
    BY <1>0, <2>1 DEF Grounded, MembersGrounded, HandlesMessage, Tried
  <2> QED BY <1>1, <1>3, <2>1, <2>2
<1>5. ASSUME NEW c \in Members, Restart(c)
      PROVE  CommittedWasTried' /\ \A d \in Members : Grounded(d)'
  <2>1. /\ members'[c] = [pc |-> "fetch", position |-> 0, msg |-> 0]
        /\ \A d \in Members \ {c} : members'[d] = members[d]
        /\ committed' = committed
    BY <1>5 DEF Restart, TypeOK
  <2>2. Grounded(c)'
    BY <2>1 DEF Grounded
  <2> QED BY <1>1, <1>3, <2>1, <2>2
<1>6. ASSUME NEW c \in Members, FetchMessage(c)
      PROVE  CommittedWasTried' /\ \A d \in Members : Grounded(d)'
  <2> DEFINE n == members[c].position + 1
  <2>1. /\ members'[c] = [pc |-> "handle", position |-> n, msg |-> n]
        /\ \A d \in Members \ {c} : members'[d] = members[d]
        /\ committed' = committed /\ handled' = handled /\ failed' = failed
        /\ members[c].pc = "fetch" /\ n \in Messages
    BY <1>6 DEF FetchMessage, TypeOK
  <2>2. \A m \in 1..(n - 1) : Tried(m)
    BY <2>1 DEF MembersGrounded, TypeOK
  <2>3. Grounded(c)'
    BY <2>1, <2>2 DEF Grounded, Tried
  <2> QED BY <1>1, <1>3, <2>1, <2>3
<1>7. ASSUME NEW c \in Members,
             HandlerOk(c) \/ HandlerError(c) \/ CommitError(c)
      PROVE  CommittedWasTried' /\ \A d \in Members : Grounded(d)'
  <2>1. /\ \A d \in Members \ {c} : members'[d] = members[d]
        /\ committed' = committed
        /\ members'[c].position = members[c].position
        /\ members'[c].msg = members[c].msg
    BY <1>7 DEF HandlerOk, HandlerError, CommitError, TypeOK
  <2>2. Grounded(c)'
    <3>1. CASE HandlerOk(c)
      <4>1. /\ members'[c].pc = "commit" /\ handled' = handled \union {members[c].msg}
            /\ failed' = failed /\ members[c].pc = "handle"
        BY <3>1 DEF HandlerOk, TypeOK
      <4> QED BY <2>1, <4>1 DEF Grounded, MembersGrounded, HandlesMessage, Tried
    <3>2. CASE HandlerError(c)
      <4>1. /\ members'[c].pc = "fetch" /\ failed' = failed \union {members[c].msg}
            /\ handled' = handled /\ members[c].pc = "handle"
        BY <3>2 DEF HandlerError, TypeOK
      <4> QED BY <2>1, <4>1 DEF Grounded, MembersGrounded, Tried
    <3>3. CASE CommitError(c)
      <4>1. /\ members'[c].pc = "fetch" /\ failed' = failed
            /\ handled' = handled /\ members[c].pc = "commit"
        BY <3>3 DEF CommitError, TypeOK
      <4> QED BY <2>1, <4>1 DEF Grounded, MembersGrounded, Tried
    <3> QED BY <1>7, <3>1, <3>2, <3>3
  <2> QED BY <1>1, <1>3, <2>1, <2>2
<1>8. ASSUME NEW c \in Members, CommitMessages(c)
      PROVE  CommittedWasTried' /\ \A d \in Members : Grounded(d)'
  <2>1. /\ \A d \in Members \ {c} : members'[d] = members[d]
        /\ committed' = members[c].msg
        /\ members'[c].position = members[c].position
        /\ members'[c].pc = "fetch" /\ members[c].pc = "commit"
        /\ handled' = handled /\ failed' = failed
    BY <1>8 DEF CommitMessages, TypeOK
  <2>2. Grounded(c)'
    BY <2>1 DEF Grounded, MembersGrounded, Tried
  <2>3. \A m \in 1..members[c].msg : Tried(m)
    BY <2>1 DEF MembersGrounded, HandlesMessage, Tried
  <2>4. CommittedWasTried'
    BY <2>1, <2>3 DEF CommittedWasTried, Tried
  <2> QED BY <1>3, <2>1, <2>2, <2>4
<1>9. CASE UNCHANGED vars
  BY <1>2, <1>9 DEF vars
<1> QED BY <1>2, <1>4, <1>5, <1>6, <1>7, <1>8, <1>9
        DEF Next, Run, Produce, RevokePartition

\* The inductive invariant holds throughout.
THEOREM Invariance == Spec => []IInv
<1>1. Init => IInv
  BY BoundsAssumption
     DEF Init, IInv, TypeOK, CommittedWasTried, MembersGrounded, HandlesMessage
<1>2. ASSUME IInv, [Next]_vars PROVE IInv'
  BY <1>2, TypesPreserved, StepSafe
     DEF IInv, Grounded, MembersGrounded, HandlesMessage
<1> QED BY <1>1, <1>2, PTL DEF Spec

\* The group's offset never passes a message that no handler was given.
THEOREM NothingPassedOverUntried == Spec => []CommittedWasTried
<1>1. IInv => CommittedWasTried
  BY DEF IInv
<1> QED BY <1>1, Invariance, PTL

\* The reader of the owner is never ahead of what was tried.
THEOREM PositionIsTried == Spec => []PositionWasTried
<1>1. IInv => PositionWasTried
  BY DEF IInv, TypeOK, MembersGrounded, PositionWasTried, Tried
<1> QED BY <1>1, Invariance, PTL

\* The offset stops only at messages that were handled.
LEMMA OffsetPreserved ==
  ASSUME IInv, OffsetWasHandled, [Next]_vars
  PROVE  OffsetWasHandled'
<1>1. handled \subseteq handled'
  BY Framing DEF IInv
<1>2. ASSUME committed' = committed PROVE OffsetWasHandled'
  BY <1>1, <1>2 DEF OffsetWasHandled
<1>3. ASSUME NEW c \in Members, CommitMessages(c) PROVE OffsetWasHandled'
  <2>1. committed' = members[c].msg /\ members[c].msg \in handled
    BY <1>3 DEF CommitMessages, IInv, MembersGrounded
  <2> QED BY <1>1, <2>1 DEF OffsetWasHandled
<1> QED BY <1>2, <1>3
        DEF Next, Run, vars, Produce, RevokePartition, AssignPartition, Restart,
            FetchMessage, HandlerOk, HandlerError, CommitError

\* A message whose handler only failed is passed over by the success of a
\* later one and in no other way, late commits of former owners included.
THEOREM FailureIsPassedByLater == Spec => []FailedPassedByLater
<1>1. Init => OffsetWasHandled
  BY DEF Init, OffsetWasHandled
<1>2. IInv /\ OffsetWasHandled /\ [Next]_vars => OffsetWasHandled'
  BY OffsetPreserved
<1>3. IInv /\ OffsetWasHandled => FailedPassedByLater
  <2> SUFFICES ASSUME IInv, OffsetWasHandled,
                      NEW m \in failed \ handled, m <= committed
               PROVE  \E n \in handled : m < n /\ n <= committed
    BY DEF FailedPassedByLater
  <2>1. m \in Nat \ {0} /\ committed \in Nat
    BY BoundsAssumption DEF IInv, TypeOK
  <2>2. committed \in handled /\ m # committed
    BY <2>1 DEF OffsetWasHandled
  <2>3. m < committed /\ committed <= committed
    BY <2>1, <2>2
  <2> QED BY <2>2, <2>3
<1> QED BY <1>1, <1>2, <1>3, Invariance, PTL DEF Spec

=============================================================================
