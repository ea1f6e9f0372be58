----------------------------- MODULE EventStream -----------------------------
(***************************************************************************)
(* What the transactional outbox promises its consumers, without tables,   *)
(* locks or relays: only events whose transaction committed appear in the  *)
(* stream, each perhaps several times; an event is settled once it is      *)
(* there, and then no further delivery of it begins.  Deliveries that were *)
(* under way when it was settled may still put it in the stream.           *)
(***************************************************************************)
EXTENDS Naturals, Sequences

CONSTANT Events

VARIABLES
  accepted,  \* events whose transaction committed
  stream,    \* what was published, in order
  settled,   \* events of which no further delivery will begin
  begun      \* events with a delivery under way

streamVars == <<accepted, stream, settled, begun>>

StreamInit ==
  /\ accepted = {}
  /\ stream = <<>>
  /\ settled = {}
  /\ begun = {}

Accept(i) ==
  /\ i \notin accepted
  /\ accepted' = accepted \union {i}
  /\ UNCHANGED <<stream, settled, begun>>

Begin(S) ==
  /\ S \subseteq accepted \ settled
  /\ begun' = begun \union S
  /\ UNCHANGED <<accepted, stream, settled>>

\* The delivery may be over with that, or go on.
Emit(i) ==
  /\ i \in begun
  /\ stream' = Append(stream, i)
  /\ begun' \in SUBSET begun
  /\ UNCHANGED <<accepted, settled>>

\* Only events that are in the stream are settled.
Settle(S) ==
  /\ S \subseteq accepted \ settled
  /\ \A i \in S : \E n \in DOMAIN stream : stream[n] = i
  /\ settled' = settled \union S
  /\ begun' \in SUBSET begun
  /\ UNCHANGED <<accepted, stream>>

\* Deliveries are given up.
End ==
  /\ begun' \in SUBSET begun
  /\ UNCHANGED <<accepted, stream, settled>>

StreamNext ==
  \/ \E i \in Events : Accept(i) \/ Emit(i)
  \/ \E S \in SUBSET Events : Begin(S) \/ Settle(S)
  \/ End

StreamSpec == StreamInit /\ [][StreamNext]_streamVars

=============================================================================
