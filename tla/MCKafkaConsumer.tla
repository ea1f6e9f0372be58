--------------------------- MODULE MCKafkaConsumer ---------------------------
(* The runs of KafkaConsumer. *)
EXTENDS KafkaConsumer, TLC

=============================================================================
