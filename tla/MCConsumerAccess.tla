--------------------------- MODULE MCConsumerAccess ---------------------------
(* ConsumerAccess with one principal that owns every token, and a Credential *)
(* with a stored field and one derived from it.                              *)
EXTENDS ConsumerAccess

CONSTANTS u1
MCOwner == [t \in Tokens |-> u1]
=============================================================================
