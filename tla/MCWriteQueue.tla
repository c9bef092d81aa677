---------------------------- MODULE MCWriteQueue ----------------------------
(* WriteQueue on small instances: up to three writes of one document. *)
EXTENDS WriteQueue

CONSTANTS a, b, c, doc, q

MCDocOf == [r \in Requests |-> doc]
=============================================================================
