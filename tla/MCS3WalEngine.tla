--------------------------- MODULE MCS3WalEngine ---------------------------
(* S3WalEngine on small instances: one or two processes. *)
EXTENDS S3WalEngine

CONSTANTS p, q

(* A flush takes any set of queued records, in the order of their ids. *)
MCBatches == {SetToSortSeq(S, <) : S \in (SUBSET (1..MaxWrites)) \ {{}}}
=============================================================================
