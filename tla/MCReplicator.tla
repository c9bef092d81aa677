---------------------------- MODULE MCReplicator ----------------------------
(* Replicator on small instances: two processes, one of them with two tasks. *)
EXTENDS Replicator

CONSTANTS w1, w2, a, b, c, r1, r2

MCWriterOf == [t \in Tasks |-> IF t = c THEN w2 ELSE w1]
MCBatches == {<<r1>>, <<r1, r2>>}
PairBatch == {<<r1, r2>>}

\* Warm: the lease object exists at the start.  Were a step to remove it, the
\* guard would stop the behaviour there, as a deadlock.
Leased == lease # None /\ Next
WarmSpec == Init /\ [][Leased]_vars

(* replicator.rs:159: the checksum the manifest records for a segment is that *)
(* of its object.  Not so: two tasks of one process that read the same        *)
(* manifest put their batches under one key, and the later put may be of the  *)
(* batch that the manifest does not list.                                     *)
SegmentsWhole ==
  \A i \in DOMAIN Segments(manifest) :
    LET s == manifest.segments[i] IN SegmentKey(s) \in DOMAIN wal => wal[SegmentKey(s)] = s.sum
=============================================================================
