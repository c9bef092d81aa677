------------------------------- MODULE Manifest -------------------------------
(****************************************************************************)
(* The manifest of one database (src/src/storage/s3_wal/manifest.rs) and how *)
(* the Replicator methods derive a new manifest from the one they loaded.    *)
(*                                                                           *)
(* Left out: tenant, updated_at, sizes, object keys (a segment's key follows *)
(* from its epoch and first sequence number, a snapshot's from its id).      *)
(****************************************************************************)
EXTENDS Naturals, Sequences, FiniteSets, SequencesExt

CONSTANTS
  Writers,      \* processes, by writer_id
  None,         \* absence of an object or of an optional field
  Batches,      \* record batches passed to append_segment
  SnapshotCap,  \* snapshot_max_count
  SnapshotAge   \* snapshot_max_age_days (in clock units), 0 = keep

(* A snapshot's id is <<secs, seq>>, the text "secs-seq" of the code. *)
SnapshotId == Nat \X Nat
Snapshot == [id : SnapshotId, at : Nat, seq : Nat]
Segment == [first : Nat, last : Nat, epoch : Nat \ {0}, sum : Batches]

Manifest ==
  [epoch : Nat \ {0}, writer : Writers, applied : Nat, segments : Seq(Segment),
   snapshots : Seq(Snapshot), current : SnapshotId \cup {None},
   watermark : Nat \cup {None}]

ASSUME ManifestAssumption ==
  /\ \A b \in Batches : Len(b) \in Nat \ {0}
  /\ SnapshotCap \in Nat /\ SnapshotAge \in Nat
  /\ None \notin Nat \cup SnapshotId \cup Manifest

------------------------------------------------------------------------------
DefaultManifest(w, e) ==
  [epoch |-> e, writer |-> w, applied |-> 0, segments |-> <<>>,
   snapshots |-> <<>>, current |-> None, watermark |-> None]

WithSegment(m, s, w) ==
  [m EXCEPT !.applied = s.last, !.writer = w, !.segments = Append(@, s)]

SnapshotPushedTwice(snaps, s) == Append(snaps, s)

(* retain, push, stable sort by created_at: ids are distinct and the catalog  *)
(* is sorted, so the new entry goes after every entry that is not younger.    *)
InsertSnapshot(snaps, s) ==
  LET same   == {i \in DOMAIN snaps : snaps[i].id = s.id}
      others == IF same = {} THEN snaps
                ELSE RemoveAt(snaps, CHOOSE i \in same : TRUE)
      older  == {i \in DOMAIN others : others[i].at <= s.at}
  IN  InsertAt(others, Cardinality(older) + 1, s)

(* Number of leading snapshots that age retention and the cap remove. *)
Surplus(snaps, time) ==
  LET cap     == IF SnapshotCap = 0 THEN 1 ELSE SnapshotCap
      tooOld  == IF SnapshotAge = 0 THEN {}
                 ELSE {i \in DOMAIN snaps : time > snaps[i].at + SnapshotAge}
      tooMany == {i \in DOMAIN snaps : i + cap <= Len(snaps)}
  IN  Cardinality(tooOld \cup tooMany)

WithSnapshot(m, s, w, time) ==
  LET all  == InsertSnapshot(m.snapshots, s)
      kept == SubSeq(all, Surplus(all, time) + 1, Len(all))
      cur  == IF \E i \in DOMAIN kept : kept[i].id = s.id THEN s.id
              ELSE IF kept # <<>> THEN kept[Len(kept)].id ELSE None
  IN  [m EXCEPT !.snapshots = kept, !.current = cur, !.writer = w]

EvictedOneMore(m, s, time) ==
  LET all == InsertSnapshot(m.snapshots, s)
  IN  {all[i].id : i \in 1..(Surplus(all, time) + 1)}

EvictedBy(m, s, time) ==
  LET all == InsertSnapshot(m.snapshots, s)
  IN  {all[i].id : i \in 1..Surplus(all, time)}

(* The end of the removed segments is that of the last one: ends increase. *)
Compacted(m, retain, w) ==
  LET k == Len(m.segments) - retain
  IN  [m EXCEPT !.segments = SubSeq(@, k + 1, Len(@)),
                !.watermark = m.segments[k].last, !.writer = w]

------------------------------------------------------------------------------
Base(m) == IF m.watermark = None THEN 0 ELSE m.watermark
Segments(m) == IF m = None THEN <<>> ELSE m.segments

(* The segment list as entries of a log. *)
Entries(segs) ==
  [i \in DOMAIN segs |->
     [first |-> segs[i].first, last |-> segs[i].last, sum |-> segs[i].sum]]

(* The retained segments number the records consecutively from the           *)
(* compaction watermark up to applied_seq.                                   *)
Contiguous(m) ==
  /\ \A i \in DOMAIN m.segments :
       /\ m.segments[i].first =
            1 + (IF i = 1 THEN Base(m) ELSE m.segments[i - 1].last)
       /\ m.segments[i].last =
            m.segments[i].first + Len(m.segments[i].sum) - 1
  /\ m.applied = IF m.segments = <<>> THEN Base(m)
                 ELSE m.segments[Len(m.segments)].last

(* The snapshot catalog: the current snapshot is listed, ids are distinct,    *)
(* entries are in creation order, the cap holds.                              *)
InCreationOrder(snaps) ==
  \A i, j \in DOMAIN snaps :
    i < j => snaps[i].id # snaps[j].id /\ snaps[i].at <= snaps[j].at

Cataloged(m) ==
  /\ m.snapshots # <<>> => \E i \in DOMAIN m.snapshots : m.snapshots[i].id = m.current
  /\ InCreationOrder(m.snapshots)
  /\ Len(m.snapshots) <= IF SnapshotCap = 0 THEN 1 ELSE SnapshotCap
===============================================================================
