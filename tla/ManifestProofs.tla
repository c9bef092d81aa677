---------------------------- MODULE ManifestProofs ----------------------------
(****************************************************************************)
(* Lemmas about the operators of Manifest: what append_segment,              *)
(* upsert_snapshot and compact_manifest make of a well-formed manifest, and  *)
(* how its segment list reads as the entries of a log.                       *)
(****************************************************************************)
EXTENDS Manifest, TLAPS, FiniteSetTheorems, SequenceTheorems

(* A stretch of a sequence is a sequence over the same set. *)
LEMMA SubSeqType ==
  ASSUME NEW S, NEW s \in Seq(S), NEW m \in 1..Len(s)+1, NEW n \in 0..Len(s)
  PROVE  /\ SubSeq(s, m, n) \in Seq(S)
         /\ Len(SubSeq(s, m, n)) = IF m <= n THEN n - m + 1 ELSE 0
         /\ \A i \in 1..(n - m + 1) : SubSeq(s, m, n)[i] = s[m + i - 1]
<1>1. Len(s) \in Nat /\ m \in Int /\ n \in Int /\ \A i \in m..n : s[i] \in S
  BY LenProperties
<1> QED BY <1>1, SubSeqProperties

(* Inserting a snapshot in the catalog gives a catalog. *)
LEMMA InsertType ==
  ASSUME NEW snaps \in Seq(Snapshot), NEW s \in Snapshot
  PROVE  InsertSnapshot(snaps, s) \in Seq(Snapshot)
<1> DEFINE same == {i \in DOMAIN snaps : snaps[i].id = s.id}
           i0 == CHOOSE i \in same : TRUE
           others == IF same = {} THEN snaps ELSE RemoveAt(snaps, i0)
           older == {i \in DOMAIN others : others[i].at <= s.at}
           k == Cardinality(older)
<1>1. others \in Seq(Snapshot)
  <2>1. CASE same = {}
    BY <2>1
  <2>2. CASE same # {}
    <3>1. i0 \in 1..Len(snaps)
      BY <2>2
    <3> HIDE DEF i0
    <3>2. SubSeq(snaps, 1, i0 - 1) \in Seq(Snapshot)
      BY <3>1, SubSeqType
    <3>3. SubSeq(snaps, i0 + 1, Len(snaps)) \in Seq(Snapshot)
      BY <3>1, SubSeqType
    <3>4. RemoveAt(snaps, i0) \in Seq(Snapshot)
      BY <3>2, <3>3, ConcatProperties DEF RemoveAt
    <3> QED BY <2>2, <3>4
  <2> QED BY <2>1, <2>2
<1> HIDE DEF others
<1>2. k \in Nat /\ k <= Len(others)
  <2>1. older \subseteq 1..Len(others)
    BY <1>1
  <2> DEFINE n == Len(others)
  <2>2. n \in Nat
    BY <1>1
  <2>3. IsFiniteSet(1..n) /\ Cardinality(1..n) = n
    <3> HIDE DEF n
    <3> QED BY <2>2, FS_Interval
  <2> HIDE DEF older
  <2>4. IsFiniteSet(older) /\ Cardinality(older) <= Len(others)
    BY <2>1, <2>3, FS_Subset
  <2> QED BY <2>4, FS_CardinalityType
<1> HIDE DEF k
<1>3. SubSeq(others, 1, k + 1 - 1) \in Seq(Snapshot)
  BY <1>1, <1>2, SubSeqType
<1>4. SubSeq(others, k + 1, Len(others)) \in Seq(Snapshot)
  BY <1>1, <1>2, SubSeqType
<1>5. <<s>> \in Seq(Snapshot)
  OBVIOUS
<1>6. SubSeq(others, 1, k + 1 - 1) \o <<s>> \in Seq(Snapshot)
  BY <1>3, <1>5, ConcatProperties
<1>7. (SubSeq(others, 1, k + 1 - 1) \o <<s>>) \o SubSeq(others, k + 1, Len(others))
        \in Seq(Snapshot)
  BY <1>4, <1>6, ConcatProperties
<1>8. InsertAt(others, k + 1, s) \in Seq(Snapshot)
  BY <1>2, <1>7 DEF InsertAt
<1> QED BY <1>8 DEF InsertSnapshot, others, k

(* Eviction removes at most the whole catalog. *)
LEMMA SurplusType ==
  ASSUME NEW snaps \in Seq(Snapshot), NEW time
  PROVE  Surplus(snaps, time) \in 0..Len(snaps)
<1> DEFINE cap == IF SnapshotCap = 0 THEN 1 ELSE SnapshotCap
           tooOld == IF SnapshotAge = 0 THEN {}
                     ELSE {i \in DOMAIN snaps : time > snaps[i].at + SnapshotAge}
           tooMany == {i \in DOMAIN snaps : i + cap <= Len(snaps)}
           gone == tooOld \cup tooMany
<1>1. gone \subseteq 1..Len(snaps)
  OBVIOUS
<1>2. Len(snaps) \in Nat
  OBVIOUS
<1>3. IsFiniteSet(1..Len(snaps)) /\ Cardinality(1..Len(snaps)) = Len(snaps)
  BY <1>2, FS_Interval
<1>4. Surplus(snaps, time) = Cardinality(gone)
  BY DEF Surplus
<1> HIDE DEF gone
<1>5. IsFiniteSet(gone) /\ Cardinality(gone) <= Len(snaps)
  BY <1>1, <1>3, FS_Subset
<1>6. Cardinality(gone) \in Nat
  BY <1>5, FS_CardinalityType
<1> QED BY <1>2, <1>4, <1>5, <1>6

(* upsert_snapshot yields a manifest and leaves the log part of it alone. *)
LEMMA WithSnapshotType ==
  ASSUME NEW m \in Manifest, NEW s \in Snapshot, NEW w \in Writers, NEW time
  PROVE  /\ WithSnapshot(m, s, w, time) \in Manifest
         /\ WithSnapshot(m, s, w, time).segments = m.segments
         /\ WithSnapshot(m, s, w, time).applied = m.applied
         /\ WithSnapshot(m, s, w, time).watermark = m.watermark
         /\ EvictedBy(m, s, time) \subseteq SnapshotId
<1> DEFINE all == InsertSnapshot(m.snapshots, s)
           kept == SubSeq(all, Surplus(all, time) + 1, Len(all))
           cur == IF \E i \in DOMAIN kept : kept[i].id = s.id THEN s.id
                  ELSE IF kept # <<>> THEN kept[Len(kept)].id ELSE None
<1>0. m.snapshots \in Seq(Snapshot)
  BY DEF Manifest
<1>1. all \in Seq(Snapshot)
  BY <1>0, InsertType
<1> HIDE DEF all
<1>2. Surplus(all, time) \in 0..Len(all) /\ Len(all) \in Nat
  BY <1>1, SurplusType
<1>3. kept \in Seq(Snapshot)
  BY <1>1, <1>2, SubSeqType
<1>4. EvictedBy(m, s, time) \subseteq SnapshotId
  <2>1. EvictedBy(m, s, time) = {all[i].id : i \in 1..Surplus(all, time)}
    BY DEF EvictedBy, all
  <2>2. \A i \in 1..Surplus(all, time) : all[i] \in Snapshot
    BY <1>1, <1>2
  <2> QED BY <2>1, <2>2 DEF Snapshot
<1> HIDE DEF kept
<1>5. cur \in SnapshotId \cup {None}
  <2>1. kept # <<>> => kept[Len(kept)] \in Snapshot
    BY <1>3
  <2> QED BY <2>1 DEF Snapshot
<1> HIDE DEF cur
<1>6. WithSnapshot(m, s, w, time)
        = [m EXCEPT !.snapshots = kept, !.current = cur, !.writer = w]
  BY DEF WithSnapshot, all, kept, cur
<1> QED BY <1>3, <1>4, <1>5, <1>6 DEF Manifest

(* A fresh manifest is an empty log. *)
LEMMA DefaultSound ==
  ASSUME NEW w \in Writers, NEW e \in Nat \ {0}
  PROVE  DefaultManifest(w, e) \in Manifest /\ Contiguous(DefaultManifest(w, e))
<1>1. <<>> \in Seq(Segment) /\ <<>> \in Seq(Snapshot)
  OBVIOUS
<1> QED BY <1>1 DEF DefaultManifest, Manifest, Contiguous, Base

(* append_segment adds its segment right after applied_seq. *)
LEMMA WithSegmentSound ==
  ASSUME NEW m \in Manifest, Contiguous(m), NEW s \in Segment, NEW w \in Writers,
         s.first = m.applied + 1, s.last = m.applied + Len(s.sum)
  PROVE  /\ WithSegment(m, s, w) \in Manifest
         /\ Contiguous(WithSegment(m, s, w))
         /\ Base(WithSegment(m, s, w)) = Base(m)
<1> DEFINE segs == m.segments
           n == Len(segs)
           new == Append(segs, s)
           m2 == WithSegment(m, s, w)
<1>1. segs \in Seq(Segment) /\ n \in Nat /\ m.applied \in Nat /\ s.last \in Nat
  BY LenProperties DEF Manifest, Segment
<1>2. /\ new \in Seq(Segment) /\ Len(new) = n + 1
      /\ new[n + 1] = s /\ \A i \in 1..n : new[i] = segs[i]
  BY <1>1, AppendProperties
<1>3. m2 = [m EXCEPT !.applied = s.last, !.writer = w, !.segments = new]
  BY DEF WithSegment
<1> HIDE DEF new, m2
<1>4. /\ m2.segments = new /\ m2.applied = s.last /\ m2.watermark = m.watermark
      /\ m2 \in Manifest
  BY <1>1, <1>2, <1>3 DEF Manifest
<1>6. Base(m2) = Base(m) /\ Base(m) \in Nat
  BY <1>4 DEF Base, Manifest
<1> HIDE DEF n
<1>7. ASSUME NEW i \in 1..(n + 1)
      PROVE  /\ new[i].first = 1 + (IF i = 1 THEN Base(m) ELSE new[i - 1].last)
             /\ new[i].last = new[i].first + Len(new[i].sum) - 1
  <2>1. CASE i = n + 1
    <3>1. m.applied = IF n = 0 THEN Base(m) ELSE segs[n].last
      BY <1>1 DEF Contiguous, n
    <3>2. n # 0 => n \in 1..n /\ new[n] = segs[n] /\ i # 1 /\ i - 1 = n
      BY <1>1, <1>2, <2>1
    <3>3. n = 0 => i = 1
      BY <2>1
    <3>4. new[i] = s
      BY <1>2, <2>1
    <3>5. Len(s.sum) \in Nat
      BY ManifestAssumption DEF Segment
    <3>6. CASE n = 0
      BY <1>1, <3>1, <3>3, <3>4, <3>5, <3>6
    <3>7. CASE n # 0
      <4>1. i # 1 /\ new[i - 1].last = m.applied
        BY <3>1, <3>2, <3>7
      <4>2. new[i].first = 1 + new[i - 1].last
        BY <1>1, <3>4, <4>1
      <4>3. new[i].last = new[i].first + Len(new[i].sum) - 1
        BY <1>1, <3>4, <3>5
      <4> QED BY <4>1, <4>2, <4>3
    <3> QED BY <3>6, <3>7
  <2>2. CASE i \in 1..n
    <3>1. new[i] = segs[i] /\ (i # 1 => new[i - 1] = segs[i - 1])
      BY <1>1, <1>2, <2>2
    <3>2. i \in DOMAIN m.segments
      BY <1>1, <2>2 DEF n
    <3> QED BY <3>1, <3>2 DEF Contiguous
  <2> QED BY <2>1, <2>2, <1>1
<1>8. DOMAIN new = 1..(n + 1) /\ new # <<>>
  BY <1>1, <1>2
<1>9. Contiguous(m2)
  BY <1>1, <1>2, <1>4, <1>6, <1>7, <1>8 DEF Contiguous
<1> QED BY <1>4, <1>6, <1>9 DEF m2

(* What compact_manifest leaves: the last r segments, and the end of the last *)
(* removed one as the watermark.                                              *)
LEMMA CompactedSegments ==
  ASSUME NEW m \in Manifest, NEW r \in Nat, NEW w \in Writers, Len(m.segments) > r
  PROVE  /\ Compacted(m, r, w) \in Manifest
         /\ Len(m.segments) - r \in 1..Len(m.segments)
         /\ Len(Compacted(m, r, w).segments) = r
         /\ \A i \in 1..r : Compacted(m, r, w).segments[i]
                             = m.segments[(Len(m.segments) - r) + i]
         /\ Base(Compacted(m, r, w)) = m.segments[Len(m.segments) - r].last
         /\ Compacted(m, r, w).applied = m.applied
<1> DEFINE segs == m.segments
           n == Len(segs)
           k == n - r
           m2 == Compacted(m, r, w)
           new == SubSeq(segs, k + 1, n)
<1>1. segs \in Seq(Segment) /\ n \in Nat /\ DOMAIN segs = 1..n
  BY LenProperties DEF Manifest
<1>0. k = n - r /\ n > r
  BY <1>1
<1> HIDE DEF n, k
<1>2. k \in 1..n /\ k \in Nat /\ n - k = r /\ k + r = n
  BY <1>0, <1>1
<1>3. /\ new \in Seq(Segment) /\ Len(new) = r
      /\ \A i \in 1..r : new[i] = segs[k + i]
  <2>1. k + 1 \in 1..Len(segs) + 1 /\ n \in 0..Len(segs)
    BY <1>1, <1>2 DEF n
  <2>2. /\ new \in Seq(Segment)
        /\ Len(new) = IF k + 1 <= n THEN n - (k + 1) + 1 ELSE 0
        /\ \A i \in 1..(n - (k + 1) + 1) : new[i] = segs[(k + 1) + i - 1]
    <3> HIDE DEF new, segs
    <3>1. segs \in Seq(Segment)
      BY <1>1
    <3> QED BY <2>1, <3>1, SubSeqType DEF new
  <2>3. n - (k + 1) + 1 = r
    BY <1>1, <1>2
  <2>4. Len(new) = r
    BY <1>1, <1>2, <2>2
  <2>5. ASSUME NEW i \in 1..r PROVE new[i] = segs[k + i]
    <3>1. new[i] = segs[(k + 1) + i - 1]
      BY <2>2, <2>3
    <3>2. (k + 1) + i - 1 = k + i
      BY <1>2
    <3> HIDE DEF new, segs
    <3> QED BY <3>1, <3>2
  <2> QED BY <2>2, <2>4, <2>5
<1> HIDE DEF new
<1>4. segs[k] \in Segment
  BY <1>1, <1>2
<1>5. m2 = [m EXCEPT !.segments = new, !.watermark = segs[k].last, !.writer = w]
  BY DEF Compacted, new, k, n, m2
<1> HIDE DEF m2
<1>6. /\ m2.segments = new /\ m2.watermark = segs[k].last
      /\ m2.applied = m.applied /\ m2 \in Manifest
  BY <1>3, <1>4, <1>5 DEF Manifest, Segment
<1>7. segs[k].last \in Nat /\ segs[k].last # None
  BY <1>4, ManifestAssumption DEF Segment
<1>8. Base(m2) = segs[k].last
  BY <1>6, <1>7 DEF Base
<1> QED BY <1>1, <1>2, <1>3, <1>6, <1>8 DEF n, k, m2

(* compact_manifest drops segments at the front and moves the watermark. *)
LEMMA CompactedSound ==
  ASSUME NEW m \in Manifest, Contiguous(m), NEW r \in Nat, NEW w \in Writers,
         Len(m.segments) > r
  PROVE  /\ Compacted(m, r, w) \in Manifest
         /\ Contiguous(Compacted(m, r, w))
         /\ Len(m.segments) - r \in DOMAIN m.segments
<1> DEFINE segs == m.segments
           n == Len(segs)
           k == n - r
           m2 == Compacted(m, r, w)
           new == m2.segments
<1>1. segs \in Seq(Segment) /\ n \in Nat /\ DOMAIN segs = 1..n
  BY LenProperties DEF Manifest
<1>2. /\ m2 \in Manifest /\ k \in 1..n /\ k + r = n
      /\ Len(new) = r /\ \A i \in 1..r : new[i] = segs[k + i]
      /\ Base(m2) = segs[k].last /\ m2.applied = m.applied
  <2>1. k + r = n
    BY <1>1
  <2> QED BY <2>1, CompactedSegments
<1>3. new \in Seq(Segment)
  BY <1>2 DEF Manifest
<1> HIDE DEF m2, n, k
<1>4. ASSUME NEW i \in 1..r
      PROVE  /\ new[i].first = 1 + (IF i = 1 THEN segs[k].last ELSE new[i - 1].last)
             /\ new[i].last = new[i].first + Len(new[i].sum) - 1
  <2>1. k + i \in DOMAIN segs /\ k + i # 1 /\ new[i] = segs[k + i]
    <3>1. n \in Nat /\ k \in 1..n /\ k + r = n
      BY <1>1, <1>2
    <3>2. k + i \in 1..n /\ k + i # 1
      BY <3>1
    <3>3. new[i] = segs[k + i]
      BY <1>2
    <3> HIDE DEF new, segs
    <3> QED BY <1>1, <3>2, <3>3
  <2>2. /\ segs[k + i].first = 1 + segs[(k + i) - 1].last
        /\ segs[k + i].last = segs[k + i].first + Len(segs[k + i].sum) - 1
    <3>1. \A j \in DOMAIN segs :
            /\ j # 1 => segs[j].first = 1 + segs[j - 1].last
            /\ segs[j].last = segs[j].first + Len(segs[j].sum) - 1
      BY DEF Contiguous
    <3> HIDE DEF segs
    <3> QED BY <2>1, <3>1
  <2> HIDE DEF segs
  <2>3. CASE i = 1
    <3>1. (k + i) - 1 = k
      BY <1>2, <2>3
    <3>2. new[i].first = 1 + segs[k].last
      BY <2>1, <2>2, <3>1
    <3> QED BY <2>1, <2>2, <2>3, <3>2
  <2>4. CASE i # 1
    <3>1. i - 1 \in 1..r /\ (k + i) - 1 = k + (i - 1)
      BY <1>2, <2>4
    <3>2. segs[(k + i) - 1] = new[i - 1]
      BY <1>2, <3>1
    <3>3. new[i].first = 1 + new[i - 1].last
      BY <2>1, <2>2, <3>2
    <3> QED BY <2>1, <2>2, <2>4, <3>3
  <2> QED BY <2>3, <2>4
<1>5. m.applied = segs[n].last
  BY <1>1, <1>2 DEF Contiguous, n
<1>6. m.applied = IF new = <<>> THEN segs[k].last ELSE new[Len(new)].last
  <2>1. CASE r = 0
    BY <1>1, <1>2, <1>3, <1>5, <2>1
  <2>2. CASE r # 0
    <3>1. r \in 1..r /\ new[r] = segs[n] /\ new # <<>>
      BY <1>2, <1>3, <2>2
    <3> QED BY <1>2, <1>5, <3>1
  <2> QED BY <2>1, <2>2
<1>7. Contiguous(m2)
  <2>1. DOMAIN new = 1..r
    BY <1>2, <1>3
  <2> QED BY <1>2, <1>4, <1>6, <2>1 DEF Contiguous
<1> QED BY <1>1, <1>2, <1>7 DEF m2, k, n

(* Sequence numbers ascend along the segment list, from the watermark on.      *)
(* Contiguous implies it only by induction over the list.                      *)
Ascending(m) ==
  \A i \in DOMAIN m.segments :
    /\ Base(m) <= m.segments[i].last
    /\ \A j \in DOMAIN m.segments : i <= j => m.segments[i].last <= m.segments[j].last

LEMMA WithSegmentAscends ==
  ASSUME NEW m \in Manifest, Contiguous(m), Ascending(m), NEW s \in Segment, NEW w \in Writers,
         s.first = m.applied + 1, s.last = m.applied + Len(s.sum)
  PROVE  /\ Ascending(WithSegment(m, s, w))
         /\ Base(WithSegment(m, s, w)) = Base(m)
         /\ WithSegment(m, s, w).segments = Append(m.segments, s)
<1> DEFINE segs == m.segments
           n == Len(segs)
           m2 == WithSegment(m, s, w)
           new == m2.segments
<1>1. segs \in Seq(Segment) /\ n \in Nat /\ DOMAIN segs = 1..n /\ m.applied \in Nat
  BY LenProperties DEF Manifest
<1>2. Base(m2) = Base(m) /\ Base(m) \in Nat
  BY WithSegmentSound DEF Base, Manifest
<1>3. new = Append(segs, s)
  BY DEF WithSegment, Manifest
<1>4. /\ Len(new) = n + 1 /\ DOMAIN new = 1..(n + 1)
      /\ new[n + 1] = s /\ \A i \in 1..n : new[i] = segs[i]
  BY <1>1, <1>3, AppendProperties
<1>5. \A i \in 1..n : segs[i].last \in Nat
  <2>1. \A i \in 1..n : segs[i] \in Segment
    BY <1>1
  <2> QED BY <2>1 DEF Segment
<1>6. \A i \in 1..n : /\ Base(m) <= segs[i].last
                      /\ \A j \in 1..n : i <= j => segs[i].last <= segs[j].last
  BY <1>1 DEF Ascending
<1>7. m.applied = IF n = 0 THEN Base(m) ELSE segs[n].last
  BY <1>1 DEF Contiguous
<1>8. m.applied <= s.last /\ s.last \in Nat
  <2>1. Len(s.sum) \in Nat
    BY ManifestAssumption DEF Segment
  <2> QED BY <1>1, <2>1
<1> HIDE DEF n, segs, m2
<1>9. \A i \in 1..n : segs[i].last <= s.last
  <2> SUFFICES ASSUME NEW i \in 1..n PROVE segs[i].last <= s.last
    OBVIOUS
  <2>1. segs[i].last <= segs[n].last /\ m.applied = segs[n].last
    BY <1>1, <1>6, <1>7
  <2> QED BY <1>1, <1>5, <1>8, <2>1
<1>10. Base(m) <= s.last
  <2>1. CASE n = 0
    BY <1>7, <1>8, <2>1
  <2>2. CASE n # 0
    <3>1. n \in 1..n
      BY <1>1, <2>2
    <3> QED BY <1>2, <1>5, <1>6, <1>8, <1>9, <3>1
  <2> QED BY <2>1, <2>2
<1>11. ASSUME NEW i \in 1..(n + 1)
       PROVE  /\ Base(m) <= new[i].last
              /\ \A j \in 1..(n + 1) : i <= j => new[i].last <= new[j].last
  <2>1. CASE i = n + 1
    BY <1>1, <1>4, <1>8, <1>10, <2>1
  <2>2. CASE i \in 1..n
    <3>1. Base(m) <= new[i].last
      BY <1>4, <1>6, <2>2
    <3>2. ASSUME NEW j \in 1..(n + 1), i <= j PROVE new[i].last <= new[j].last
      <4>1. CASE j = n + 1
        BY <1>4, <1>9, <2>2, <4>1
      <4>2. CASE j \in 1..n
        BY <1>4, <1>6, <2>2, <3>2, <4>2
      <4> QED BY <1>1, <4>1, <4>2
    <3> QED BY <3>1, <3>2
  <2> QED BY <1>1, <2>1, <2>2
<1> QED BY <1>2, <1>3, <1>4, <1>11 DEF Ascending, m2, segs

(* Compaction keeps the order, and a segment it removes is below the watermark. *)
LEMMA CompactedAscends ==
  ASSUME NEW m \in Manifest, Ascending(m), NEW r \in Nat, NEW w \in Writers,
         Len(m.segments) > r
  PROVE  /\ Ascending(Compacted(m, r, w))
         /\ Base(m) <= Base(Compacted(m, r, w))
         /\ \A i \in DOMAIN m.segments :
              \/ \E j \in DOMAIN Compacted(m, r, w).segments :
                   Compacted(m, r, w).segments[j] = m.segments[i]
              \/ m.segments[i].last <= Base(Compacted(m, r, w))
<1> DEFINE segs == m.segments
           n == Len(segs)
           k == n - r
           m2 == Compacted(m, r, w)
           new == m2.segments
<1>1. segs \in Seq(Segment) /\ n \in Nat /\ DOMAIN segs = 1..n
  BY LenProperties DEF Manifest
<1>2. /\ m2 \in Manifest /\ k \in 1..n /\ k + r = n
      /\ Len(new) = r /\ \A i \in 1..r : new[i] = segs[k + i]
      /\ Base(m2) = segs[k].last /\ m2.applied = m.applied
  <2>1. k + r = n
    BY <1>1
  <2> QED BY <2>1, CompactedSegments
<1>3. DOMAIN new = 1..r
  BY <1>2, LenProperties DEF Manifest
<1>4. \A i \in 1..n : /\ Base(m) <= segs[i].last
                      /\ \A j \in 1..n : i <= j => segs[i].last <= segs[j].last
  BY <1>1 DEF Ascending
<1> HIDE DEF m2, n, k, segs
<1>5. ASSUME NEW i \in 1..r
      PROVE  /\ Base(m2) <= new[i].last
             /\ \A j \in 1..r : i <= j => new[i].last <= new[j].last
  <2>1. k + i \in 1..n /\ k <= k + i /\ new[i] = segs[k + i]
    BY <1>1, <1>2
  <2>2. ASSUME NEW j \in 1..r, i <= j PROVE new[i].last <= new[j].last
    <3>1. k + j \in 1..n /\ k + i <= k + j /\ new[j] = segs[k + j]
      BY <1>1, <1>2, <2>2
    <3> QED BY <1>4, <2>1, <3>1
  <2> QED BY <1>2, <1>4, <2>1, <2>2
<1>6. ASSUME NEW i \in 1..n
      PROVE  (\E j \in 1..r : new[j] = segs[i]) \/ segs[i].last <= Base(m2)
  <2>1. CASE i <= k
    BY <1>2, <1>4, <2>1
  <2>2. CASE i > k
    <3>1. i - k \in 1..r /\ k + (i - k) = i
      BY <1>1, <1>2, <2>2
    <3> QED BY <1>2, <3>1
  <2> QED BY <1>1, <1>2, <2>1, <2>2
<1> QED BY <1>1, <1>2, <1>3, <1>4, <1>5, <1>6 DEF Ascending, m2, segs

------------------------------------------------------------------------------
(* The snapshot catalog. *)

(* A set of leading positions is the interval its cardinality names. *)
LEMMA LeadingPositions ==
  ASSUME NEW n \in Nat, NEW P \in SUBSET (1..n),
         \A i \in P, j \in 1..n : j < i => j \in P
  PROVE  /\ IsFiniteSet(P) /\ Cardinality(P) \in 0..n
         /\ P = 1..Cardinality(P)
<1> DEFINE k == Cardinality(P)
<1>1. IsFiniteSet(P) /\ k <= n
  <2>1. IsFiniteSet(1..n) /\ Cardinality(1..n) = n
    BY FS_Interval
  <2> QED BY <2>1, FS_Subset
<1>2. k \in Nat
  BY <1>1, FS_CardinalityType
<1> HIDE DEF k
<1>3. ASSUME NEW i \in P PROVE i \in 1..k
  <2>1. 1..i \subseteq P
    OBVIOUS
  <2>2. Cardinality(1..i) = i
    BY FS_Interval
  <2>3. i <= k
    BY <1>1, <2>1, <2>2, FS_Subset DEF k
  <2> QED BY <1>2, <2>3
<1>4. ASSUME NEW i \in 1..k PROVE i \in P
  <2>1. SUFFICES ASSUME i \notin P PROVE FALSE
    OBVIOUS
  <2>2. i \in 1..n
    BY <1>1, <1>2
  <2>3. P \subseteq 1..(i - 1)
    BY <2>1, <2>2
  <2>4. IsFiniteSet(1..(i - 1)) /\ Cardinality(1..(i - 1)) = i - 1
    BY <2>2, FS_Interval
  <2>5. k <= i - 1
    BY <2>3, <2>4, FS_Subset DEF k
  <2> QED BY <1>2, <2>5
<1>5. P = 1..k
  BY <1>3, <1>4
<1> QED BY <1>1, <1>2, <1>5 DEF k

(* What is left of a sequence without one of its elements. *)
LEMMA RemoveAtProperties ==
  ASSUME NEW S, NEW s \in Seq(S), NEW p \in 1..Len(s)
  PROVE  /\ RemoveAt(s, p) \in Seq(S)
         /\ Len(RemoveAt(s, p)) = Len(s) - 1
         /\ \A i \in 1..(Len(s) - 1) :
              RemoveAt(s, p)[i] = IF i < p THEN s[i] ELSE s[i + 1]
<1> DEFINE n == Len(s)
           l == SubSeq(s, 1, p - 1)
           r == SubSeq(s, p + 1, n)
<1>1. n \in Nat /\ p \in 1..n
  BY LenProperties
<1>2. l \in Seq(S) /\ Len(l) = p - 1 /\ \A i \in 1..(p - 1) : l[i] = s[i]
  <2>1. /\ l \in Seq(S) /\ Len(l) = (IF 1 <= p - 1 THEN (p - 1) - 1 + 1 ELSE 0)
        /\ \A i \in 1..((p - 1) - 1 + 1) : l[i] = s[1 + i - 1]
    BY <1>1, SubSeqType
  <2> HIDE DEF l
  <2> QED BY <1>1, <2>1
<1>3. r \in Seq(S) /\ Len(r) = n - p /\ \A i \in 1..(n - p) : r[i] = s[p + i]
  <2>1. /\ r \in Seq(S) /\ Len(r) = (IF p + 1 <= n THEN n - (p + 1) + 1 ELSE 0)
        /\ \A i \in 1..(n - (p + 1) + 1) : r[i] = s[(p + 1) + i - 1]
    BY <1>1, SubSeqType
  <2> HIDE DEF r, n
  <2>2. \A i \in 1..(n - p) : (p + 1) + i - 1 = p + i /\ i \in 1..(n - (p + 1) + 1)
    BY <1>1
  <2> QED BY <1>1, <2>1, <2>2
<1> HIDE DEF l, r
<1>4. /\ l \o r \in Seq(S) /\ Len(l \o r) = Len(l) + Len(r)
      /\ \A i \in 1..(Len(l) + Len(r)) :
           (l \o r)[i] = IF i <= Len(l) THEN l[i] ELSE r[i - Len(l)]
  BY <1>2, <1>3, ConcatProperties
<1> HIDE DEF n
<1>5. Len(l) + Len(r) = n - 1
  BY <1>1, <1>2, <1>3
<1>6. ASSUME NEW i \in 1..(n - 1)
      PROVE  (l \o r)[i] = IF i < p THEN s[i] ELSE s[i + 1]
  <2>1. CASE i < p
    BY <1>1, <1>2, <1>4, <1>5, <2>1
  <2>2. CASE ~(i < p)
    <3>1. i - (p - 1) \in 1..(n - p) /\ p + (i - (p - 1)) = i + 1 /\ ~(i <= p - 1)
      BY <1>1, <2>2
    <3> QED BY <1>2, <1>3, <1>4, <1>5, <2>2, <3>1
  <2> QED BY <2>1, <2>2
<1> QED BY <1>4, <1>5, <1>6 DEF RemoveAt, l, r, n

(* What a sequence is with an element inserted. *)
LEMMA InsertAtProperties ==
  ASSUME NEW S, NEW s \in Seq(S), NEW e \in S, NEW k \in 0..Len(s)
  PROVE  /\ InsertAt(s, k + 1, e) \in Seq(S)
         /\ Len(InsertAt(s, k + 1, e)) = Len(s) + 1
         /\ \A i \in 1..k : InsertAt(s, k + 1, e)[i] = s[i]
         /\ InsertAt(s, k + 1, e)[k + 1] = e
         /\ \A i \in (k + 2)..(Len(s) + 1) : InsertAt(s, k + 1, e)[i] = s[i - 1]
<1> DEFINE n == Len(s)
           l == SubSeq(s, 1, (k + 1) - 1)
           r == SubSeq(s, k + 1, n)
           m == l \o <<e>>
<1>0. InsertAt(s, k + 1, e) = m \o r
  <2> DEFINE i == k + 1
  <2>1. InsertAt(s, i, e) = (SubSeq(s, 1, i - 1) \o <<e>>) \o SubSeq(s, i, Len(s))
    <3> HIDE DEF i
    <3> QED BY Zenon DEF InsertAt
  <2> QED BY <2>1, Zenon
<1>1. n \in Nat /\ k \in 0..n /\ (k + 1) - 1 = k
  BY LenProperties
<1>2. l \in Seq(S) /\ Len(l) = k /\ \A i \in 1..k : l[i] = s[i]
  <2>1. /\ l \in Seq(S) /\ Len(l) = (IF 1 <= (k + 1) - 1 THEN ((k + 1) - 1) - 1 + 1 ELSE 0)
        /\ \A i \in 1..(((k + 1) - 1) - 1 + 1) : l[i] = s[1 + i - 1]
    BY <1>1, SubSeqType
  <2> HIDE DEF l
  <2> QED BY <1>1, <2>1
<1>3. r \in Seq(S) /\ Len(r) = n - k /\ \A i \in 1..(n - k) : r[i] = s[k + i]
  <2>1. /\ r \in Seq(S) /\ Len(r) = (IF k + 1 <= n THEN n - (k + 1) + 1 ELSE 0)
        /\ \A i \in 1..(n - (k + 1) + 1) : r[i] = s[(k + 1) + i - 1]
    BY <1>1, SubSeqType
  <2> HIDE DEF r, n
  <2>2. \A i \in 1..(n - k) : (k + 1) + i - 1 = k + i /\ i \in 1..(n - (k + 1) + 1)
    BY <1>1
  <2> QED BY <1>1, <2>1, <2>2
<1> HIDE DEF l, r, n
<1>4. m \in Seq(S) /\ Len(m) = k + 1 /\ m[k + 1] = e /\ \A i \in 1..k : m[i] = s[i]
  <2>1. <<e>> \in Seq(S) /\ Len(<<e>>) = 1 /\ <<e>>[1] = e
    OBVIOUS
  <2>2. /\ m \in Seq(S) /\ Len(m) = Len(l) + Len(<<e>>)
        /\ \A i \in 1..(Len(l) + Len(<<e>>)) :
             m[i] = IF i <= Len(l) THEN l[i] ELSE <<e>>[i - Len(l)]
    BY <1>2, <2>1, ConcatProperties
  <2> HIDE DEF m
  <2>3. k + 1 \in 1..(k + 1) /\ (k + 1) - k = 1 /\ ~(k + 1 <= k)
    BY <1>1
  <2>4. m[k + 1] = e
    BY <1>2, <2>1, <2>2, <2>3
  <2> QED BY <1>1, <1>2, <2>1, <2>2, <2>4
<1> HIDE DEF m
<1>5. /\ m \o r \in Seq(S) /\ Len(m \o r) = Len(m) + Len(r)
      /\ \A i \in 1..(Len(m) + Len(r)) :
           (m \o r)[i] = IF i <= Len(m) THEN m[i] ELSE r[i - Len(m)]
  BY <1>3, <1>4, ConcatProperties
<1>6. Len(m) + Len(r) = n + 1
  BY <1>1, <1>3, <1>4
<1>7. ASSUME NEW i \in 1..(n + 1)
      PROVE  (m \o r)[i] = IF i <= k THEN s[i] ELSE IF i = k + 1 THEN e ELSE s[i - 1]
  <2>1. CASE i <= k + 1
    BY <1>1, <1>4, <1>5, <1>6, <2>1
  <2>2. CASE ~(i <= k + 1)
    <3>1. i - (k + 1) \in 1..(n - k) /\ k + (i - (k + 1)) = i - 1 /\ ~(i <= k) /\ i # k + 1
      BY <1>1, <2>2
    <3> QED BY <1>3, <1>4, <1>5, <1>6, <2>2, <3>1
  <2> QED BY <2>1, <2>2
<1> DEFINE x == m \o r
<1> HIDE DEF x
<1>8. ASSUME NEW i \in 1..(n + 1)
      PROVE  x[i] = IF i <= k THEN s[i] ELSE IF i = k + 1 THEN e ELSE s[i - 1]
  BY <1>7 DEF x
<1>9. /\ \A i \in 1..k : x[i] = s[i]
      /\ x[k + 1] = e
      /\ \A i \in (k + 2)..(n + 1) : x[i] = s[i - 1]
  <2>1. ASSUME NEW i \in 1..k PROVE x[i] = s[i]
    BY <1>1, <1>8
  <2>2. x[k + 1] = e
    BY <1>1, <1>8
  <2>3. ASSUME NEW i \in (k + 2)..(n + 1) PROVE x[i] = s[i - 1]
    <3>1. i \in 1..(n + 1) /\ ~(i <= k) /\ i # k + 1
      BY <1>1
    <3> QED BY <1>8, <3>1
  <2> QED BY <2>1, <2>2, <2>3
<1> QED BY <1>0, <1>5, <1>6, <1>9 DEF n, x

(* An entry placed between those not younger and the younger ones is in order. *)
LEMMA InsertAtInOrder ==
  ASSUME NEW snaps \in Seq(Snapshot), InCreationOrder(snaps), NEW s \in Snapshot,
         \A i \in DOMAIN snaps : snaps[i].id # s.id,
         NEW k \in 0..Len(snaps),
         \A i \in 1..k : snaps[i].at <= s.at,
         \A i \in (k + 1)..Len(snaps) : s.at <= snaps[i].at
  PROVE  /\ InsertAt(snaps, k + 1, s) \in Seq(Snapshot)
         /\ InCreationOrder(InsertAt(snaps, k + 1, s))
<1> DEFINE n == Len(snaps)
           all == InsertAt(snaps, k + 1, s)
<1>1. n \in Nat /\ DOMAIN snaps = 1..n /\ k \in 0..n
  BY LenProperties
<1>2. \A i, j \in 1..n : i < j => snaps[i].id # snaps[j].id /\ snaps[i].at <= snaps[j].at
  BY <1>1 DEF InCreationOrder
<1>3. /\ all \in Seq(Snapshot) /\ Len(all) = n + 1
      /\ \A i \in 1..k : all[i] = snaps[i]
      /\ all[k + 1] = s
      /\ \A i \in (k + 2)..(n + 1) : all[i] = snaps[i - 1]
  BY InsertAtProperties, SMTT(60)
<1>4. \A i \in 1..n : snaps[i].id # s.id
  BY <1>1
<1>5. \A i \in (k + 1)..n : s.at <= snaps[i].at
  OBVIOUS
<1> HIDE DEF n, all
<1>6. ASSUME NEW i \in 1..(n + 1), NEW j \in 1..(n + 1), i < j
      PROVE  all[i].id # all[j].id /\ all[i].at <= all[j].at
  <2>1. CASE j <= k
    <3>1. i \in 1..k /\ j \in 1..k /\ i \in 1..n /\ j \in 1..n
      BY <1>1, <1>6, <2>1
    <3> QED BY <1>2, <1>3, <1>6, <3>1
  <2>2. CASE j = k + 1
    <3>1. i \in 1..k /\ i \in 1..n
      BY <1>1, <1>6, <2>2
    <3> QED BY <1>3, <1>4, <2>2, <3>1
  <2>3. CASE j > k + 1
    <3>1. /\ j \in (k + 2)..(n + 1) /\ j - 1 \in 1..n /\ j - 1 \in (k + 1)..n
      BY <1>1, <2>3
    <3>2. all[j] = snaps[j - 1]
      BY <1>3, <3>1
    <3>3. CASE i <= k
      <4>1. i \in 1..k /\ i \in 1..n /\ i < j - 1
        BY <1>1, <2>3, <3>3
      <4> QED BY <1>2, <1>3, <3>1, <3>2, <4>1
    <3>4. CASE i = k + 1
      BY <1>3, <1>4, <1>5, <3>1, <3>2, <3>4
    <3>5. CASE i > k + 1
      <4>1. i \in (k + 2)..(n + 1) /\ i - 1 \in 1..n /\ i - 1 < j - 1
        BY <1>1, <1>6, <3>5
      <4> QED BY <1>2, <1>3, <3>1, <3>2, <4>1
    <3> QED BY <1>1, <3>3, <3>4, <3>5
  <2> QED BY <1>1, <2>1, <2>2, <2>3
<1>7. DOMAIN all = 1..(n + 1)
  BY <1>1, <1>3
<1> QED BY <1>3, <1>6, <1>7 DEF InCreationOrder, all

(* A snapshot with a new id goes after every entry that is not younger. *)
LEMMA PlacedInOrder ==
  ASSUME NEW snaps \in Seq(Snapshot), InCreationOrder(snaps), NEW s \in Snapshot,
         \A i \in DOMAIN snaps : snaps[i].id # s.id
  PROVE  LET k == Cardinality({i \in DOMAIN snaps : snaps[i].at <= s.at})
         IN  /\ InsertAt(snaps, k + 1, s) \in Seq(Snapshot)
             /\ InCreationOrder(InsertAt(snaps, k + 1, s))
<1> DEFINE n == Len(snaps)
           older == {i \in DOMAIN snaps : snaps[i].at <= s.at}
           k == Cardinality(older)
<1>1. n \in Nat /\ DOMAIN snaps = 1..n /\ \A i \in 1..n : snaps[i] \in Snapshot
  BY LenProperties
<1>2. s.at \in Nat /\ \A i \in 1..n : snaps[i].at \in Nat
  BY <1>1 DEF Snapshot
<1> HIDE DEF n
<1>3. \A i \in older, j \in 1..n : j < i => j \in older
  BY <1>1, <1>2 DEF InCreationOrder
<1>4. older \in SUBSET (1..n)
  BY <1>1
<1>5. k \in 0..n /\ older = 1..k
  <2> HIDE DEF older
  <2> QED BY <1>1, <1>3, <1>4, LeadingPositions
<1>6. ASSUME NEW i \in 1..n PROVE snaps[i].at <= s.at <=> i \in 1..k
  <2>1. snaps[i].at <= s.at <=> i \in older
    BY <1>1
  <2> HIDE DEF older
  <2> QED BY <1>5, <2>1
<1> HIDE DEF k
<1>7. \A i \in 1..k : snaps[i].at <= s.at
  BY <1>1, <1>5, <1>6
<1>8. ASSUME NEW i \in (k + 1)..n PROVE s.at <= snaps[i].at
  <2>1. i \in 1..n /\ i \notin 1..k
    BY <1>1, <1>5
  <2> QED BY <1>2, <1>6, <2>1
<1>9. k \in 0..Len(snaps) /\ \A i \in (k + 1)..Len(snaps) : s.at <= snaps[i].at
  BY <1>5, <1>8 DEF n
<1>10. /\ InsertAt(snaps, k + 1, s) \in Seq(Snapshot)
       /\ InCreationOrder(InsertAt(snaps, k + 1, s))
  BY <1>7, <1>9, InsertAtInOrder
<1> QED BY <1>10 DEF k

(* The new entry replaces the one of its id, in creation order. *)
LEMMA InsertInOrder ==
  ASSUME NEW snaps \in Seq(Snapshot), InCreationOrder(snaps), NEW s \in Snapshot
  PROVE  InCreationOrder(InsertSnapshot(snaps, s))
<1> DEFINE n == Len(snaps)
           same == {i \in DOMAIN snaps : snaps[i].id = s.id}
           p == CHOOSE i \in same : TRUE
           others == IF same = {} THEN snaps ELSE RemoveAt(snaps, p)
           k == Cardinality({i \in DOMAIN others : others[i].at <= s.at})
<1>1. n \in Nat /\ DOMAIN snaps = 1..n /\ \A i \in 1..n : snaps[i] \in Snapshot
  BY LenProperties
<1> HIDE DEF n
<1>2. /\ others \in Seq(Snapshot) /\ InCreationOrder(others)
      /\ \A i \in DOMAIN others : others[i].id # s.id
  <2>1. CASE same = {}
    BY <2>1
  <2>2. CASE same # {}
    <3>1. p \in 1..n /\ snaps[p].id = s.id
      BY <1>1, <2>2
    <3> HIDE DEF p
    <3> DEFINE rest == RemoveAt(snaps, p)
    <3>2. /\ rest \in Seq(Snapshot) /\ Len(rest) = n - 1
          /\ \A i \in 1..(n - 1) : rest[i] = IF i < p THEN snaps[i] ELSE snaps[i + 1]
      BY <3>1, RemoveAtProperties DEF n
    <3> HIDE DEF rest
    <3>3. DOMAIN rest = 1..(n - 1)
      BY <1>1, <3>1, <3>2
    <3>4. ASSUME NEW i \in 1..(n - 1) PROVE rest[i].id # s.id
      <4>1. CASE i < p
        BY <1>1, <3>1, <3>2, <4>1 DEF InCreationOrder
      <4>2. CASE ~(i < p)
        <5>1. p < i + 1 /\ i + 1 \in 1..n
          BY <1>1, <3>1, <4>2
        <5>2. rest[i] = snaps[i + 1]
          BY <3>2, <4>2
        <5> QED BY <1>1, <3>1, <5>1, <5>2 DEF InCreationOrder
      <4> QED BY <4>1, <4>2
    <3>5. ASSUME NEW i \in 1..(n - 1), NEW j \in 1..(n - 1), i < j
          PROVE  rest[i].id # rest[j].id /\ rest[i].at <= rest[j].at
      <4>1. PICK a \in 1..n, b \in 1..n : a < b /\ rest[i] = snaps[a] /\ rest[j] = snaps[b]
        <5>0. i \in 1..n /\ j \in 1..n /\ i + 1 \in 1..n /\ j + 1 \in 1..n /\ i < j + 1 /\ i + 1 < j + 1
          BY <1>1, <3>5
        <5>1. CASE j < p
          <6>1. rest[i] = snaps[i] /\ rest[j] = snaps[j]
            BY <3>1, <3>2, <3>5, <5>0, <5>1
          <6> QED BY <3>5, <5>0, <6>1
        <5>2. CASE ~(j < p) /\ i < p
          <6>1. rest[i] = snaps[i] /\ rest[j] = snaps[j + 1]
            BY <3>2, <5>2
          <6> QED BY <5>0, <6>1
        <5>3. CASE ~(i < p)
          <6>1. ~(j < p)
            BY <1>1, <3>1, <3>5, <5>3
          <6>2. rest[i] = snaps[i + 1] /\ rest[j] = snaps[j + 1]
            BY <3>2, <5>3, <6>1
          <6> QED BY <5>0, <6>2
        <5> QED BY <5>1, <5>2, <5>3
      <4> QED BY <1>1, <4>1 DEF InCreationOrder
    <3>6. others = rest
      BY <2>2 DEF rest
    <3> QED BY <3>2, <3>3, <3>4, <3>5, <3>6 DEF InCreationOrder
  <2> QED BY <2>1, <2>2
<1> HIDE DEF others
<1>3. InCreationOrder(InsertAt(others, k + 1, s))
  BY <1>2, PlacedInOrder
<1> QED BY <1>3 DEF InsertSnapshot, others, p, same

(* Age retention and the cap leave no more than the cap. *)
LEMMA SurplusEnough ==
  ASSUME NEW snaps \in Seq(Snapshot), NEW time
  PROVE  Len(snaps) - Surplus(snaps, time) <= IF SnapshotCap = 0 THEN 1 ELSE SnapshotCap
<1> DEFINE n == Len(snaps)
           cap == IF SnapshotCap = 0 THEN 1 ELSE SnapshotCap
           tooOld == IF SnapshotAge = 0 THEN {}
                     ELSE {i \in DOMAIN snaps : time > snaps[i].at + SnapshotAge}
           tooMany == {i \in DOMAIN snaps : i + cap <= Len(snaps)}
           gone == tooOld \cup tooMany
<1>1. n \in Nat /\ DOMAIN snaps = 1..n /\ cap \in Nat \ {0}
  BY LenProperties, ManifestAssumption
<1>2. Surplus(snaps, time) = Cardinality(gone)
  BY DEF Surplus
<1>3. gone \subseteq 1..n
  BY <1>1
<1> HIDE DEF cap
<1>4. tooMany = 1..(n - cap)
  BY <1>1
<1> HIDE DEF n, tooOld, tooMany
<1>5. IsFiniteSet(gone)
  <2>1. IsFiniteSet(1..n)
    BY <1>1, FS_Interval
  <2> QED BY <1>3, <2>1, FS_Subset
<1>6. Cardinality(tooMany) <= Cardinality(gone) /\ Cardinality(gone) \in Nat
  BY <1>5, FS_Subset, FS_CardinalityType
<1>7. Cardinality(tooMany) = IF 1 > n - cap THEN 0 ELSE n - cap - 1 + 1
  BY <1>1, <1>4, FS_Interval
<1>8. n - Cardinality(gone) <= cap
  BY <1>1, <1>6, <1>7
<1> QED BY <1>2, <1>8 DEF n, cap

(* upsert_snapshot leaves a sound catalog. *)
LEMMA WithSnapshotCataloged ==
  ASSUME NEW m \in Manifest, Cataloged(m), NEW s \in Snapshot, NEW w \in Writers, NEW time
  PROVE  Cataloged(WithSnapshot(m, s, w, time))
<1> DEFINE all == InsertSnapshot(m.snapshots, s)
           n == Len(all)
           k == Surplus(all, time)
           kept == SubSeq(all, k + 1, n)
           cur == IF \E i \in DOMAIN kept : kept[i].id = s.id THEN s.id
                  ELSE IF kept # <<>> THEN kept[Len(kept)].id ELSE None
           m2 == WithSnapshot(m, s, w, time)
<1>1. m.snapshots \in Seq(Snapshot)
  BY DEF Manifest
<1>2. all \in Seq(Snapshot) /\ InCreationOrder(all)
  BY <1>1, InsertType, InsertInOrder DEF Cataloged
<1>3. m2 = [m EXCEPT !.snapshots = kept, !.current = cur, !.writer = w]
  BY DEF WithSnapshot
<1> HIDE DEF all, m2
<1>4. n \in Nat /\ k \in 0..n /\ DOMAIN all = 1..n
  BY <1>2, SurplusType, LenProperties
<1>5. n - k <= IF SnapshotCap = 0 THEN 1 ELSE SnapshotCap
  BY <1>2, SurplusEnough
<1>6. /\ kept \in Seq(Snapshot) /\ Len(kept) = n - k
      /\ \A i \in 1..(n - k) : kept[i] = all[k + i]
  <2>1. /\ kept \in Seq(Snapshot)
        /\ Len(kept) = IF k + 1 <= n THEN n - (k + 1) + 1 ELSE 0
        /\ \A i \in 1..(n - (k + 1) + 1) : kept[i] = all[(k + 1) + i - 1]
    BY <1>2, <1>4, SubSeqType
  <2> HIDE DEF kept, n, k
  <2>2. \A i \in 1..(n - k) : (k + 1) + i - 1 = k + i /\ i \in 1..(n - (k + 1) + 1)
    BY <1>4
  <2> QED BY <1>4, <2>1, <2>2
<1>7. m2.snapshots = kept /\ m2.current = cur
  BY <1>3 DEF Manifest
<1> HIDE DEF kept, n, k
<1>8. DOMAIN kept = 1..(n - k)
  BY <1>4, <1>6
<1>9. InCreationOrder(kept)
  <2> SUFFICES ASSUME NEW i \in 1..(n - k), NEW j \in 1..(n - k), i < j
               PROVE  kept[i].id # kept[j].id /\ kept[i].at <= kept[j].at
    BY <1>8 DEF InCreationOrder
  <2>1. kept[i] = all[k + i] /\ kept[j] = all[k + j]
    BY <1>6
  <2>2. k + i \in 1..n /\ k + j \in 1..n /\ k + i < k + j
    BY <1>4
  <2> QED BY <1>2, <1>4, <2>1, <2>2 DEF InCreationOrder
<1>10. kept # <<>> => \E i \in DOMAIN kept : kept[i].id = cur
  <2>1. ASSUME kept # <<>> PROVE Len(kept) \in DOMAIN kept
    BY <1>4, <1>6, <1>8, <2>1
  <2> QED BY <2>1
<1> QED BY <1>5, <1>6, <1>7, <1>9, <1>10 DEF Cataloged, m2

(* A snapshot that is no older than those of the catalog is its last entry.   *)
LEMMA InsertNewest ==
  ASSUME NEW snaps \in Seq(Snapshot), NEW s \in Snapshot,
         \A i \in DOMAIN snaps : snaps[i].at <= s.at
  PROVE  LET all == InsertSnapshot(snaps, s)
         IN  /\ Len(all) \in Nat \ {0} /\ DOMAIN all = 1..Len(all) /\ all[Len(all)] = s
             /\ \A i \in DOMAIN all : all[i] = s \/ \E j \in DOMAIN snaps : all[i] = snaps[j]
<1> DEFINE n == Len(snaps)
           same == {i \in DOMAIN snaps : snaps[i].id = s.id}
           p == CHOOSE i \in same : TRUE
           others == IF same = {} THEN snaps ELSE RemoveAt(snaps, p)
           k == Cardinality({i \in DOMAIN others : others[i].at <= s.at})
           all == InsertSnapshot(snaps, s)
<1>1. n \in Nat /\ DOMAIN snaps = 1..n /\ \A i \in 1..n : snaps[i] \in Snapshot
  BY LenProperties
<1> HIDE DEF n
<1>2. /\ others \in Seq(Snapshot)
      /\ \A i \in DOMAIN others : \E j \in DOMAIN snaps : others[i] = snaps[j]
  <2>1. CASE same = {}
    BY <2>1
  <2>2. CASE same # {}
    <3>1. p \in 1..n
      BY <1>1, <2>2
    <3> HIDE DEF p
    <3> DEFINE rest == RemoveAt(snaps, p)
    <3>2. /\ rest \in Seq(Snapshot) /\ Len(rest) = n - 1
          /\ \A i \in 1..(n - 1) : rest[i] = IF i < p THEN snaps[i] ELSE snaps[i + 1]
      BY <3>1, RemoveAtProperties DEF n
    <3> HIDE DEF rest
    <3>3. DOMAIN rest = 1..(n - 1)
      BY <1>1, <3>1, <3>2
    <3>4. ASSUME NEW i \in 1..(n - 1) PROVE \E j \in 1..n : rest[i] = snaps[j]
      BY <1>1, <3>1, <3>2
    <3> QED BY <1>1, <2>2, <3>2, <3>3, <3>4 DEF rest
  <2> QED BY <2>1, <2>2
<1> DEFINE l == Len(others)
<1>3. l \in Nat /\ DOMAIN others = 1..l
  BY <1>2, LenProperties
<1> HIDE DEF others
<1>4. k = l
  <2>1. {i \in DOMAIN others : others[i].at <= s.at} = 1..l
    BY <1>2, <1>3
  <2> HIDE DEF l
  <2>2. Cardinality(1..l) = l
    BY <1>3, FS_Interval
  <2> QED BY <2>1, <2>2
<1> HIDE DEF k
<1>5. all = InsertAt(others, l + 1, s)
  BY <1>4 DEF InsertSnapshot, others, p, same, k
<1> HIDE DEF all, l
<1>6. /\ all \in Seq(Snapshot) /\ Len(all) = l + 1 /\ all[l + 1] = s
      /\ \A i \in 1..l : all[i] = others[i]
  <2>1. l \in 0..Len(others)
    BY <1>3 DEF l
  <2>2. /\ InsertAt(others, l + 1, s) \in Seq(Snapshot)
        /\ Len(InsertAt(others, l + 1, s)) = Len(others) + 1
        /\ \A i \in 1..l : InsertAt(others, l + 1, s)[i] = others[i]
        /\ InsertAt(others, l + 1, s)[l + 1] = s
    BY <1>2, <2>1, InsertAtProperties
  <2> QED BY <1>5, <2>2 DEF l
<1>7. DOMAIN all = 1..(l + 1)
  BY <1>6, LenProperties
<1>8. \A i \in 1..(l + 1) : i \in 1..l \/ i = l + 1
  BY <1>3
<1> QED BY <1>2, <1>3, <1>6, <1>7, <1>8 DEF all

LEMMA IntervalSize ==
  ASSUME NEW n \in Nat \ {0}
  PROVE  IsFiniteSet(1..(n - 1)) /\ Cardinality(1..(n - 1)) = n - 1
<1>1. n - 1 \in Nat
  OBVIOUS
<1> QED BY <1>1, FS_Interval

(* Retention keeps the last entry when it is as new as the moment.           *)
LEMMA SurplusSpares ==
  ASSUME NEW snaps \in Seq(Snapshot), Len(snaps) # 0, NEW time \in Nat,
         snaps[Len(snaps)].at = time
  PROVE  Surplus(snaps, time) \in 0..(Len(snaps) - 1)
<1> DEFINE n == Len(snaps)
           cap == IF SnapshotCap = 0 THEN 1 ELSE SnapshotCap
           tooOld == IF SnapshotAge = 0 THEN {}
                     ELSE {i \in DOMAIN snaps : time > snaps[i].at + SnapshotAge}
           tooMany == {i \in DOMAIN snaps : i + cap <= Len(snaps)}
           gone == tooOld \cup tooMany
<1>1. n \in Nat \ {0} /\ DOMAIN snaps = 1..n /\ cap \in Nat \ {0} /\ SnapshotAge \in Nat
  BY LenProperties, ManifestAssumption
<1>2. Surplus(snaps, time) = Cardinality(gone)
  BY DEF Surplus
<1>3. n \notin gone
  BY <1>1
<1>4. gone \subseteq 1..(n - 1)
  BY <1>1, <1>3
<1> HIDE DEF n, gone
<1>5. IsFiniteSet(1..(n - 1)) /\ Cardinality(1..(n - 1)) = n - 1
  BY <1>1, IntervalSize
<1>6. Cardinality(gone) <= n - 1 /\ Cardinality(gone) \in Nat
  BY <1>4, <1>5, FS_Subset, FS_CardinalityType
<1> QED BY <1>1, <1>2, <1>6 DEF n

(* A snapshot taken now becomes the current one and is not evicted; what is   *)
(* evicted is not listed any more, what is listed was, or is the new one.    *)
LEMMA WithSnapshotNewest ==
  ASSUME NEW m \in Manifest, Cataloged(m), NEW s \in Snapshot, NEW w \in Writers,
         \A i \in DOMAIN m.snapshots : m.snapshots[i].at <= s.at
  PROVE  LET m2 == WithSnapshot(m, s, w, s.at)
         IN  /\ m2.current = s.id /\ \E i \in DOMAIN m2.snapshots : m2.snapshots[i] = s
             /\ \A i \in DOMAIN m2.snapshots :
                  /\ m2.snapshots[i].id \notin EvictedBy(m, s, s.at)
                  /\ \/ m2.snapshots[i] = s
                     \/ \E j \in DOMAIN m.snapshots : m2.snapshots[i] = m.snapshots[j]
<1> DEFINE time == s.at
           all == InsertSnapshot(m.snapshots, s)
           n == Len(all)
           k == Surplus(all, time)
           kept == SubSeq(all, k + 1, n)
           cur == IF \E i \in DOMAIN kept : kept[i].id = s.id THEN s.id
                  ELSE IF kept # <<>> THEN kept[Len(kept)].id ELSE None
           m2 == WithSnapshot(m, s, w, time)
<1>1. m.snapshots \in Seq(Snapshot) /\ time \in Nat
  BY DEF Manifest, Snapshot
<1>2. all \in Seq(Snapshot) /\ InCreationOrder(all)
  BY <1>1, InsertType, InsertInOrder DEF Cataloged
<1>3. m2 = [m EXCEPT !.snapshots = kept, !.current = cur, !.writer = w]
  BY DEF WithSnapshot
<1>4. /\ n \in Nat \ {0} /\ DOMAIN all = 1..n /\ all[n] = s
      /\ \A i \in 1..n : all[i] = s \/ \E j \in DOMAIN m.snapshots : all[i] = m.snapshots[j]
  BY <1>1, InsertNewest
<1>5. EvictedBy(m, s, time) = {all[i].id : i \in 1..k}
  BY DEF EvictedBy
<1> HIDE DEF all, m2
<1>6. k \in 0..(n - 1)
  BY <1>1, <1>2, <1>4, SurplusSpares
<1>7. kept \in Seq(Snapshot) /\ Len(kept) = n - k /\ \A i \in 1..(n - k) : kept[i] = all[k + i]
  <2>1. /\ kept \in Seq(Snapshot)
        /\ Len(kept) = IF k + 1 <= n THEN n - (k + 1) + 1 ELSE 0
        /\ \A i \in 1..(n - (k + 1) + 1) : kept[i] = all[(k + 1) + i - 1]
    BY <1>2, <1>4, <1>6, SubSeqType
  <2> HIDE DEF kept, n, k
  <2>2. \A i \in 1..(n - k) : (k + 1) + i - 1 = k + i /\ i \in 1..(n - (k + 1) + 1)
    BY <1>4, <1>6
  <2> QED BY <1>4, <1>6, <2>1, <2>2
<1>8. m2.snapshots = kept /\ m2.current = cur
  BY <1>3 DEF Manifest
<1> HIDE DEF kept, n, k
<1>9. DOMAIN kept = 1..(n - k)
  BY <1>4, <1>6, <1>7
<1>10. n - k \in 1..(n - k) /\ kept[n - k] = s
  BY <1>4, <1>6, <1>7
<1>11. cur = s.id
  BY <1>9, <1>10
<1>12. ASSUME NEW i \in 1..(n - k)
       PROVE  /\ kept[i].id \notin {all[j].id : j \in 1..k}
              /\ kept[i] = s \/ \E j \in DOMAIN m.snapshots : kept[i] = m.snapshots[j]
  <2>1. kept[i] = all[k + i] /\ k + i \in 1..n /\ \A j \in 1..k : j \in 1..n /\ j < k + i
    BY <1>4, <1>6, <1>7
  <2> QED BY <1>2, <1>4, <2>1 DEF InCreationOrder
<1> QED BY <1>5, <1>8, <1>9, <1>10, <1>11, <1>12 DEF m2

(* A fresh manifest has an empty catalog; appends and compactions keep theirs. *)
LEMMA CatalogUntouched ==
  ASSUME NEW m \in Manifest, NEW w, NEW e, NEW s, NEW r
  PROVE  /\ Cataloged(DefaultManifest(w, e))
         /\ Cataloged(m) => Cataloged(WithSegment(m, s, w)) /\ Cataloged(Compacted(m, r, w))
<1>1. Cataloged(DefaultManifest(w, e))
  BY ManifestAssumption DEF DefaultManifest, Cataloged, InCreationOrder
<1>2. /\ WithSegment(m, s, w).snapshots = m.snapshots /\ WithSegment(m, s, w).current = m.current
      /\ Compacted(m, r, w).snapshots = m.snapshots /\ Compacted(m, r, w).current = m.current
  BY DEF WithSegment, Compacted, Manifest
<1> QED BY <1>1, <1>2 DEF Cataloged

------------------------------------------------------------------------------
Entry == [first : Nat, last : Nat, sum : Batches]

(* The view of a segment list as log entries. *)
LEMMA EntriesType ==
  ASSUME NEW segs \in Seq(Segment)
  PROVE  /\ Entries(segs) \in Seq(Entry)
         /\ Len(Entries(segs)) = Len(segs)
         /\ \A i \in 1..Len(segs) :
              Entries(segs)[i] = [first |-> segs[i].first, last |-> segs[i].last,
                                  sum |-> segs[i].sum]
<1> DEFINE n == Len(segs)
           e == [i \in 1..n |-> [first |-> segs[i].first, last |-> segs[i].last,
                                 sum |-> segs[i].sum]]
<1>1. n \in Nat /\ DOMAIN segs = 1..n /\ \A i \in 1..n : segs[i] \in Segment
  BY LenProperties
<1> HIDE DEF n
<1>2. e \in [1..n -> Entry]
  BY <1>1 DEF Segment, Entry
<1>3. Entries(segs) = e
  BY <1>1 DEF Entries
<1>4. e \in Seq(Entry) /\ Len(e) = n
  <2> HIDE DEF e
  <2>1. DOMAIN e = 1..n
    BY <1>2
  <2> QED BY <1>1, <1>2, <2>1, IsASeq, LenProperties
<1> QED BY <1>3, <1>4 DEF n

(* Appending a segment appends its entry. *)
LEMMA EntriesAppend ==
  ASSUME NEW segs \in Seq(Segment), NEW s \in Segment
  PROVE  Entries(Append(segs, s)) =
           Append(Entries(segs), [first |-> s.first, last |-> s.last, sum |-> s.sum])
<1> DEFINE e == [first |-> s.first, last |-> s.last, sum |-> s.sum]
           new == Append(segs, s)
           ents == Entries(segs)
<1>1. e \in Entry
  BY DEF Segment, Entry
<1>2. /\ new \in Seq(Segment) /\ Len(new) = Len(segs) + 1 /\ Len(segs) \in Nat
      /\ \A i \in 1..Len(segs) : new[i] = segs[i]
      /\ new[Len(segs) + 1] = s
  BY AppendProperties, LenProperties
<1> HIDE DEF e, new
<1>3. /\ ents \in Seq(Entry) /\ Len(ents) = Len(segs)
      /\ Entries(new) \in Seq(Entry) /\ Len(Entries(new)) = Len(segs) + 1
  BY <1>2, EntriesType
<1> HIDE DEF ents
<1>4. /\ Append(ents, e) \in Seq(Entry) /\ Len(Append(ents, e)) = Len(segs) + 1
      /\ \A i \in 1..Len(segs) : Append(ents, e)[i] = ents[i]
      /\ Append(ents, e)[Len(segs) + 1] = e
  BY <1>1, <1>3, AppendProperties
<1>5. ASSUME NEW i \in 1..(Len(segs) + 1) PROVE Entries(new)[i] = Append(ents, e)[i]
  <2>1. Entries(new)[i] = [first |-> new[i].first, last |-> new[i].last, sum |-> new[i].sum]
    BY <1>2, EntriesType
  <2>2. CASE i = Len(segs) + 1
    BY <1>2, <1>4, <2>1, <2>2 DEF e
  <2>3. CASE i \in 1..Len(segs)
    <3>1. new[i] = segs[i] /\ Append(ents, e)[i] = ents[i]
      BY <1>2, <1>4, <2>3
    <3>2. ents[i] = [first |-> segs[i].first, last |-> segs[i].last, sum |-> segs[i].sum]
      BY <2>3, EntriesType DEF ents
    <3> QED BY <2>1, <3>1, <3>2
  <2>4. i = Len(segs) + 1 \/ i \in 1..Len(segs)
    BY <1>2
  <2> QED BY <2>2, <2>3, <2>4
<1>6. Entries(new) = Append(ents, e)
  BY <1>3, <1>4, <1>5, SeqEqual
<1> QED BY <1>6 DEF new, ents, e

(* Dropping leading segments drops their entries. *)
LEMMA EntriesSubSeq ==
  ASSUME NEW segs \in Seq(Segment), NEW k \in 1..Len(segs)
  PROVE  Entries(SubSeq(segs, k + 1, Len(segs))) =
           SubSeq(Entries(segs), k + 1, Len(Entries(segs)))
<1> DEFINE n == Len(segs)
           new == SubSeq(segs, k + 1, n)
           ents == Entries(segs)
           cut == SubSeq(ents, k + 1, n)
<1>1. n \in Nat /\ k + 1 \in 1..n + 1 /\ n \in 0..n /\ k \in 1..n
  BY LenProperties
<1>2. ents \in Seq(Entry) /\ Len(ents) = n
  BY EntriesType
<1> HIDE DEF ents
<1>3. /\ new \in Seq(Segment) /\ Len(new) = IF k + 1 <= n THEN n - (k + 1) + 1 ELSE 0
      /\ \A i \in 1..(n - (k + 1) + 1) : new[i] = segs[(k + 1) + i - 1]
  BY <1>1, SubSeqType
<1>4. /\ cut \in Seq(Entry) /\ Len(cut) = IF k + 1 <= n THEN n - (k + 1) + 1 ELSE 0
      /\ \A i \in 1..(n - (k + 1) + 1) : cut[i] = ents[(k + 1) + i - 1]
  BY <1>1, <1>2, SubSeqType
<1> HIDE DEF n, new, cut
<1>5. Len(new) = n - k /\ Len(cut) = n - k /\ n - (k + 1) + 1 = n - k /\ n - k \in Nat
  BY <1>1, <1>3, <1>4
<1>6. ASSUME NEW i \in 1..(n - k) PROVE Entries(new)[i] = cut[i]
  <2>1. Entries(new)[i] = [first |-> new[i].first, last |-> new[i].last, sum |-> new[i].sum]
    BY <1>3, <1>5, EntriesType
  <2> DEFINE j == (k + 1) + i - 1
  <2>2. j \in 1..n
    BY <1>1
  <2>3. new[i] = segs[j] /\ cut[i] = ents[j]
    BY <1>3, <1>4, <1>5
  <2> HIDE DEF j
  <2>4. ents[j] = [first |-> segs[j].first, last |-> segs[j].last, sum |-> segs[j].sum]
    BY <2>2, EntriesType DEF ents, n
  <2> QED BY <2>1, <2>3, <2>4
<1>7. Entries(new) \in Seq(Entry) /\ Len(Entries(new)) = n - k
  BY <1>3, <1>5, EntriesType
<1>8. Entries(new) = cut
  BY <1>4, <1>5, <1>6, <1>7, SeqEqual
<1> QED BY <1>2, <1>8 DEF new, cut, ents, n
===============================================================================
