--------------------------- MODULE ReplicatorProofs ---------------------------
(****************************************************************************)
(* Proofs about Replicator, for any number of processes, tasks, batches and  *)
(* any bounds: types, the shape of the manifest and of its catalog, that what *)
(* it lists is stored; and once it exists the hand-over of the lease, that    *)
(* acknowledged appends stay and that the manifest implements SegmentLog.     *)
(****************************************************************************)
EXTENDS Replicator, ManifestProofs

------------------------------------------------------------------------------
(* The inductive invariant.  What a task did before its current step:         *)
(* ensure_lease read a lease and, if another process holds it, saw it         *)
(* expired; the call holds a lease; it loaded a manifest worth compacting.    *)

LeaseRead(t) ==
  pc[t] = "renew" =>
    /\ seenLease[t] # None
    /\ seenLease[t].writer # WriterOf[t] => seenLease[t].until <= clock[t]

Leased(t) == pc[t] \in {"load", "segment", "commit"} => grant[t] # None

ManifestRead(t) ==
  /\ pc[t] = "segment" => call[t].op = "append"
  /\ seenManifest[t] # None => Contiguous(seenManifest[t])
  /\ pc[t] = "commit" /\ call[t].op = "compact" =>
       seenManifest[t] # None /\ Len(seenManifest[t].segments) > call[t].retain

(* In a database that exists the unconditional puts are never reached. *)
WarmTask(t) ==
  /\ pc[t] # "create"
  /\ pc[t] \in {"segment", "commit"} => seenManifest[t] # None

IInv ==
  /\ TypeOK
  /\ ManifestContiguous
  /\ \A t \in Tasks : clock[t] <= now /\ LeaseRead(t) /\ Leased(t) /\ ManifestRead(t)
  /\ Warm => lease # None /\ manifest # None /\ \A t \in Tasks : WarmTask(t)

(* The arguments of a call, by its operation. *)
LEMMA CallTypes ==
  ASSUME NEW c \in Call
  PROVE  /\ c.op = "append" => c.batch \in Batches
         /\ c.op = "upsert" => c.snapshot \in Snapshot
         /\ c.op = "compact" => c.retain \in Nat
         /\ c.op \in {"append", "upsert", "compact", "sync"}
BY DEF Call, AppendCall, UpsertCall, CompactCall, SyncCall

(* Whatever a task loaded, it works on a sound manifest of the right type. *)
LEMMA LoadedSound ==
  ASSUME TypeOK, NEW t \in Tasks, grant[t] # None, ManifestRead(t)
  PROVE  Loaded(t) \in Manifest /\ Contiguous(Loaded(t)) /\ WriterOf[t] \in Writers
<1>1. grant[t] \in Lease /\ WriterOf[t] \in Writers
  BY ReplicatorAssumption DEF TypeOK
<1>2. CASE seenManifest[t] = None
  <2>1. grant[t].epoch \in Nat \ {0}
    BY <1>1 DEF Lease
  <2> QED BY <1>1, <1>2, <2>1, DefaultSound DEF Loaded
<1>3. CASE seenManifest[t] # None
  BY <1>1, <1>3 DEF Loaded, TypeOK, ManifestRead
<1> QED BY <1>2, <1>3

(* The segment append_segment builds continues the manifest it loaded. *)
LEMMA NewSegmentType ==
  ASSUME TypeOK, NEW t \in Tasks, grant[t] # None, ManifestRead(t),
         call[t].op = "append"
  PROVE  /\ NewSegment(t) \in Segment
         /\ NewSegment(t).first = Loaded(t).applied + 1
         /\ NewSegment(t).last = Loaded(t).applied + Len(NewSegment(t).sum)
<1>1. Loaded(t) \in Manifest
  BY LoadedSound
<1>2. Loaded(t).applied \in Nat
  BY <1>1 DEF Manifest
<1>3. call[t].batch \in Batches /\ Len(call[t].batch) \in Nat
  BY CallTypes, ManifestAssumption DEF TypeOK
<1>4. grant[t].epoch \in Nat \ {0}
  BY DEF TypeOK, Lease
<1> QED BY <1>2, <1>3, <1>4 DEF NewSegment, Segment

(* What write_manifest is asked to store is sound, whatever the call. *)
LEMMA NextManifestSound ==
  ASSUME TypeOK, NEW t \in Tasks, grant[t] # None, ManifestRead(t),
         pc[t] = "commit"
  PROVE  NextManifest(t) \in Manifest /\ Contiguous(NextManifest(t))
<1>1. Loaded(t) \in Manifest /\ Contiguous(Loaded(t)) /\ WriterOf[t] \in Writers
  BY LoadedSound
<1>2. call[t] \in Call
  BY DEF TypeOK
<1>3. CASE call[t].op = "append"
  <2>1. NextManifest(t) = WithSegment(Loaded(t), NewSegment(t), WriterOf[t])
    BY <1>3 DEF NextManifest
  <2> QED BY <1>1, <1>3, <2>1, NewSegmentType, WithSegmentSound
<1>4. CASE call[t].op = "upsert"
  <2>1. NextManifest(t) = WithSnapshot(Loaded(t), call[t].snapshot, WriterOf[t], now)
    BY <1>4 DEF NextManifest
  <2>2. call[t].snapshot \in Snapshot
    BY <1>2, <1>4, CallTypes
  <2> DEFINE m2 == WithSnapshot(Loaded(t), call[t].snapshot, WriterOf[t], now)
  <2>3. /\ m2 \in Manifest /\ m2.segments = Loaded(t).segments
        /\ m2.applied = Loaded(t).applied /\ m2.watermark = Loaded(t).watermark
    BY <1>1, <2>2, WithSnapshotType
  <2> HIDE DEF m2
  <2>4. Contiguous(m2)
    BY <1>1, <2>3 DEF Contiguous, Base
  <2> QED BY <2>1, <2>3, <2>4 DEF m2
<1>5. CASE call[t].op = "compact"
  <2>1. NextManifest(t) = Compacted(Loaded(t), call[t].retain, WriterOf[t])
    BY <1>5 DEF NextManifest
  <2>2. call[t].retain \in Nat
    BY <1>2, <1>5, CallTypes
  <2>3. Len(Loaded(t).segments) > call[t].retain
    BY <1>5 DEF Loaded, ManifestRead
  <2> QED BY <1>1, <2>1, <2>2, <2>3, CompactedSound
<1>6. CASE call[t].op = "sync"
  BY <1>1, <1>6 DEF NextManifest
<1> QED BY <1>2, <1>3, <1>4, <1>5, <1>6, CallTypes

(* The program starts in the invariant. *)
LEMMA InitIInv == Init => IInv
<1> SUFFICES ASSUME Init PROVE IInv
  OBVIOUS
<1>1. /\ lease \in Lease \cup {None} /\ manifest \in Manifest \cup {None}
      /\ ManifestContiguous
      /\ Warm => lease # None /\ manifest # None
  <2>1. CASE Warm
    <3>1. PICK w \in Writers :
            /\ lease = [writer |-> w, until |-> LeaseSecs, epoch |-> 1]
            /\ manifest = DefaultManifest(w, 1)
      BY <2>1 DEF Init
    <3>2. lease \in Lease
      BY <3>1, ReplicatorAssumption DEF Lease
    <3>3. manifest \in Manifest /\ Contiguous(manifest)
      BY <3>1, DefaultSound
    <3> QED BY <3>2, <3>3, ReplicatorAssumption, ManifestAssumption DEF ManifestContiguous
  <2>2. CASE ~Warm
    BY <2>2 DEF Init, ManifestContiguous
  <2> QED BY <2>1, <2>2
<1>2. [op |-> "sync"] \in Call
  BY DEF Call, SyncCall
<1>3. TypeOK
  BY <1>1, <1>2 DEF Init, TypeOK, Running, Finished
<1>4. \A t \in Tasks : clock[t] <= now /\ LeaseRead(t) /\ Leased(t) /\ ManifestRead(t)
  BY DEF Init, LeaseRead, Leased, ManifestRead
<1>5. \A t \in Tasks : WarmTask(t)
  BY DEF Init, WarmTask
<1> QED BY <1>1, <1>3, <1>4, <1>5 DEF IInv

(* ensure_lease stores and returns a well-formed lease. *)
LEMMA NewLeaseType ==
  ASSUME TypeOK, NEW t \in Tasks
  PROVE  NewLease(t) \in Lease /\ NewLease(t) # None /\ NewLease(t).writer = WriterOf[t]
<1>1. WriterOf[t] \in Writers /\ clock[t] + LeaseSecs \in Nat
  BY ReplicatorAssumption DEF TypeOK
<1>2. (IF seenLease[t] = None THEN 1 ELSE seenLease[t].epoch) \in Nat \ {0}
  BY DEF TypeOK, Lease
<1>3. NewLease(t) \in Lease
  BY <1>1, <1>2 DEF NewLease, Lease
<1> QED BY <1>3, ReplicatorAssumption DEF NewLease

(* Every step of a call preserves the invariant. *)
LEMMA StepIInv ==
  ASSUME IInv, NEW t \in Tasks, Step(t)
  PROVE  IInv'
<1> USE DEF Running, Finished
<1>0. /\ TypeOK /\ ManifestContiguous
      /\ \A u \in Tasks : clock[u] <= now /\ LeaseRead(u) /\ Leased(u) /\ ManifestRead(u)
      /\ Warm => lease # None /\ manifest # None /\ \A u \in Tasks : WarmTask(u)
  BY DEF IInv
<1>1. CASE ReadLease(t)
  <2> USE <1>1 DEF ReadLease, Goto, store
  <2>1. TypeOK'
    BY <1>0 DEF TypeOK
  <2>2. LeaseRead(t)'
    BY <1>0, ReplicatorAssumption DEF LeaseRead, HeldByOther, TypeOK, Lease
  <2>3. \A u \in Tasks : clock'[u] <= now' /\ LeaseRead(u)' /\ Leased(u)' /\ ManifestRead(u)'
    BY <1>0, <2>2 DEF LeaseRead, Leased, ManifestRead, TypeOK
  <2>4. Warm => \A u \in Tasks : WarmTask(u)'
    BY <1>0 DEF WarmTask, TypeOK
  <2> QED BY <1>0, <2>1, <2>3, <2>4 DEF IInv, ManifestContiguous
<1>2. CASE RenewLease(t) \/ CreateLease(t)
  <2>0. /\ UNCHANGED <<now, manifest, wal, call, seenManifest, evicted>>
        /\ pc[t] \in {"renew", "create"}
        /\ \/ Granted(t)
           \/ Goto(t, "lease_conflict") /\ UNCHANGED <<lease, grant, seenLease, clock>>
    BY <1>2 DEF RenewLease, CreateLease
  <2>1. CASE Granted(t)
    <3> USE <2>0, <2>1 DEF Granted, Answered, Goto
    <3>1. TypeOK'
      BY <1>0, NewLeaseType DEF TypeOK
    <3>2. \A u \in Tasks : clock'[u] <= now' /\ LeaseRead(u)' /\ Leased(u)' /\ ManifestRead(u)'
      BY <1>0, NewLeaseType DEF LeaseRead, Leased, ManifestRead, TypeOK
    <3>3. Warm => lease' # None /\ \A u \in Tasks : WarmTask(u)'
      BY <1>0, NewLeaseType DEF WarmTask, TypeOK
    <3> QED BY <1>0, <3>1, <3>2, <3>3 DEF IInv, ManifestContiguous
  <2>2. CASE Goto(t, "lease_conflict") /\ UNCHANGED <<lease, grant, seenLease, clock>>
    <3> USE <2>0, <2>2 DEF Goto
    <3>1. TypeOK'
      BY <1>0 DEF TypeOK
    <3>2. \A u \in Tasks : clock'[u] <= now' /\ LeaseRead(u)' /\ Leased(u)' /\ ManifestRead(u)'
      BY <1>0 DEF LeaseRead, Leased, ManifestRead, TypeOK
    <3>3. Warm => lease' # None /\ \A u \in Tasks : WarmTask(u)'
      BY <1>0 DEF WarmTask, TypeOK
    <3> QED BY <1>0, <3>1, <3>2, <3>3 DEF IInv, ManifestContiguous
  <2> QED BY <2>0, <2>1, <2>2
<1>3. CASE LoadManifest(t)
  <2> USE <1>3 DEF LoadManifest, Goto, store
  <2>1. AfterLoad(t) \in {"ok", "segment", "commit"}
    BY DEF AfterLoad
  <2>2. TypeOK'
    BY <1>0, <2>1 DEF TypeOK
  <2>3. ManifestRead(t)'
    <3>1. call[t] \in Call
      BY <1>0 DEF TypeOK
    <3>2. AfterLoad(t) = "segment" => call[t].op = "append"
      BY DEF AfterLoad
    <3>3. AfterLoad(t) = "commit" /\ call[t].op = "compact" =>
            manifest # None /\ Len(manifest.segments) > call[t].retain
      <4>1. SUFFICES ASSUME ~NothingToDo(t), call[t].op = "compact"
                     PROVE  manifest # None /\ Len(manifest.segments) > call[t].retain
        BY DEF AfterLoad
      <4>2. call[t].retain \in Nat
        BY <3>1, <4>1, CallTypes
      <4>3. CASE manifest = None
        BY <4>1, <4>2, <4>3 DEF NothingToDo
      <4>4. CASE manifest # None
        <5>1. Len(manifest.segments) \in Nat
          BY <1>0, <4>4, LenProperties DEF TypeOK, Manifest
        <5> QED BY <4>1, <4>2, <4>4, <5>1 DEF NothingToDo
      <4> QED BY <4>3, <4>4
    <3> QED BY <1>0, <3>2, <3>3 DEF ManifestRead, ManifestContiguous, TypeOK, Contiguous, Base
  <2>4. \A u \in Tasks : clock'[u] <= now' /\ LeaseRead(u)' /\ Leased(u)' /\ ManifestRead(u)'
    BY <1>0, <2>1, <2>3 DEF LeaseRead, Leased, ManifestRead, TypeOK
  <2>5. Warm => \A u \in Tasks : WarmTask(u)'
    BY <1>0, <2>1 DEF WarmTask, TypeOK
  <2> QED BY <1>0, <2>2, <2>4, <2>5 DEF IInv, ManifestContiguous
<1>4. CASE PutSegment(t)
  <2> USE <1>4 DEF PutSegment, Answered, Goto, locals
  <2>1. TypeOK'
    <3>1. NewSegment(t).sum \in Batches
      BY <1>0, NewSegmentType DEF Leased, ManifestRead, Segment
    <3>2. \A k \in DOMAIN wal' : wal'[k] \in Batches
      BY <1>0, <3>1 DEF TypeOK
    <3> QED BY <1>0, <3>2 DEF TypeOK
  <2>2. \A u \in Tasks : clock'[u] <= now' /\ LeaseRead(u)' /\ Leased(u)' /\ ManifestRead(u)'
    BY <1>0 DEF LeaseRead, Leased, ManifestRead, TypeOK
  <2>3. Warm => \A u \in Tasks : WarmTask(u)'
    BY <1>0 DEF WarmTask, TypeOK
  <2> QED BY <1>0, <2>1, <2>2, <2>3 DEF IInv, ManifestContiguous
<1>5. CASE PutManifest(t)
  <2> USE <1>5 DEF PutManifest, Answered, Goto
  <2>1. NextManifest(t) \in Manifest /\ Contiguous(NextManifest(t))
    BY <1>0, NextManifestSound DEF Leased
  <2>2. call[t].op = "upsert" => EvictedBy(Loaded(t), call[t].snapshot, now) \subseteq SnapshotId
    <3>1. call[t] \in Call
      BY <1>0 DEF TypeOK
    <3>2. Loaded(t) \in Manifest /\ WriterOf[t] \in Writers
      BY <1>0, LoadedSound DEF Leased
    <3> QED BY <3>1, <3>2, CallTypes, WithSnapshotType
  <2>3. ManifestContiguous' /\ (Warm => manifest' # None)
    <3>1. CASE manifest' = NextManifest(t)
      BY <2>1, <3>1, ManifestAssumption DEF ManifestContiguous, Contiguous, Base
    <3>2. CASE UNCHANGED manifest
      BY <1>0, <3>2 DEF ManifestContiguous, Contiguous, Base
    <3> QED BY <3>1, <3>2
  <2>4. TypeOK'
    BY <1>0, <2>1, <2>2 DEF TypeOK
  <2>5. \A u \in Tasks : clock'[u] <= now' /\ LeaseRead(u)' /\ Leased(u)' /\ ManifestRead(u)'
    BY <1>0 DEF LeaseRead, Leased, ManifestRead, TypeOK
  <2>6. Warm => \A u \in Tasks : WarmTask(u)'
    BY <1>0 DEF WarmTask, TypeOK
  <2> QED BY <1>0, <2>3, <2>4, <2>5, <2>6 DEF IInv
<1>6. CASE StoreError(t)
  <2> USE <1>6 DEF StoreError, Goto, store, locals
  <2>1. TypeOK'
    BY <1>0 DEF TypeOK
  <2>2. \A u \in Tasks : clock'[u] <= now' /\ LeaseRead(u)' /\ Leased(u)' /\ ManifestRead(u)'
    BY <1>0 DEF LeaseRead, Leased, ManifestRead, TypeOK
  <2>3. Warm => \A u \in Tasks : WarmTask(u)'
    BY <1>0 DEF WarmTask, TypeOK
  <2> QED BY <1>0, <2>1, <2>2, <2>3 DEF IInv, ManifestContiguous
<1> QED BY <1>1, <1>2, <1>3, <1>4, <1>5, <1>6 DEF Step

(* Forgetting the locals of finished or killed calls preserves the invariant. *)
LEMMA ForgetIInv ==
  ASSUME IInv, NEW T, Forget(T)
  PROVE  IInv'
<1> USE DEF Forget, store
<1>0. /\ TypeOK /\ ManifestContiguous
      /\ \A u \in Tasks : clock[u] <= now /\ LeaseRead(u) /\ Leased(u) /\ ManifestRead(u)
      /\ Warm => lease # None /\ manifest # None /\ \A u \in Tasks : WarmTask(u)
  BY DEF IInv
<1>1. [op |-> "sync"] \in Call
  BY DEF Call, SyncCall
<1>2. TypeOK'
  BY <1>0, <1>1 DEF TypeOK
<1>3. \A u \in Tasks : clock'[u] <= now' /\ LeaseRead(u)' /\ Leased(u)' /\ ManifestRead(u)'
  <2> SUFFICES ASSUME NEW u \in Tasks
               PROVE  clock'[u] <= now' /\ LeaseRead(u)' /\ Leased(u)' /\ ManifestRead(u)'
    OBVIOUS
  <2>1. CASE u \in T
    BY <1>0, <2>1 DEF LeaseRead, Leased, ManifestRead, TypeOK
  <2>2. CASE u \notin T
    BY <1>0, <2>2 DEF LeaseRead, Leased, ManifestRead
  <2> QED BY <2>1, <2>2
<1>4. Warm => \A u \in Tasks : WarmTask(u)'
  BY <1>0 DEF WarmTask
<1> QED BY <1>0, <1>2, <1>3, <1>4 DEF IInv, ManifestContiguous

(* Every step preserves the invariant. *)
LEMMA NextIInv == IInv /\ [Next]_vars => IInv'
<1> SUFFICES ASSUME IInv, [Next]_vars PROVE IInv'
  OBVIOUS
<1>0. /\ TypeOK /\ ManifestContiguous
      /\ \A u \in Tasks : clock[u] <= now /\ LeaseRead(u) /\ Leased(u) /\ ManifestRead(u)
      /\ Warm => lease # None /\ manifest # None /\ \A u \in Tasks : WarmTask(u)
  BY DEF IInv
<1>1. ASSUME NEW t \in Tasks, NEW c \in Calls, Begin(t, c)
      PROVE  IInv'
  <2> USE <1>1 DEF Begin, Goto, store
  <2>1. c \in Call
    <3>1. Applied \in Nat /\ now \in Nat
      BY <1>0 DEF TypeOK, Applied, Manifest
    <3>2. [id |-> <<now, Applied>>, at |-> now, seq |-> Applied] \in Snapshot
      BY <3>1 DEF Snapshot, SnapshotId
    <3>3. Appends \subseteq AppendCall
      BY DEF Appends, AppendCall
    <3>4. Upserts \subseteq UpsertCall
      BY <3>2 DEF Upserts, UpsertCall
    <3>5. Compactions \subseteq CompactCall
      BY ReplicatorAssumption DEF Compactions, CompactCall
    <3>6. [op |-> "sync"] \in SyncCall
      BY DEF SyncCall
    <3>7. c \in Appends \cup Upserts \cup Compactions \cup {[op |-> "sync"]}
      BY DEF Calls
    <3> QED BY <3>3, <3>4, <3>5, <3>6, <3>7 DEF Call
  <2>2. TypeOK'
    BY <1>0, <2>1 DEF TypeOK, Running
  <2>3. \A u \in Tasks : clock'[u] <= now' /\ LeaseRead(u)' /\ Leased(u)' /\ ManifestRead(u)'
    BY <1>0 DEF LeaseRead, Leased, ManifestRead, TypeOK
  <2>4. Warm => \A u \in Tasks : WarmTask(u)'
    BY <1>0 DEF WarmTask, TypeOK
  <2> QED BY <1>0, <2>2, <2>3, <2>4 DEF IInv, ManifestContiguous
<1>2. ASSUME NEW t \in Tasks, Step(t) PROVE IInv'
  BY <1>2, StepIInv
<1>3. ASSUME NEW t \in Tasks, Return(t) PROVE IInv'
  BY <1>3, ForgetIInv DEF Return
<1>4. ASSUME NEW w \in Writers, Crash(w) PROVE IInv'
  BY <1>4, ForgetIInv DEF Crash
<1>5. CASE Tick
  <2> USE <1>5 DEF Tick, store, locals
  <2>1. TypeOK'
    BY <1>0 DEF TypeOK
  <2>2. \A u \in Tasks : clock'[u] <= now' /\ LeaseRead(u)' /\ Leased(u)' /\ ManifestRead(u)'
    BY <1>0 DEF LeaseRead, Leased, ManifestRead, TypeOK
  <2>3. Warm => \A u \in Tasks : WarmTask(u)'
    BY <1>0 DEF WarmTask
  <2> QED BY <1>0, <2>1, <2>2, <2>3 DEF IInv, ManifestContiguous
<1>6. CASE UNCHANGED vars
  BY <1>0, <1>6 DEF vars, store, locals, IInv, TypeOK, ManifestContiguous, Contiguous,
     LeaseRead, Leased, ManifestRead, WarmTask, Base
<1> QED BY <1>1, <1>2, <1>3, <1>4, <1>5, <1>6 DEF Next

(* IInv holds throughout. *)
THEOREM Inductive == Spec => []IInv
BY InitIInv, NextIInv, PTL DEF Spec

(* Types: the object store and the calls of every process stay well-formed    *)
(* through every interleaving, failure and crash.                             *)
THEOREM TypeCorrect == Spec => []TypeOK
<1>1. IInv => TypeOK
  BY DEF IInv
<1> QED BY <1>1, Inductive, PTL

(* No interleaving of append_segment, upsert_snapshot, compact_manifest and   *)
(* sync_once by any number of processes leaves a gap or an overlap in the     *)
(* segment list, or an applied_seq that disagrees with it.                    *)
THEOREM ManifestAlwaysContiguous == Spec => []ManifestContiguous
<1>1. IInv => ManifestContiguous
  BY DEF IInv
<1> QED BY <1>1, Inductive, PTL

(* ensure_lease, once a lease object exists: the lease only passes to another *)
(* process after it has expired.                                              *)
THEOREM LeaseHandover == Warm => (Spec => TakeoverAfterExpiry)
<1> SUFFICES ASSUME Warm PROVE Spec => TakeoverAfterExpiry
  OBVIOUS
<1>1. ASSUME IInv, [Next]_vars, lease # None, lease'.writer # lease.writer
      PROVE  lease.until <= now
  <2>1. PICK t \in Tasks : Granted(t) /\ pc[t] \in {"renew", "create"}
                           /\ (pc[t] = "renew" => lease = seenLease[t])
    BY <1>1 DEF Next, vars, store, locals, Begin, Step, ReadLease, RenewLease, CreateLease,
       LoadManifest, PutSegment, PutManifest, StoreError, Return, Crash, Forget, Tick,
       LeaseUnchanged
  <2>2. TypeOK /\ LeaseRead(t) /\ WarmTask(t) /\ clock[t] <= now
    BY <1>1 DEF IInv
  <2>3. lease' = NewLease(t) /\ NewLease(t).writer = WriterOf[t]
    BY <2>1, <2>2, NewLeaseType DEF Granted
  <2>4. lease = seenLease[t] /\ lease.until <= clock[t]
    BY <1>1, <2>1, <2>2, <2>3 DEF WarmTask, LeaseRead
  <2>5. lease.until \in Nat /\ clock[t] \in Nat /\ now \in Nat
    BY <1>1, <2>2 DEF TypeOK, Lease
  <2> QED BY <2>2, <2>4, <2>5
<1>2. IInv /\ [Next]_vars =>
        [lease # None /\ lease'.writer # lease.writer => lease.until <= now]_vars
  BY <1>1
<1> QED BY <1>2, Inductive, PTL DEF Spec, TakeoverAfterExpiry

------------------------------------------------------------------------------
(* The manifest implements the abstract log. *)

(* The last sequence number of the log is applied_seq. *)
LEMMA LastSeqApplied ==
  ASSUME manifest \in Manifest, manifest # None, Contiguous(manifest)
  PROVE  Log!LastSeq = manifest.applied
<1> DEFINE segs == manifest.segments
<1>1. segs \in Seq(Segment) /\ Segments(manifest) = segs
  BY DEF Manifest, Segments
<1>2. Entries(segs) \in Seq(Entry) /\ Len(Entries(segs)) = Len(segs) /\ Len(segs) \in Nat
  BY <1>1, EntriesType, LenProperties
<1>3. CASE segs = <<>>
  <2>1. Entries(segs) = <<>>
    BY <1>2, <1>3
  <2> QED BY <1>1, <1>3, <2>1 DEF Log!LastSeq, Contiguous
<1>4. CASE segs # <<>>
  <2>1. Len(segs) \in 1..Len(segs) /\ Entries(segs) # <<>>
    BY <1>1, <1>2, <1>4
  <2>2. Entries(segs)[Len(segs)].last = segs[Len(segs)].last
    <3> HIDE DEF segs
    <3>1. Entries(segs)[Len(segs)] =
            [first |-> segs[Len(segs)].first, last |-> segs[Len(segs)].last,
             sum |-> segs[Len(segs)].sum]
      BY <1>1, <2>1, EntriesType
    <3> QED BY <3>1
  <2> QED BY <1>1, <1>2, <1>4, <2>1, <2>2 DEF Log!LastSeq, Contiguous
<1> QED BY <1>3, <1>4

(* A manifest the store holds changes only by write_manifest, from itself. *)
LEMMA ManifestChange ==
  ASSUME IInv, Warm, [Next]_vars, manifest' # manifest
  PROVE  \E t \in Tasks :
           /\ pc[t] = "commit" /\ Loaded(t) = manifest /\ manifest' = NextManifest(t)
           /\ grant[t] # None /\ ManifestRead(t)
<1>1. PICK t \in Tasks : PutManifest(t) /\ EtagMatches(t) /\ manifest' = NextManifest(t)
  BY DEF Next, vars, store, locals, Begin, Step, ReadLease, RenewLease, CreateLease,
     LoadManifest, PutSegment, PutManifest, StoreError, Return, Crash, Forget, Tick, Granted
<1>2. pc[t] = "commit" /\ WarmTask(t) /\ Leased(t) /\ ManifestRead(t)
  BY <1>1 DEF PutManifest, IInv
<1>3. Loaded(t) = manifest
  BY <1>1, <1>2 DEF EtagMatches, WarmTask, Loaded
<1> QED BY <1>1, <1>2, <1>3 DEF Leased

(* Every step of the replicator is a step of the log or leaves it alone. *)
LEMMA StepImplements ==
  ASSUME IInv, IInv', Warm, [Next]_vars
  PROVE  [Log!Next]_(Log!logVars)
<1>0. /\ manifest # None /\ manifest \in Manifest /\ Contiguous(manifest)
      /\ manifest' # None
  BY DEF IInv, TypeOK, ManifestContiguous
<1> DEFINE segs == manifest.segments
<1>1. segs \in Seq(Segment) /\ Segments(manifest) = segs
  BY <1>0 DEF Manifest, Segments
<1>2. CASE manifest' = manifest
  BY <1>2 DEF Log!logVars, Base, Segments, Entries
<1>3. CASE manifest' # manifest
  <2>1. PICK t \in Tasks :
          /\ pc[t] = "commit" /\ Loaded(t) = manifest /\ manifest' = NextManifest(t)
          /\ grant[t] # None /\ ManifestRead(t)
    BY <1>3, ManifestChange
  <2>2. TypeOK /\ call[t] \in Call /\ WriterOf[t] \in Writers
    BY ReplicatorAssumption DEF IInv, TypeOK
  <2>3. CASE call[t].op = "append"
    <3> DEFINE s == NewSegment(t)
    <3>1. /\ s \in Segment /\ s.first = manifest.applied + 1
          /\ s.last = manifest.applied + Len(s.sum)
      BY <2>1, <2>2, <2>3, NewSegmentType
    <3>2. s.sum = call[t].batch /\ call[t].batch \in Batches
      BY <2>2, <2>3, CallTypes DEF NewSegment
    <3> HIDE DEF s
    <3>3. manifest' = WithSegment(manifest, s, WriterOf[t])
      BY <2>1, <2>3 DEF NextManifest, s
    <3>4. Base(manifest') = Base(manifest)
      BY <1>0, <2>2, <3>1, <3>3, WithSegmentSound
    <3>5. Segments(manifest') = Append(segs, s)
      BY <1>0, <1>1, <3>3 DEF WithSegment, Segments, Manifest
    <3>6. Entries(Segments(manifest')) =
            Append(Entries(segs), [first |-> s.first, last |-> s.last, sum |-> s.sum])
      BY <1>1, <3>1, <3>5, EntriesAppend
    <3>7. Log!LastSeq = manifest.applied
      BY <1>0, LastSeqApplied
    <3>8. Entries(Segments(manifest))' = Entries(Segments(manifest'))
      BY DEF Entries, Segments
    <3>9. (Base(manifest))' = Base(manifest')
      BY DEF Base
    <3>10. Log!Append1(s.sum)
      BY <1>0, <1>1, <3>1, <3>4, <3>6, <3>7, <3>8, <3>9 DEF Log!Append1
    <3> QED BY <3>2, <3>10 DEF Log!Next
  <2>4. CASE call[t].op = "upsert"
    <3>1. manifest' = WithSnapshot(manifest, call[t].snapshot, WriterOf[t], now)
      BY <2>1, <2>4 DEF NextManifest
    <3>2. call[t].snapshot \in Snapshot
      BY <2>2, <2>4, CallTypes
    <3>3. manifest'.segments = manifest.segments /\ manifest'.watermark = manifest.watermark
      BY <1>0, <2>2, <3>1, <3>2, WithSnapshotType
    <3> QED BY <1>0, <3>3 DEF Log!logVars, Base, Segments, Entries
  <2>5. CASE call[t].op = "compact"
    <3> DEFINE r == call[t].retain
               k == Len(segs) - r
    <3>1. r \in Nat /\ Len(segs) > r
      BY <2>1, <2>2, <2>5, CallTypes DEF ManifestRead, Loaded
    <3> HIDE DEF r
    <3>2. manifest' = Compacted(manifest, r, WriterOf[t])
      BY <2>1, <2>5 DEF NextManifest, r
    <3>3. k \in DOMAIN segs /\ manifest' \in Manifest
      BY <1>0, <2>2, <3>1, <3>2, CompactedSound
    <3>4. /\ Segments(manifest') = SubSeq(segs, k + 1, Len(segs))
          /\ manifest'.watermark = segs[k].last
      BY <1>0, <1>1, <3>2 DEF Compacted, Segments, Manifest
    <3> HIDE DEF k, segs
    <3>5. k \in 1..Len(segs)
      BY <1>1, <3>3
    <3>6. /\ Entries(segs) \in Seq(Entry) /\ k \in DOMAIN Entries(segs)
          /\ Entries(segs)[k].last = segs[k].last
      <4>1. /\ Entries(segs) \in Seq(Entry) /\ Len(Entries(segs)) = Len(segs)
            /\ Entries(segs)[k] = [first |-> segs[k].first, last |-> segs[k].last,
                                   sum |-> segs[k].sum]
        BY <1>1, <3>5, EntriesType
      <4> QED BY <3>5, <4>1
    <3>7. segs[k].last \in Nat /\ segs[k].last # None
      <4>1. segs[k] \in Segment
        BY <1>1, <3>5, ElementOfSeq
      <4> QED BY <4>1, ManifestAssumption DEF Segment
    <3>8. Base(manifest') = segs[k].last
      BY <3>4, <3>7 DEF Base
    <3>9. Entries(Segments(manifest')) = SubSeq(Entries(segs), k + 1, Len(Entries(segs)))
      BY <1>1, <3>4, <3>5, EntriesSubSeq
    <3>10. Entries(Segments(manifest))' = Entries(Segments(manifest'))
      BY DEF Entries, Segments
    <3>11. (Base(manifest))' = Base(manifest')
      BY DEF Base
    <3>12. Log!Trim(k)
      BY <1>0, <1>1, <3>6, <3>8, <3>9, <3>10, <3>11 DEF Log!Trim
    <3> QED BY <1>1, <3>6, <3>12 DEF Log!Next
  <2>6. CASE call[t].op = "sync"
    BY <1>3, <2>1, <2>6 DEF NextManifest
  <2> QED BY <2>2, <2>3, <2>4, <2>5, <2>6, CallTypes
<1> QED BY <1>2, <1>3

(* Once a database exists, racing appends, catalog updates and compactions of *)
(* any number of processes behave as one log that grows by whole batches.     *)
THEOREM ReplicatorImplementsLog == Warm => (Spec => ImplementsLog)
<1> SUFFICES ASSUME Warm PROVE Spec => ImplementsLog
  OBVIOUS
<1>1. Init => Log!Init
  <2> SUFFICES ASSUME Init PROVE Log!Init
    OBVIOUS
  <2>1. PICK w \in Writers : manifest = DefaultManifest(w, 1)
    BY DEF Init
  <2>2. DefaultManifest(w, 1) # None
    BY DefaultSound, ManifestAssumption
  <2> QED BY <2>1, <2>2 DEF Log!Init, DefaultManifest, Base, Segments, Entries
<1>2. IInv /\ IInv' /\ [Next]_vars => [Log!Next]_(Log!logVars)
  BY StepImplements
<1> QED BY <1>1, <1>2, Inductive, PTL DEF Spec, ImplementsLog, Log!Spec

------------------------------------------------------------------------------
(* What the manifest refers to: segment objects, snapshots, acknowledged      *)
(* appends.  Each proof adds to IInv what the tasks hold in their locals.     *)

(* How a step changes what the invariants below are about: a call keeps what   *)
(* it loaded while it writes, first its segment, then the manifest.           *)
LoadsEffect(u) ==
  \/ /\ UNCHANGED <<seenManifest[u], grant[u], call[u]>>
     /\ pc'[u] = "commit" /\ call[u].op = "append" =>
          pc[u] = "commit" \/ SegmentKey(NewSegment(u)) \in DOMAIN wal'
     /\ pc'[u] = "ok" /\ call[u].op = "append" =>
          pc[u] = "ok" \/ (pc[u] = "commit" /\ manifest' = NextManifest(u))
  \/ seenManifest'[u] = None /\ pc'[u] = "idle"
  \/ UNCHANGED seenManifest[u] /\ pc'[u] \notin {"commit", "ok"}
  \/ seenManifest'[u] = manifest /\ UNCHANGED <<grant[u], call[u], manifest, wal>>
     /\ (pc'[u] \in {"commit", "ok"} => call[u].op # "append")

LEMMA StepEffect ==
  ASSUME TypeOK, [Next]_vars
  PROVE  /\ DOMAIN wal \subseteq DOMAIN wal'
         /\ \/ manifest' = manifest
            \/ \E t \in Tasks : pc[t] = "commit" /\ manifest' = NextManifest(t)
         /\ \A u \in Tasks : LoadsEffect(u)
<1> DEFINE Effect == /\ DOMAIN wal \subseteq DOMAIN wal'
                     /\ \/ manifest' = manifest
                        \/ \E t \in Tasks : pc[t] = "commit" /\ manifest' = NextManifest(t)
                     /\ \A u \in Tasks : LoadsEffect(u)
<1> USE DEF LoadsEffect, Goto, store, locals
<1>1. ASSUME NEW t \in Tasks, NEW c \in Calls, Begin(t, c) PROVE Effect
  BY <1>1 DEF Begin, TypeOK
<1>2. ASSUME NEW t \in Tasks, ReadLease(t) PROVE Effect
  BY <1>2 DEF ReadLease, HeldByOther, TypeOK
<1>3. ASSUME NEW t \in Tasks, RenewLease(t) \/ CreateLease(t) PROVE Effect
  BY <1>3 DEF RenewLease, CreateLease, Granted, Answered, TypeOK
<1>4. ASSUME NEW t \in Tasks, LoadManifest(t) PROVE Effect
  <2>1. AfterLoad(t) \in {"commit", "ok"} => call[t].op # "append"
    BY DEF AfterLoad, NothingToDo
  <2> QED BY <1>4, <2>1 DEF LoadManifest, TypeOK
<1>5. ASSUME NEW t \in Tasks, PutSegment(t) PROVE Effect
  BY <1>5 DEF PutSegment, Answered, TypeOK
<1>6. ASSUME NEW t \in Tasks, PutManifest(t) PROVE Effect
  BY <1>6 DEF PutManifest, Answered, TypeOK
<1>7. ASSUME NEW t \in Tasks, StoreError(t) PROVE Effect
  BY <1>7 DEF StoreError, TypeOK
<1>8. ASSUME NEW T, Forget(T) PROVE Effect
  BY <1>8 DEF Forget
<1>9. CASE Tick
  BY <1>9 DEF Tick
<1>10. CASE UNCHANGED vars
  BY <1>10 DEF vars
<1> QED BY <1>1, <1>2, <1>3, <1>4, <1>5, <1>6, <1>7, <1>8, <1>9, <1>10
        DEF Next, Step, Return, Crash

(* Every segment of a manifest has its object under one of the keys. *)
Stored(m, keys) == \A i \in DOMAIN m.segments : SegmentKey(m.segments[i]) \in keys

(* What a call stores refers to objects its manifest referred to, and to the  *)
(* segment it put.                                                            *)
LEMMA NextManifestStored ==
  ASSUME TypeOK, NEW t \in Tasks, grant[t] # None, ManifestRead(t), pc[t] = "commit",
         NEW keys, seenManifest[t] # None => Stored(seenManifest[t], keys),
         call[t].op = "append" => SegmentKey(NewSegment(t)) \in keys
  PROVE  Stored(NextManifest(t), keys)
<1>1. Loaded(t) \in Manifest /\ WriterOf[t] \in Writers /\ call[t] \in Call
  BY LoadedSound DEF TypeOK
<1>2. Stored(Loaded(t), keys)
  BY DEF Loaded, DefaultManifest, Stored
<1> DEFINE segs == Loaded(t).segments
<1>3. segs \in Seq(Segment)
  BY <1>1 DEF Manifest
<1>4. CASE call[t].op = "append"
  <2>1. NextManifest(t).segments = Append(segs, NewSegment(t)) /\ NewSegment(t) \in Segment
    BY <1>1, <1>4, NewSegmentType DEF NextManifest, WithSegment, Manifest
  <2> DEFINE s == NewSegment(t)
             new == Append(segs, s)
             n == Len(segs)
  <2> HIDE DEF s, segs
  <2>2. /\ n \in Nat /\ DOMAIN new = 1..(n + 1) /\ DOMAIN segs = 1..n
        /\ new[n + 1] = s /\ \A i \in 1..n : new[i] = segs[i]
    BY <1>3, <2>1, AppendProperties, LenProperties DEF s
  <2>3. SegmentKey(s) \in keys /\ \A i \in 1..n : SegmentKey(segs[i]) \in keys
    BY <1>2, <1>4, <2>2 DEF Stored, s, segs
  <2> HIDE DEF new, n
  <2>4. \A i \in DOMAIN new : new[i] = s \/ \E j \in 1..n : new[i] = segs[j]
    BY <2>2
  <2>5. \A i \in DOMAIN new : SegmentKey(new[i]) \in keys
    BY <2>3, <2>4
  <2> QED BY <2>1, <2>5 DEF Stored, new, s
<1>5. CASE call[t].op = "upsert"
  <2>1. NextManifest(t) = WithSnapshot(Loaded(t), call[t].snapshot, WriterOf[t], now)
    BY <1>5 DEF NextManifest
  <2>2. call[t].snapshot \in Snapshot
    BY <1>1, <1>5, CallTypes
  <2>3. NextManifest(t).segments = segs
    BY <1>1, <2>1, <2>2, WithSnapshotType
  <2> QED BY <1>2, <2>3 DEF Stored
<1>6. CASE call[t].op = "compact"
  <2> DEFINE m == Loaded(t)
             m2 == NextManifest(t)
             r == call[t].retain
             k == Len(m.segments) - r
  <2>1. m2 = Compacted(m, r, WriterOf[t])
    BY <1>6 DEF NextManifest
  <2>2. r \in Nat /\ Len(m.segments) > r
    BY <1>1, <1>6, CallTypes DEF Loaded, ManifestRead
  <2> HIDE DEF m, m2, r
  <2>3. m \in Manifest /\ Stored(m, keys)
    BY <1>1, <1>2 DEF m
  <2>4. /\ m2 \in Manifest /\ k \in 1..Len(m.segments) /\ k + r = Len(m.segments)
        /\ Len(m2.segments) = r
        /\ \A i \in 1..r : m2.segments[i] = m.segments[k + i]
        /\ Base(m2) = m.segments[k].last /\ m2.applied = m.applied
    <3>1. m \in Manifest /\ k + r = Len(m.segments) /\ WriterOf[t] \in Writers
      BY <1>1, <2>2, <2>3, LenProperties DEF Manifest
    <3> QED BY <2>1, <2>2, <3>1, CompactedSegments
  <2>5. DOMAIN m2.segments = 1..r /\ Len(m.segments) \in Nat
        /\ DOMAIN m.segments = 1..Len(m.segments)
    BY <2>3, <2>4, LenProperties DEF Manifest
  <2> HIDE DEF k
  <2>6. \A i \in 1..r : k + i \in 1..Len(m.segments)
    <3> DEFINE n == Len(m.segments)
    <3>1. n \in Nat /\ k \in 1..n /\ k + r = n /\ r \in Nat
      BY <2>2, <2>4, <2>5
    <3> HIDE DEF n
    <3>2. \A i \in 1..r : k + i \in 1..n
      BY <3>1
    <3> QED BY <3>2 DEF n
  <2>7. \A i \in DOMAIN m2.segments : SegmentKey(m2.segments[i]) \in keys
    BY <2>3, <2>4, <2>5, <2>6 DEF Stored
  <2> QED BY <2>7 DEF Stored, m2
<1>7. CASE call[t].op = "sync"
  BY <1>2, <1>7 DEF NextManifest
<1> QED BY <1>1, <1>4, <1>5, <1>6, <1>7, CallTypes

(* So does every manifest a task holds. *)
SegmentsStored ==
  /\ manifest # None => Stored(manifest, DOMAIN wal)
  /\ \A t \in Tasks :
       /\ seenManifest[t] # None => Stored(seenManifest[t], DOMAIN wal)
       /\ pc[t] = "commit" /\ call[t].op = "append" =>
            SegmentKey(NewSegment(t)) \in DOMAIN wal

LEMMA NextSegmentsStored ==
  ASSUME IInv, SegmentsStored, [Next]_vars
  PROVE  SegmentsStored'
<1> DEFINE keys == DOMAIN wal
           later == DOMAIN wal'
<1>0. TypeOK /\ \A t \in Tasks : Leased(t) /\ ManifestRead(t)
  BY DEF IInv
<1>1. /\ keys \subseteq later
      /\ manifest' = manifest \/ \E t \in Tasks : pc[t] = "commit" /\ manifest' = NextManifest(t)
      /\ \A u \in Tasks : LoadsEffect(u)
  BY <1>0, StepEffect
<1>2. \A m : Stored(m, keys) => Stored(m, later)
  BY <1>1 DEF Stored
<1>3. manifest' # None => Stored(manifest', later)
  <2>1. CASE manifest' = manifest
    BY <1>2, <2>1 DEF SegmentsStored
  <2>2. ASSUME NEW t \in Tasks, pc[t] = "commit", manifest' = NextManifest(t)
        PROVE  Stored(manifest', later)
    <3>1. Stored(NextManifest(t), keys)
      BY <1>0, <2>2, NextManifestStored DEF SegmentsStored, Leased
    <3> QED BY <1>2, <2>2, <3>1
  <2> QED BY <1>1, <2>1, <2>2
<1>4. ASSUME NEW u \in Tasks
      PROVE  /\ seenManifest'[u] # None => Stored(seenManifest'[u], later)
             /\ pc'[u] = "commit" /\ call'[u].op = "append" => SegmentKey(NewSegment(u))' \in later
  <2>1. LoadsEffect(u)
    BY <1>1
  <2>2. UNCHANGED <<seenManifest[u], grant[u], call[u]>> =>
          SegmentKey(NewSegment(u))' = SegmentKey(NewSegment(u))
    BY DEF NewSegment, Loaded, SegmentKey
  <2> HIDE DEF keys, later
  <2>3. seenManifest'[u] # None => Stored(seenManifest'[u], later)
    BY <1>2, <2>1 DEF SegmentsStored, LoadsEffect, keys
  <2>4. pc'[u] = "commit" /\ call'[u].op = "append" => SegmentKey(NewSegment(u))' \in later
    BY <1>1, <2>1, <2>2 DEF SegmentsStored, LoadsEffect, keys, later
  <2> QED BY <2>3, <2>4
<1> QED BY <1>3, <1>4 DEF SegmentsStored, Stored, SegmentKey

(* append_segment puts the segment object before the manifest that lists it,  *)
(* and no call removes one: whichever calls fail, crash or lose a race, each  *)
(* listed segment has its object.  This is what verify_db checks.             *)
THEOREM SegmentsAlwaysStored == Spec => []ListedSegmentsStored
<1>1. Init => SegmentsStored
  BY DefaultSound DEF Init, SegmentsStored, Stored, DefaultManifest
<1>2. IInv /\ SegmentsStored /\ [Next]_vars => SegmentsStored'
  BY NextSegmentsStored
<1>3. SegmentsStored => ListedSegmentsStored
  BY DEF SegmentsStored, ListedSegmentsStored, Stored, Segments
<1> QED BY <1>1, <1>2, <1>3, Inductive, PTL DEF Spec

(* The catalog of the manifest, and of every manifest a task loaded. *)
CatalogsSound ==
  /\ CatalogSound
  /\ \A t \in Tasks : seenManifest[t] # None => Cataloged(seenManifest[t])

(* Only upsert_snapshot touches the catalog of the manifest it loaded. *)
LEMMA NextManifestCataloged ==
  ASSUME TypeOK, NEW t \in Tasks, grant[t] # None, ManifestRead(t),
         seenManifest[t] # None => Cataloged(seenManifest[t])
  PROVE  Cataloged(NextManifest(t))
<1>1. Loaded(t) \in Manifest /\ WriterOf[t] \in Writers /\ call[t] \in Call
  BY LoadedSound DEF TypeOK
<1>2. Cataloged(Loaded(t))
  <2>1. CASE seenManifest[t] = None
    BY <1>1, <2>1, CatalogUntouched DEF Loaded
  <2>2. CASE seenManifest[t] # None
    BY <2>2 DEF Loaded
  <2> QED BY <2>1, <2>2
<1>3. CASE call[t].op = "append"
  BY <1>1, <1>2, <1>3, CatalogUntouched DEF NextManifest
<1>4. CASE call[t].op = "upsert"
  <2>1. call[t].snapshot \in Snapshot
    BY <1>1, <1>4, CallTypes
  <2>2. NextManifest(t) = WithSnapshot(Loaded(t), call[t].snapshot, WriterOf[t], now)
    BY <1>4 DEF NextManifest
  <2> QED BY <1>1, <1>2, <2>1, <2>2, WithSnapshotCataloged
<1>5. CASE call[t].op = "compact"
  BY <1>1, <1>2, <1>5, CatalogUntouched DEF NextManifest
<1>6. CASE call[t].op = "sync"
  BY <1>2, <1>6 DEF NextManifest
<1> QED BY <1>1, <1>3, <1>4, <1>5, <1>6, CallTypes

LEMMA NextCatalogsSound ==
  ASSUME IInv, CatalogsSound, [Next]_vars
  PROVE  CatalogsSound'
<1>0. TypeOK /\ \A t \in Tasks : Leased(t) /\ ManifestRead(t)
  BY DEF IInv
<1>1. /\ manifest' = manifest \/ \E t \in Tasks : pc[t] = "commit" /\ manifest' = NextManifest(t)
      /\ \A u \in Tasks : LoadsEffect(u)
  BY <1>0, StepEffect
<1>2. manifest' # None => Cataloged(manifest')
  <2>1. CASE manifest' = manifest
    BY <2>1 DEF CatalogsSound, CatalogSound
  <2>2. ASSUME NEW t \in Tasks, pc[t] = "commit", manifest' = NextManifest(t)
        PROVE  Cataloged(manifest')
    BY <1>0, <2>2, NextManifestCataloged DEF CatalogsSound, Leased
  <2> QED BY <1>1, <2>1, <2>2
<1>3. ASSUME NEW u \in Tasks PROVE seenManifest'[u] # None => Cataloged(seenManifest'[u])
  BY <1>1 DEF CatalogsSound, CatalogSound, LoadsEffect
<1> QED BY <1>2, <1>3 DEF CatalogsSound, CatalogSound, Cataloged, InCreationOrder

(* upsert_snapshot keeps the catalog sound, from whatever manifest it started: *)
(* the current snapshot is listed, ids are distinct, entries are in creation  *)
(* order and no more than snapshot_max_count of them remain.                  *)
THEOREM CatalogAlwaysSound == Spec => []CatalogSound
<1>1. Init => CatalogsSound
  <2> SUFFICES ASSUME Init PROVE CatalogsSound
    OBVIOUS
  <2>1. CASE manifest = None
    BY <2>1 DEF Init, CatalogsSound, CatalogSound
  <2>2. ASSUME NEW w \in Writers, manifest = DefaultManifest(w, 1) PROVE Cataloged(manifest)
    BY <2>2, DefaultSound, CatalogUntouched
  <2> QED BY <2>1, <2>2 DEF Init, CatalogsSound, CatalogSound
<1>2. IInv /\ CatalogsSound /\ [Next]_vars => CatalogsSound'
  BY NextCatalogsSound
<1>3. CatalogsSound => CatalogSound
  BY DEF CatalogsSound
<1> QED BY <1>1, <1>2, <1>3, Inductive, PTL DEF Spec

(* The segment of an append is in the manifest it stores. *)
LEMMA AppendListed ==
  ASSUME TypeOK, NEW t \in Tasks, grant[t] # None, ManifestRead(t), call[t].op = "append"
  PROVE  \E i \in DOMAIN NextManifest(t).segments :
           NextManifest(t).segments[i] = NewSegment(t)
<1> DEFINE segs == Loaded(t).segments
           s == NewSegment(t)
           n == Len(segs)
<1>1. segs \in Seq(Segment) /\ s \in Segment /\ n \in Nat
  BY LoadedSound, NewSegmentType, LenProperties DEF Manifest
<1>2. NextManifest(t).segments = Append(segs, s)
  BY LoadedSound DEF NextManifest, WithSegment, Manifest
<1> HIDE DEF segs, s
<1>3. /\ n + 1 \in DOMAIN Append(segs, s) /\ Append(segs, s)[n + 1] = s
  BY <1>1, AppendProperties
<1> QED BY <1>2, <1>3 DEF s

(* How the segment list may change once the manifest exists: it keeps every   *)
(* segment or passes it by.                                                   *)
LEMMA ManifestKeeps ==
  ASSUME IInv, Warm, Ascending(manifest), NEW t \in Tasks, pc[t] = "commit",
         Loaded(t) = manifest, manifest' = NextManifest(t), grant[t] # None, ManifestRead(t)
  PROVE  /\ Ascending(manifest')
         /\ Base(manifest) <= Base(manifest')
         /\ \A i \in DOMAIN manifest.segments :
              \/ \E j \in DOMAIN manifest'.segments :
                   manifest'.segments[j] = manifest.segments[i]
              \/ manifest.segments[i].last <= Base(manifest')
<1>0. /\ manifest \in Manifest /\ Contiguous(manifest) /\ TypeOK
      /\ call[t] \in Call /\ WriterOf[t] \in Writers
  BY LoadedSound DEF IInv, TypeOK
<1> DEFINE m == manifest
           m2 == NextManifest(t)
           segs == m.segments
<1>1. /\ segs \in Seq(Segment) /\ Base(m) \in Nat
  BY <1>0 DEF Manifest, Base
<1>2. CASE call[t].op = "append"
  <2> DEFINE s == NewSegment(t)
  <2>1. /\ m2 = WithSegment(m, s, WriterOf[t])
        /\ s \in Segment /\ s.first = m.applied + 1 /\ s.last = m.applied + Len(s.sum)
    BY <1>0, <1>2, NewSegmentType DEF NextManifest
  <2> HIDE DEF m2, s
  <2>2. Ascending(m2) /\ Base(m2) = Base(m) /\ m2.segments = Append(segs, s)
    BY <1>0, <2>1, WithSegmentAscends
  <2> HIDE DEF m, segs
  <2>3. /\ DOMAIN m2.segments = 1..(Len(segs) + 1) /\ DOMAIN segs = 1..Len(segs)
        /\ Len(segs) \in Nat
        /\ m2.segments[Len(segs) + 1] = s
        /\ \A i \in 1..Len(segs) : m2.segments[i] = segs[i]
    BY <1>1, <2>1, <2>2, AppendProperties, LenProperties
  <2>4. \A i \in 1..Len(segs) : i \in 1..(Len(segs) + 1)
    BY <2>3
  <2>5. Len(segs) + 1 \in 1..(Len(segs) + 1)
    BY <2>3
  <2> QED BY <1>1, <2>2, <2>3, <2>4, <2>5 DEF m, m2, s, segs
<1>3. CASE call[t].op = "upsert"
  <2>1. m2 = WithSnapshot(m, call[t].snapshot, WriterOf[t], now)
    BY <1>3 DEF NextManifest
  <2>2. call[t].snapshot \in Snapshot
    BY <1>0, <1>3, CallTypes
  <2>3. m2.segments = segs /\ m2.watermark = m.watermark
    BY <1>0, <2>1, <2>2, WithSnapshotType
  <2>4. Base(m2) = Base(m)
    BY <2>3 DEF Base
  <2> HIDE DEF m2
  <2> QED BY <1>1, <1>3, <2>3, <2>4 DEF Ascending, m2
<1>4. CASE call[t].op = "compact"
  <2> DEFINE r == call[t].retain
  <2>1. m2 = Compacted(m, r, WriterOf[t])
    BY <1>4 DEF NextManifest
  <2>2. r \in Nat /\ Len(segs) > r
    BY <1>0, <1>4, CallTypes DEF Loaded, ManifestRead
  <2> HIDE DEF m2, r
  <2>3. /\ Ascending(m2) /\ Base(m) <= Base(m2)
        /\ \A i \in DOMAIN segs :
             \/ \E j \in DOMAIN m2.segments : m2.segments[j] = segs[i]
             \/ segs[i].last <= Base(m2)
    BY <1>0, <2>1, <2>2, CompactedAscends
  <2> QED BY <1>4, <2>3 DEF m2
<1>5. CASE call[t].op = "sync"
  <2>1. m2 = m
    BY <1>5 DEF NextManifest
  <2> QED BY <1>1, <1>5, <2>1
<1> QED BY <1>0, <1>2, <1>3, <1>4, <1>5, CallTypes

(* The stored manifest is in ascending order, and what append_segment reported *)
(* is in it or was compacted away.                                            *)
AppendsKept ==
  /\ Ascending(manifest)
  /\ AckedAppendLogged
  /\ \A t \in Tasks : pc[t] = "ok" /\ call[t].op = "append" => grant[t] # None

LEMMA NextAppendsKept ==
  ASSUME IInv, IInv', Warm, AppendsKept, [Next]_vars
  PROVE  AppendsKept'
<1>0. /\ TypeOK /\ manifest # None /\ manifest' # None /\ manifest \in Manifest
      /\ manifest' \in Manifest /\ \A t \in Tasks : Leased(t) /\ ManifestRead(t)
  BY DEF IInv, TypeOK
<1>1. \A u \in Tasks : LoadsEffect(u)
  BY <1>0, StepEffect
<1>2. /\ Ascending(manifest')
      /\ Base(manifest) <= Base(manifest')
      /\ \A i \in DOMAIN manifest.segments :
           \/ \E j \in DOMAIN manifest'.segments :
                manifest'.segments[j] = manifest.segments[i]
           \/ manifest.segments[i].last <= Base(manifest')
  <2>1. CASE manifest' = manifest
    <3>1. Base(manifest) \in Nat
      BY <1>0 DEF Base, Manifest
    <3> QED BY <2>1, <3>1 DEF AppendsKept
  <2>2. CASE manifest' # manifest
    BY <2>2, ManifestChange, ManifestKeeps DEF AppendsKept
  <2> QED BY <2>1, <2>2
<1>3. Base(manifest) \in Nat /\ Base(manifest') \in Nat
  BY <1>0 DEF Base, Manifest
<1>4. ASSUME NEW u \in Tasks, pc'[u] = "ok", call'[u].op = "append"
      PROVE  /\ grant'[u] # None
             /\ \/ \E i \in DOMAIN manifest'.segments : manifest'.segments[i] = NewSegment(u)'
                \/ NewSegment(u)'.last <= Base(manifest')
  <2>1. /\ UNCHANGED <<seenManifest[u], grant[u], call[u]>>
        /\ pc[u] = "ok" \/ (pc[u] = "commit" /\ manifest' = NextManifest(u))
    BY <1>1, <1>4 DEF LoadsEffect
  <2>2. NewSegment(u)' = NewSegment(u)
    BY <2>1 DEF NewSegment, Loaded
  <2>3. CASE pc[u] = "commit" /\ manifest' = NextManifest(u)
    BY <1>0, <1>4, <2>1, <2>2, <2>3, AppendListed DEF Leased
  <2>4. CASE pc[u] = "ok"
    <3>1. grant[u] # None
      BY <1>4, <2>1, <2>4 DEF AppendsKept
    <3>2. \/ \E i \in DOMAIN manifest.segments : manifest.segments[i] = NewSegment(u)
          \/ NewSegment(u).last <= Base(manifest)
      BY <1>0, <1>4, <2>1, <2>4 DEF AppendsKept, AckedAppendLogged, Segments
    <3>3. NewSegment(u).last \in Nat
      BY <1>0, <1>4, <2>1, <3>1, NewSegmentType DEF Segment
    <3>4. CASE NewSegment(u).last <= Base(manifest)
      BY <1>2, <1>3, <2>1, <2>2, <3>1, <3>3, <3>4
    <3>5. ASSUME NEW i \in DOMAIN manifest.segments, manifest.segments[i] = NewSegment(u)
          PROVE  \/ \E j \in DOMAIN manifest'.segments : manifest'.segments[j] = NewSegment(u)
                 \/ NewSegment(u).last <= Base(manifest')
      BY <1>2, <3>5
    <3> QED BY <2>1, <2>2, <3>1, <3>2, <3>4, <3>5
  <2> QED BY <2>1, <2>3, <2>4
<1> QED BY <1>0, <1>2, <1>4 DEF AppendsKept, AckedAppendLogged, Segments, Ascending, Base

(* Once a database exists, an append that reported success is in the manifest *)
(* at the numbers it was given, or below the compaction watermark: no racing  *)
(* upsert_snapshot, compact_manifest, append or sync_once loses it.           *)
THEOREM AckedAppendsKept == Warm => (Spec => []AckedAppendLogged)
<1> SUFFICES ASSUME Warm PROVE Spec => []AckedAppendLogged
  OBVIOUS
<1>1. Init => AppendsKept
  <2> SUFFICES ASSUME Init PROVE AppendsKept
    OBVIOUS
  <2>1. PICK w \in Writers : manifest = DefaultManifest(w, 1)
    BY DEF Init
  <2> QED BY <2>1 DEF Init, AppendsKept, Ascending, AckedAppendLogged, DefaultManifest
<1>2. IInv /\ IInv' /\ AppendsKept /\ [Next]_vars => AppendsKept'
  BY NextAppendsKept
<1>3. AppendsKept => AckedAppendLogged
  BY DEF AppendsKept
<1> QED BY <1>1, <1>2, <1>3, Inductive, PTL DEF Spec

===============================================================================
