------------------------------ MODULE Replicator ------------------------------
(****************************************************************************)
(* Replicator (src/src/storage/s3_wal/replicator.rs): the writer lease, the  *)
(* manifest and the WAL segment objects of ONE database in the object store. *)
(*                                                                           *)
(* A task is one running call of a Replicator method.  Several tasks of one  *)
(* process share its writer id (the flush loop, the reaper, requests), and   *)
(* several processes share the store.  Every object-store call is one step,  *)
(* so that any two calls interleave; a call may fail without effect, take    *)
(* effect and lose its answer, or be cut off by a crash of its process.      *)
(*                                                                           *)
(* Abstractions: the tenant and key prefix are left out (one database);      *)
(* etags are content hashes, so a conditional put compares contents;         *)
(* updated_at, tenant, checksum of a snapshot and sizes are left out.        *)
(****************************************************************************)
EXTENDS Manifest

CONSTANTS
  Tasks,        \* concurrent calls
  WriterOf,     \* the process a task runs in
  Ops,          \* the calls a run explores
  Retains,      \* values of retain_segments
  LeaseSecs,    \* lease_duration_secs
  Warm,         \* the database's lease and manifest exist at the start
  MaxTime,      \* bound: the clock stops here
  MaxSeq        \* bound: no append begins beyond this sequence number

------------------------------------------------------------------------------
Lease == [writer : Writers, until : Nat, epoch : Nat \ {0}]

ASSUME ReplicatorAssumption ==
  /\ WriterOf \in [Tasks -> Writers]
  /\ Retains \subseteq Nat
  /\ LeaseSecs \in Nat
  /\ Warm \in BOOLEAN
  /\ MaxTime \in Nat /\ MaxSeq \in Nat
  /\ None \notin Lease

VARIABLES
  now,           \* unix_now_secs
  lease,         \* object lease.json
  manifest,      \* object manifest.json
  wal,           \* objects wal/<epoch>/<start>.json
  pc,            \* where each task stands
  call,          \* its arguments
  clock,         \* the time ensure_lease read
  seenLease,     \* the lease ensure_lease read
  grant,         \* the lease ensure_lease returned
  seenManifest,  \* the manifest loaded with its etag
  evicted        \* deleted_keys returned by upsert_snapshot

store == <<lease, manifest, wal>>
locals == <<call, clock, seenLease, grant, seenManifest, evicted>>
vars == <<now, store, pc, locals>>

AppendCall == [op : {"append"}, batch : Batches]
UpsertCall == [op : {"upsert"}, snapshot : Snapshot]
CompactCall == [op : {"compact"}, retain : Nat]
SyncCall == [op : {"sync"}]
Call == AppendCall \cup UpsertCall \cup CompactCall \cup SyncCall

Running == {"lease", "renew", "create", "load", "segment", "commit"}
Finished == {"ok", "lease_conflict", "failed"}

------------------------------------------------------------------------------
(* What the calls compute. *)

(* The manifest a call starts from: what it loaded, or a fresh one. *)
Loaded(t) ==
  IF seenManifest[t] = None
  THEN DefaultManifest(WriterOf[t], grant[t].epoch)
  ELSE seenManifest[t]

SegmentOverlapping(t) ==
  [first |-> Loaded(t).applied, last |-> Loaded(t).applied + Len(call[t].batch),
   epoch |-> grant[t].epoch, sum |-> call[t].batch]

NewSegment(t) ==
  [first |-> Loaded(t).applied + 1,
   last  |-> Loaded(t).applied + Len(call[t].batch),
   epoch |-> grant[t].epoch,
   sum   |-> call[t].batch]

NextManifest(t) ==
  CASE call[t].op = "append"  -> WithSegment(Loaded(t), NewSegment(t), WriterOf[t])
    [] call[t].op = "upsert"  -> WithSnapshot(Loaded(t), call[t].snapshot, WriterOf[t], now)
    [] call[t].op = "compact" -> Compacted(Loaded(t), call[t].retain, WriterOf[t])
    [] call[t].op = "sync"    -> Loaded(t)

------------------------------------------------------------------------------
(* The steps of a task. *)

Goto(t, l) == pc' = [pc EXCEPT ![t] = l]

Applied == IF manifest = None THEN 0 ELSE manifest.applied

(* The calls a caller may make now. *)
Appends ==
  {[op |-> "append", batch |-> b] : b \in {x \in Batches : Applied + Len(x) <= MaxSeq}}
Upserts ==
  {[op |-> "upsert", snapshot |-> [id |-> <<now, Applied>>, at |-> now, seq |-> Applied]]}
Compactions == {[op |-> "compact", retain |-> k] : k \in Retains}

Calls ==
  {c \in Appends \cup Upserts \cup Compactions \cup {[op |-> "sync"]} : c.op \in Ops}

(* A method is called: ensure_lease reads the clock before the lease. *)
Begin(t, c) ==
  /\ pc[t] = "idle"
  /\ call' = [call EXCEPT ![t] = c]
  /\ clock' = [clock EXCEPT ![t] = now]
  /\ Goto(t, "lease")
  /\ UNCHANGED <<now, store, seenLease, grant, seenManifest, evicted>>

HeldByOther(t) ==
  lease # None /\ lease.writer # WriterOf[t] /\ lease.until > clock[t]

ReadLease(t) ==
  /\ pc[t] = "lease"
  /\ seenLease' = [seenLease EXCEPT ![t] = lease]
  /\ Goto(t, IF HeldByOther(t) THEN "lease_conflict"
             ELSE IF lease = None THEN "create" ELSE "renew")
  /\ UNCHANGED <<now, store, call, clock, grant, seenManifest, evicted>>

LeaseWithoutEpoch(t) ==
  [writer |-> WriterOf[t], until |-> clock[t] + LeaseSecs, epoch |-> 0]

NewLease(t) ==
  [writer |-> WriterOf[t], until |-> clock[t] + LeaseSecs,
   epoch |-> IF seenLease[t] = None THEN 1 ELSE seenLease[t].epoch]

(* A put has taken effect; its answer arrives or is lost. *)
Answered(t, next) == \E l \in {next, "failed"} : Goto(t, l)

(* The lease is stored and ensure_lease returns it; its locals are dropped.   *)
Granted(t) ==
  /\ lease' = NewLease(t)
  /\ grant' = [grant EXCEPT ![t] = NewLease(t)]
  /\ seenLease' = [seenLease EXCEPT ![t] = None]
  /\ clock' = [clock EXCEPT ![t] = 0]
  /\ Answered(t, "load")

LeaseNotCompared(t) == TRUE

(* put_if_match on the lease: its etag is still the one that was read.        *)
LeaseUnchanged(t) == lease = seenLease[t]

RenewLease(t) ==
  /\ pc[t] = "renew"
  /\ \/ LeaseUnchanged(t) /\ Granted(t)
     \/ /\ ~LeaseUnchanged(t)
        /\ Goto(t, "lease_conflict")
        /\ UNCHANGED <<lease, grant, seenLease, clock>>
  /\ UNCHANGED <<now, manifest, wal, call, seenManifest, evicted>>

(* A missing lease is created by an unconditional put. *)
CreateLease(t) ==
  /\ pc[t] = "create"
  /\ Granted(t)
  /\ UNCHANGED <<now, manifest, wal, call, seenManifest, evicted>>

NothingToDo(t) ==
  LET segs == IF manifest = None THEN <<>> ELSE manifest.segments
  IN  \/ call[t].op = "sync" /\ manifest # None
      \/ call[t].op = "compact" /\ Len(segs) <= call[t].retain

CommitFirst(t) == IF NothingToDo(t) THEN "ok" ELSE "commit"

(* An append stores its segment object first, then the manifest naming it.    *)
AfterLoad(t) ==
  IF NothingToDo(t) THEN "ok"
  ELSE IF call[t].op = "append" THEN "segment" ELSE "commit"

LoadManifest(t) ==
  /\ pc[t] = "load"
  /\ seenManifest' = [seenManifest EXCEPT ![t] = manifest]
  /\ Goto(t, AfterLoad(t))
  /\ UNCHANGED <<now, store, call, clock, seenLease, grant, evicted>>

SegmentKey(s) == <<s.epoch, s.first>>

(* The segment object is put unconditionally, before the manifest. *)
PutSegment(t) ==
  /\ pc[t] = "segment"
  /\ LET s == NewSegment(t) IN
       wal' = [k \in DOMAIN wal \cup {SegmentKey(s)} |->
                 IF k = SegmentKey(s) THEN s.sum ELSE wal[k]]
  /\ Answered(t, "commit")
  /\ UNCHANGED <<now, lease, manifest, locals>>

EtagIgnored(t) == TRUE

(* put_if_match on the manifest is a plain put when there was no etag. *)
EtagMatches(t) == seenManifest[t] \in {None, manifest}

(* write_manifest *)
PutManifest(t) ==
  /\ pc[t] = "commit"
  /\ \/ /\ EtagMatches(t)
        /\ manifest' = NextManifest(t)
        /\ evicted' = [evicted EXCEPT ![t] =
                         IF call[t].op = "upsert"
                         THEN EvictedBy(Loaded(t), call[t].snapshot, now) ELSE {}]
        /\ Answered(t, "ok")
     \/ /\ ~EtagMatches(t)
        /\ Goto(t, "failed")
        /\ UNCHANGED <<manifest, evicted>>
  /\ UNCHANGED <<now, lease, wal, call, clock, seenLease, grant, seenManifest>>

(* An object-store call fails without effect. *)
StoreError(t) ==
  /\ pc[t] \in Running
  /\ Goto(t, "failed")
  /\ UNCHANGED <<now, store, locals>>

(* The locals of finished or killed calls are gone. *)
Forget(T) ==
  /\ call' = [t \in Tasks |-> IF t \in T THEN [op |-> "sync"] ELSE call[t]]
  /\ clock' = [t \in Tasks |-> IF t \in T THEN 0 ELSE clock[t]]
  /\ seenLease' = [t \in Tasks |-> IF t \in T THEN None ELSE seenLease[t]]
  /\ grant' = [t \in Tasks |-> IF t \in T THEN None ELSE grant[t]]
  /\ seenManifest' = [t \in Tasks |-> IF t \in T THEN None ELSE seenManifest[t]]
  /\ evicted' = [t \in Tasks |-> IF t \in T THEN {} ELSE evicted[t]]
  /\ pc' = [t \in Tasks |-> IF t \in T THEN "idle" ELSE pc[t]]
  /\ UNCHANGED <<now, store>>

Return(t) == pc[t] \in Finished /\ Forget({t})

Crash(w) == Forget({t \in Tasks : WriterOf[t] = w})

Tick == now < MaxTime /\ now' = now + 1 /\ UNCHANGED <<store, pc, locals>>

------------------------------------------------------------------------------
Init ==
  /\ now = 0
  /\ IF Warm
     THEN \E w \in Writers :
            /\ lease = [writer |-> w, until |-> LeaseSecs, epoch |-> 1]
            /\ manifest = DefaultManifest(w, 1)
     ELSE lease = None /\ manifest = None
  /\ wal = <<>>
  /\ pc = [t \in Tasks |-> "idle"]
  /\ call = [t \in Tasks |-> [op |-> "sync"]]
  /\ clock = [t \in Tasks |-> 0]
  /\ seenLease = [t \in Tasks |-> None]
  /\ grant = [t \in Tasks |-> None]
  /\ seenManifest = [t \in Tasks |-> None]
  /\ evicted = [t \in Tasks |-> {}]

(* One step of a call after it began, each an object-store call. *)
Step(t) ==
  \/ ReadLease(t) \/ RenewLease(t) \/ CreateLease(t) \/ LoadManifest(t)
  \/ PutSegment(t) \/ PutManifest(t) \/ StoreError(t)

Next ==
  \/ \E t \in Tasks : (\E c \in Calls : Begin(t, c)) \/ Step(t) \/ Return(t)
  \/ \E w \in Writers : Crash(w)
  \/ Tick

Spec == Init /\ [][Next]_vars

------------------------------------------------------------------------------
(* Properties. *)

TypeOK ==
  /\ now \in Nat
  /\ lease \in Lease \cup {None}
  /\ manifest \in Manifest \cup {None}
  /\ \A k \in DOMAIN wal : wal[k] \in Batches
  /\ pc \in [Tasks -> {"idle"} \cup Running \cup Finished]
  /\ call \in [Tasks -> Call]
  /\ clock \in [Tasks -> Nat]
  /\ seenLease \in [Tasks -> Lease \cup {None}]
  /\ grant \in [Tasks -> Lease \cup {None}]
  /\ seenManifest \in [Tasks -> Manifest \cup {None}]
  /\ evicted \in [Tasks -> SUBSET SnapshotId]

(* However calls of several processes interleave, fail half-way or crash,     *)
(* the stored manifest never has a gap, an overlap or a record count that     *)
(* disagrees with applied_seq (append_segment, compact_manifest).             *)
ManifestContiguous == manifest # None => Contiguous(manifest)

(* What verify_db looks for: every segment the manifest lists has its object. *)
ListedSegmentsStored ==
  \A i \in DOMAIN Segments(manifest) :
    SegmentKey(manifest.segments[i]) \in DOMAIN wal

(* The catalog upsert_snapshot leaves: current_snapshot_id names a listed     *)
(* snapshot, ids are distinct, entries are in creation order, the cap holds.  *)
CatalogSound == manifest # None => Cataloged(manifest)

(* An append that reported success is in the manifest, at the numbers it was  *)
(* given and with its records, or was compacted away since.                   *)
AckedAppendLogged ==
  \A t \in Tasks : pc[t] = "ok" /\ call[t].op = "append" =>
    \/ \E i \in DOMAIN Segments(manifest) : manifest.segments[i] = NewSegment(t)
    \/ NewSegment(t).last <= Base(manifest)

(* The lease object passes from one process to another only once expired.    *)
TakeoverAfterExpiry ==
  [][lease # None /\ lease'.writer # lease.writer => lease.until <= now]_vars

Writing(t) == pc[t] \in {"load", "segment", "commit"} /\ grant[t].until > now

(* lease.rs: the lease coordinates a single active WAL writer.  No two        *)
(* processes are between ensure_lease and their last write at the same time   *)
(* with leases that have not expired.                                         *)
SingleActiveWriter ==
  \A t, u \in Tasks : Writing(t) /\ Writing(u) => WriterOf[t] = WriterOf[u]

(* The log the manifest stands for. *)
Log == INSTANCE SegmentLog WITH
         base <- IF manifest = None THEN 0 ELSE Base(manifest),
         entries <- Entries(Segments(manifest))

(* The manifest implements the abstract log: appends by racing writers take   *)
(* effect one at a time, whole, at the end, and nothing but compaction        *)
(* removes a batch.                                                           *)
ImplementsLog == Log!Spec
===============================================================================
