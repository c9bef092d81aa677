----------------------------- MODULE S3WalEngine -----------------------------
(****************************************************************************)
(* S3WalEngine (src/src/storage/s3_wal/mod.rs): how processes replicate ONE  *)
(* database to the object store and reload it from there.                    *)
(*                                                                           *)
(* Each process runs, concurrently, the write coordinator, the flush loop    *)
(* (async mode), the TTL reaper and the remote-sync poll.  Local state is a   *)
(* SQLite file, which a crash leaves alone, and the connection, the loaded   *)
(* snapshot id and staged records, which it wipes.  A file replaced while    *)
(* open lives on for the connections that hold it, so files are inodes.      *)
(*                                                                           *)
(* A Replicator call is one step at which its manifest put takes effect:     *)
(* Replicator shows that racing calls behave so.  Its lease is left to       *)
(* chance: any call may be refused while other processes exist.              *)
(* A document is the number of the write that made it; a job row in the file *)
(* maps the write it describes to the attempts made to replicate it.         *)
(****************************************************************************)
EXTENDS Manifest

CONSTANTS
  Clients,      \* processes that accept writes
  Async,        \* KOKOADB_REPLICATION_MODE is async
  Pollers,      \* processes with remote sync enabled (topology multi)
  Reapers,      \* processes whose reaper finds expired rows
  MayClose,     \* idle close and LRU eviction occur
  Faults,       \* object-store calls may fail, and SQL statements of the engine
  Busy,         \* SQLite may answer "database is locked"
  Crashes,      \* subset of {"process", "disk"}: what may be lost
  MaxAttempts,  \* MAX_ATTEMPTS of bump_replication_job_attempts
  Inodes,       \* bound: files alive at once in a process
  MaxWrites,    \* bound: writes issued
  MaxSeq,       \* bound: applied_seq
  MaxTime       \* bound: the clock stops here

VARIABLES
  now,         \* unix_now_secs
  manifest,    \* the manifest object
  blobs,       \* snapshot objects, by id
  disk,        \* per process: content of each inode
  path,        \* per process: inode of the database file, or None
  conn,        \* conns: inode of the open connection, or None
  opening,     \* inode get_conn is about to publish, or None
  loaded,      \* loaded_snapshot_ids
  staged,      \* wal_queue: writes whose job row is not stored yet
  task,        \* per process and role: the locals of its current call
  issued,      \* number of writes committed
  acked,       \* writes reported as done
  replicated   \* writes the engine has finished replicating

remote == <<manifest, blobs>>
local == <<disk, path, conn, opening, loaded, staged>>
client == <<issued, acked, replicated>>
vars == <<now, remote, local, task, client>>

------------------------------------------------------------------------------
Writes == 1..MaxWrites
Roles == {"write", "flush", "reap", "poll"}
Content == [docs : SUBSET Writes, jobs : UNION {[S -> 0..MaxAttempts] : S \in SUBSET Writes}]
Empty == [docs |-> {}, jobs |-> <<>>]

Labels == {"idle", "execute", "enqueue", "append", "vacuum", "stamp", "put", "upsert",
           "drop", "delete", "bump", "count", "current", "compare", "close", "replace", "reopen"}
Locals == [pc : Labels, inode : Inodes \cup {None}, batch : Seq(Writes),
           image : Content \cup {None}, id : SnapshotId \cup {None}, gone : SUBSET SnapshotId]
Idle == [pc |-> "idle", inode |-> None, batch |-> <<>>, image |-> None, id |-> None, gone |-> {}]

(* Rows of __kdb_replication_jobs with status 'queued'; the rest are dead. *)
Queued(c) == {w \in DOMAIN c.jobs : c.jobs[w] < MaxAttempts}
WithJobs(c, S) ==
  [c EXCEPT !.jobs = [w \in DOMAIN @ \cup S |-> IF w \in DOMAIN @ THEN @[w] ELSE 0]]

WithoutAnyJob(c, S) == [c EXCEPT !.jobs = <<>>]

WithoutJobs(c, S) == [c EXCEPT !.jobs = [w \in DOMAIN @ \ S |-> @[w]]]
InOrder(S) ==
  CHOOSE s \in [1..Cardinality(S) -> S] : \A i, j \in DOMAIN s : i < j => s[i] < s[j]

EngineAssumption ==
  /\ Clients \subseteq Writers /\ Pollers \subseteq Writers /\ Reapers \subseteq Writers
  /\ {Async, MayClose, Faults, Busy} \subseteq BOOLEAN
  /\ Crashes \subseteq {"process", "disk"}
  /\ MaxAttempts \in Nat \ {0} /\ MaxWrites \in Nat /\ MaxSeq \in Nat /\ MaxTime \in Nat
  /\ Inodes \subseteq Nat \ {0} /\ 1 \in Inodes
  /\ \A w \in Writes : <<w>> \in Batches
  /\ \A S \in (SUBSET Writes) \ {{}} : InOrder(S) \in Batches

FreeInode(n) ==
  CHOOSE i \in Inodes :
    /\ i \notin {path[n], conn[n], opening[n]} \cup {task[n][r].inode : r \in Roles}
    /\ \A j \in Inodes : j < i => j \in {path[n], conn[n], opening[n]}
                                        \cup {task[n][r].inode : r \in Roles}
HasFreeInode(n) ==
  ~(Inodes \subseteq {path[n], conn[n], opening[n]} \cup {task[n][r].inode : r \in Roles})

At(n, r, l) == task[n][r].pc = l
Become(n, r, locals) == task' = [task EXCEPT ![n][r] = locals]
Goto(n, r, l) == Become(n, r, [task[n][r] EXCEPT !.pc = l])

------------------------------------------------------------------------------
(* get_conn: hydrate a missing file, then publish the connection.            *)

(* The new file of a hydration from snapshot id. *)
Hydrated(n, id) ==
  /\ id \in DOMAIN blobs /\ HasFreeInode(n)
  /\ disk' = [disk EXCEPT ![n][FreeInode(n)] = blobs[id]]
  /\ path' = [path EXCEPT ![n] = FreeInode(n)]
  /\ loaded' = [loaded EXCEPT ![n] = id]

StartOpen(n) ==
  /\ conn[n] = None /\ opening[n] = None
  /\ IF path[n] = None THEN Hydrated(n, manifest.current)
     ELSE UNCHANGED <<disk, path, loaded>>
  /\ opening' = [opening EXCEPT ![n] = path'[n]]
  /\ UNCHANGED <<now, remote, conn, staged, task, client>>

FinishOpen(n) ==
  /\ opening[n] # None
  /\ \/ /\ conn' = [conn EXCEPT ![n] = opening[n]]
        /\ loaded' = [loaded EXCEPT ![n] = manifest.current]
     \/ Faults /\ UNCHANGED <<conn, loaded>>
  /\ opening' = [opening EXCEPT ![n] = None]
  /\ UNCHANGED <<now, remote, disk, path, staged, task, client>>

(* close_idle_dbs, evict_lru_if_needed: the connection is dropped, in use or not. *)
Close(n) ==
  /\ MayClose /\ conn[n] # None
  /\ conn' = [conn EXCEPT ![n] = None]
  /\ loaded' = [loaded EXCEPT ![n] = None]
  /\ UNCHANGED <<now, remote, disk, path, opening, staged, task, client>>

------------------------------------------------------------------------------
(* The write coordinator: one mutation at a time. *)

WriteOpen(n) ==
  /\ n \in Clients /\ At(n, "write", "idle") /\ conn[n] # None /\ issued < MaxWrites
  /\ Become(n, "write", [Idle EXCEPT !.pc = "execute", !.inode = conn[n]])
  /\ UNCHANGED <<now, remote, local, client>>

(* The handler commits locally, then calls append_wal_record. *)
WriteCommit(n) ==
  /\ At(n, "write", "execute") /\ issued < MaxWrites
  /\ issued' = issued + 1
  /\ disk' = [disk EXCEPT ![n][task[n]["write"].inode].docs = @ \cup {issued + 1}]
  /\ Become(n, "write", [Idle EXCEPT !.pc = IF Async THEN "enqueue" ELSE "append",
                                     !.batch = <<issued + 1>>])
  /\ UNCHANGED <<now, remote, path, conn, opening, loaded, staged, acked, replicated>>

(* enqueue_replication_job: a row beside the data, or memory when SQLite is   *)
(* busy; any other error of get_conn or of the INSERT is the writer's answer. *)
Enqueue(n) ==
  LET w == task[n]["write"].batch[1] IN
  /\ At(n, "write", "enqueue")
  /\ \/ /\ conn[n] # None
        /\ \/ disk' = [disk EXCEPT ![n][conn[n]] = WithJobs(@, {w})] /\ UNCHANGED staged
           \/ Busy /\ staged' = [staged EXCEPT ![n] = @ \cup {w}] /\ UNCHANGED disk
        /\ acked' = acked \cup {w}
     \/ Faults /\ UNCHANGED <<disk, staged, acked>>
  /\ Become(n, "write", Idle)
  /\ UNCHANGED <<now, remote, path, conn, opening, loaded, issued, replicated>>

------------------------------------------------------------------------------
FailedUncounted(n, r, reason) == Become(n, r, Idle)

(* The call failed: a writer reports the error, the reaper logs it, and the   *)
(* flush loop goes on to count an attempt unless the lease is taken.          *)
Failed(n, r, reason) ==
  Become(n, r, IF r = "flush" /\ reason = "error"
               THEN [Idle EXCEPT !.pc = "bump", !.inode = task[n][r].inode,
                                 !.batch = task[n][r].batch]
               ELSE Idle)

(* A replicator call that may fail: when it does, with or without effect. *)
Reasons == (IF Faults THEN {"error"} ELSE {})
             \cup (IF Cardinality(Writers) > 1 THEN {"lease"} ELSE {})

(* Work after a completed force_sync_snapshot, or when there is no connection. *)
Done(n, r) ==
  /\ Become(n, r, IF r = "flush" THEN [task[n][r] EXCEPT !.pc = "delete", !.image = None,
                                                         !.id = None, !.gone = {}]
                  ELSE Idle)
  /\ LET S == IF r = "write" THEN ToSet(task[n][r].batch) ELSE {}
     IN  acked' = acked \cup S /\ replicated' = replicated \cup S
  /\ UNCHANGED issued

AfterAppendUnsaved(r) == IF r = "flush" THEN "delete" ELSE "vacuum"

(* append_records_for_db is called with snapshot_after = true everywhere. *)
AfterAppend(r) == "vacuum"

(* append_segment, called by append_records_for_db. *)
AppendBatch(n, r) ==
  LET batch == task[n][r].batch
      seg   == [first |-> manifest.applied + 1, last |-> manifest.applied + Len(batch),
                epoch |-> manifest.epoch, sum |-> batch]
  IN
  /\ At(n, r, "append")
  /\ \/ /\ seg.last <= MaxSeq
        /\ manifest' = WithSegment(manifest, seg, n)
        /\ Goto(n, r, AfterAppend(r)) \/ (Faults /\ Failed(n, r, "error"))
     \/ /\ \E reason \in Reasons : Failed(n, r, reason)
        /\ UNCHANGED manifest
  /\ UNCHANGED <<now, blobs, local, client>>

------------------------------------------------------------------------------
(* force_sync_snapshot and sync_snapshot_to_replicator, run by any role.     *)

SnapshotSource(n, r) == IF r = "reap" THEN task[n][r].inode ELSE conn[n]

(* VACUUM INTO a temporary file; append_records_for_db looks the connection   *)
(* up first and takes no snapshot when it is gone.                            *)
Vacuum(n, r) ==
  /\ At(n, r, "vacuum")
  /\ IF SnapshotSource(n, r) = None THEN Done(n, r)
     ELSE /\ Become(n, r, [task[n][r] EXCEPT !.pc = "stamp",
                                             !.image = disk[n][SnapshotSource(n, r)]])
          /\ UNCHANGED client
  /\ UNCHANGED <<now, remote, local>>

IdAhead == <<now, manifest.applied + 1>>
IdOfSecond == <<now, 0>>

(* The id is made of the clock and the applied_seq of the manifest now. *)
NewId == <<now, manifest.applied>>

Stamp(n, r) ==
  /\ At(n, r, "stamp")
  /\ Become(n, r, [task[n][r] EXCEPT !.pc = "put", !.id = NewId])
  /\ UNCHANGED <<now, remote, local, client>>

PutBlob(n, r) ==
  LET id == task[n][r].id IN
  /\ At(n, r, "put")
  /\ \/ /\ blobs' = [k \in DOMAIN blobs \cup {id} |-> IF k = id THEN task[n][r].image ELSE blobs[k]]
        /\ Goto(n, r, "upsert") \/ (Faults /\ Failed(n, r, "error"))
     \/ Faults /\ Failed(n, r, "error") /\ UNCHANGED blobs
  /\ UNCHANGED <<now, manifest, local, client>>

UpsertSnapshot(n, r) ==
  LET id == task[n][r].id
      s  == [id |-> id, at |-> now, seq |-> id[2]]
  IN
  /\ At(n, r, "upsert")
  /\ \/ /\ manifest' = WithSnapshot(manifest, s, n, now)
        /\ \/ Become(n, r, [task[n][r] EXCEPT !.pc = "drop",
                                              !.gone = EvictedBy(manifest, s, now)])
           \/ Faults /\ Failed(n, r, "error")
     \/ /\ \E reason \in Reasons : Failed(n, r, reason)
        /\ UNCHANGED manifest
  /\ UNCHANGED <<now, blobs, local, client>>

(* Evicted snapshot objects are deleted, then the own snapshot is the loaded one. *)
DropEvicted(n, r) ==
  LET keep(G) == [k \in DOMAIN blobs \ G |-> blobs[k]] IN
  /\ At(n, r, "drop")
  /\ \/ /\ blobs' = keep(task[n][r].gone)
        /\ loaded' = [loaded EXCEPT ![n] = task[n][r].id]
        /\ Done(n, r)
     \/ /\ Faults /\ task[n][r].gone # {}
        /\ \E G \in SUBSET task[n][r].gone : blobs' = keep(G)
        /\ Failed(n, r, "error") /\ UNCHANGED <<loaded, client>>
  /\ UNCHANGED <<now, manifest, disk, path, conn, opening, staged>>

Snapshotting(n, r) ==
  Vacuum(n, r) \/ Stamp(n, r) \/ PutBlob(n, r) \/ UpsertSnapshot(n, r) \/ DropEvicted(n, r)

------------------------------------------------------------------------------
(* flush_replication_queue: stored and staged records become one batch.  An   *)
(* INSERT of a staged record that fails is ignored, and the record is lost.   *)
FlushReady(n) ==
  /\ Async /\ At(n, "flush", "idle") /\ conn[n] # None
  /\ Queued(disk[n][conn[n]]) \cup staged[n] # {}

StoreStaged(n) ==
  /\ \E stored \in {staged[n]} \cup (IF Faults \/ Busy THEN SUBSET staged[n] ELSE {}) :
       disk' = [disk EXCEPT ![n][conn[n]] = WithJobs(@, stored)]
  /\ staged' = [staged EXCEPT ![n] = {}]
  /\ UNCHANGED <<now, remote, path, conn, opening, loaded, client>>

FlushStart(n) ==
  /\ FlushReady(n) /\ StoreStaged(n)
  /\ LET rows == Queued(disk'[n][conn[n]]) IN
     Become(n, "flush", IF rows = {} THEN Idle
                        ELSE [Idle EXCEPT !.pc = "append", !.inode = conn[n],
                                          !.batch = InOrder(rows)])

(* delete_kdb_replication_jobs: the rows of the batch, by id. *)
DeleteJobs(n) ==
  LET t == task[n]["flush"] IN
  /\ At(n, "flush", "delete")
  /\ disk' = [disk EXCEPT ![n][t.inode] = WithoutJobs(@, ToSet(t.batch))]
  /\ replicated' = replicated \cup ToSet(t.batch)
  /\ Become(n, "flush", Idle)
  /\ UNCHANGED <<now, remote, path, conn, opening, loaded, staged, issued, acked>>

(* bump_replication_job_attempts: one more attempt for each row of the batch. *)
Attempted(c, S) ==
  [c EXCEPT !.jobs = [w \in DOMAIN @ |-> IF w \in S THEN @[w] + 1 ELSE @[w]]]

BumpAttempts(n) ==
  LET t == task[n]["flush"] IN
  /\ At(n, "flush", "bump")
  /\ disk' = [disk EXCEPT ![n][t.inode] = Attempted(@, ToSet(t.batch))]
  /\ Become(n, "flush", Idle)
  /\ UNCHANGED <<now, remote, path, conn, opening, loaded, staged, client>>

Flush(n) == AppendBatch(n, "flush") \/ Snapshotting(n, "flush") \/ DeleteJobs(n) \/ BumpAttempts(n)

(* A statement of the loop's own fails - the count and the fetch after the    *)
(* staged records were taken, the DELETE or the UPDATE after the call - and    *)
(* the rows are left as they are, with no attempt counted.                    *)
FlushFails(n) ==
  /\ Faults \/ Busy
  /\ \/ FlushReady(n) /\ StoreStaged(n) /\ UNCHANGED task
     \/ /\ At(n, "flush", "delete") \/ At(n, "flush", "bump")
        /\ Become(n, "flush", Idle)
        /\ UNCHANGED <<now, remote, local, client>>

(* run_ttl_reaper: reap_conn changed something, so a snapshot follows. *)
Reap(n) ==
  /\ n \in Reapers /\ At(n, "reap", "idle") /\ conn[n] # None
  /\ Become(n, "reap", [Idle EXCEPT !.pc = "vacuum", !.inode = conn[n]])
  /\ UNCHANGED <<now, remote, local, client>>

------------------------------------------------------------------------------
(* sync_one_loaded_db_from_remote and hydrate_db. *)

(* loaded_db_paths lists what is open; the rest of the poll awaits one read    *)
(* after the other.                                                           *)
PollStart(n) ==
  /\ n \in Pollers /\ At(n, "poll", "idle") /\ conn[n] # None
  /\ Become(n, "poll", [Idle EXCEPT !.pc = "count"])
  /\ UNCHANGED <<now, remote, local, client>>

PollCount(n) ==
  LET pending == Async /\ conn[n] # None /\ Queued(disk[n][conn[n]]) # {} IN
  /\ At(n, "poll", "count")
  /\ \/ ~pending /\ Goto(n, "poll", "current")
     \/ (pending \/ Faults \/ Busy) /\ Become(n, "poll", Idle)
  /\ UNCHANGED <<now, remote, local, client>>

PollCurrent(n) ==
  /\ At(n, "poll", "current")
  /\ \/ /\ manifest.current # None
        /\ Become(n, "poll", [Idle EXCEPT !.pc = "compare", !.id = manifest.current])
     \/ (manifest.current = None \/ Faults) /\ Become(n, "poll", Idle)
  /\ UNCHANGED <<now, remote, local, client>>

PollCompare(n) ==
  /\ At(n, "poll", "compare")
  /\ IF task[n]["poll"].id = loaded[n] THEN Become(n, "poll", Idle) ELSE Goto(n, "poll", "close")
  /\ UNCHANGED <<now, remote, local, client>>

PollClose(n) ==
  /\ At(n, "poll", "close")
  /\ conn' = [conn EXCEPT ![n] = None]
  /\ Goto(n, "poll", "replace")
  /\ UNCHANGED <<now, remote, disk, path, opening, loaded, staged, client>>

(* atomic_replace_db_file renames the downloaded snapshot over the file. *)
PollReplace(n) ==
  LET id     == task[n]["poll"].id
      listed == \E i \in DOMAIN manifest.snapshots : manifest.snapshots[i].id = id
  IN
  /\ At(n, "poll", "replace")
  /\ \/ listed /\ Hydrated(n, id) /\ Goto(n, "poll", "reopen")
     \/ /\ Faults \/ ~listed \/ id \notin DOMAIN blobs
        /\ Become(n, "poll", Idle) /\ UNCHANGED <<disk, path, loaded>>
  /\ UNCHANGED <<now, remote, conn, opening, staged, client>>

(* get_conn keeps a connection opened meanwhile; the poll records its snapshot. *)
PollReopen(n) ==
  /\ At(n, "poll", "reopen") /\ opening[n] = None
  /\ conn' = [conn EXCEPT ![n] = IF @ = None THEN path[n] ELSE @]
  /\ loaded' = [loaded EXCEPT ![n] = task[n]["poll"].id]
  /\ Become(n, "poll", Idle)
  /\ UNCHANGED <<now, remote, disk, path, opening, staged, client>>

Poll(n) ==
  \/ PollStart(n) \/ PollCount(n) \/ PollCurrent(n) \/ PollCompare(n)
  \/ PollClose(n) \/ PollReplace(n) \/ PollReopen(n)

------------------------------------------------------------------------------
(* The process dies; with its disk, or the file survives. *)
Crash(n) ==
  /\ \E what \in Crashes : path' = IF what = "disk" THEN [path EXCEPT ![n] = None] ELSE path
  /\ conn' = [conn EXCEPT ![n] = None]
  /\ opening' = [opening EXCEPT ![n] = None]
  /\ loaded' = [loaded EXCEPT ![n] = None]
  /\ staged' = [staged EXCEPT ![n] = {}]
  /\ task' = [task EXCEPT ![n] = [r \in Roles |-> Idle]]
  /\ UNCHANGED <<now, remote, disk, client>>

Tick == now < MaxTime /\ now' = now + 1 /\ UNCHANGED <<remote, local, task, client>>

(* Every process has opened the database from its first, empty snapshot. *)
Init ==
  /\ now = 0
  /\ \E w \in Clients :
       manifest = WithSnapshot(DefaultManifest(w, 1), [id |-> <<0, 0>>, at |-> 0, seq |-> 0], w, 0)
  /\ blobs = [id \in {<<0, 0>>} |-> Empty]
  /\ disk = [n \in Writers |-> [i \in Inodes |-> Empty]]
  /\ path = [n \in Writers |-> 1]
  /\ conn = [n \in Writers |-> 1]
  /\ opening = [n \in Writers |-> None]
  /\ loaded = [n \in Writers |-> <<0, 0>>]
  /\ staged = [n \in Writers |-> {}]
  /\ task = [n \in Writers |-> [r \in Roles |-> Idle]]
  /\ issued = 0 /\ acked = {} /\ replicated = {}

Open(n) == StartOpen(n) \/ FinishOpen(n)
Write(n) == WriteOpen(n) \/ WriteCommit(n) \/ Enqueue(n) \/ AppendBatch(n, "write")
              \/ Snapshotting(n, "write")

Next ==
  \/ \E n \in Writers :
       \/ Open(n) \/ Close(n) \/ Write(n) \/ FlushStart(n) \/ Flush(n) \/ FlushFails(n)
       \/ Reap(n) \/ Snapshotting(n, "reap") \/ Poll(n) \/ Crash(n)
  \/ Tick

Spec == Init /\ [][Next]_vars

(* The flush loop ticks for ever and goes on with what it started; get_conn   *)
(* runs whenever the loop needs the connection.  Its own statements fail only *)
(* finitely often: nothing else counts the rounds of the loop.                *)
Fairness ==
  \A n \in Writers :
    /\ WF_vars(Open(n)) /\ WF_vars(FlushStart(n)) /\ WF_vars(Flush(n))
    /\ <>[][~FlushFails(n)]_vars
FairSpec == Spec /\ Fairness

------------------------------------------------------------------------------
TypeOK ==
  /\ now \in 0..MaxTime
  /\ DOMAIN blobs \subseteq SnapshotId
  /\ \A id \in DOMAIN blobs : blobs[id] \in Content
  /\ disk \in [Writers -> [Inodes -> Content]]
  /\ path \in [Writers -> Inodes \cup {None}]
  /\ conn \in [Writers -> Inodes \cup {None}]
  /\ opening \in [Writers -> Inodes \cup {None}]
  /\ loaded \in [Writers -> SnapshotId \cup {None}]
  /\ staged \in [Writers -> SUBSET Writes]
  /\ task \in [Writers -> [Roles -> Locals]]
  /\ issued \in 0..MaxWrites /\ acked \subseteq Writes /\ replicated \subseteq Writes

(* mod.rs:351: a recoverable checkpoint for every replicated batch.  A write   *)
(* the engine has finished replicating is in the current snapshot: a process  *)
(* that lost its disk gets it back.                                           *)
CheckpointPerBatch ==
  /\ manifest.current \in DOMAIN blobs
  /\ replicated \subseteq blobs[manifest.current].docs

(* A snapshot with to_seq = s holds every record of the log up to s. *)
CheckpointMatchesSeq ==
  \A i \in DOMAIN manifest.snapshots, j \in DOMAIN manifest.segments :
    /\ manifest.snapshots[i].id \in DOMAIN blobs
    /\ manifest.segments[j].last <= manifest.snapshots[i].seq
    => ToSet(manifest.segments[j].sum) \subseteq blobs[manifest.snapshots[i].id].docs

(* Replication is not forgotten: an acknowledged write has been replicated or *)
(* has a record, in the file or staged, from which it will be.                *)
QueuedUntilReplicated ==
  Async => \A w \in acked \ replicated :
    \E n \in Clients : \/ w \in staged[n]
                       \/ path[n] # None /\ w \in DOMAIN disk[n][path[n]].jobs

(* What hydrate_db and verify_db look for: every snapshot of the catalog has  *)
(* its object, however uploads, retries and the deletion of evicted objects   *)
(* (upsert_snapshot, force_sync_snapshot) fail half-way.                      *)
SnapshotsStored ==
  \A i \in DOMAIN manifest.snapshots : manifest.snapshots[i].id \in DOMAIN blobs

(* DOCUMENTATION.md:3921: a versioned snapshot object is immutable, so that a *)
(* signed URL for it always serves the same content.                          *)
KeepsSnapshots == \A id \in DOMAIN blobs \cap DOMAIN blobs' : blobs'[id] = blobs[id]
SnapshotImmutable == [][KeepsSnapshots]_vars

(* The flush loop comes to an end with every acknowledged write: replicated,  *)
(* or in the dead-letter state after MAX_ATTEMPTS counted failures.  A failed *)
(* count, fetch, DELETE or UPDATE of the job rows counts none (mod.rs 1141,   *)
(* 1155, 1166, 1177): only while those fail for ever does the loop go on.     *)
FlushConcludes ==
  \A w \in Writes :
    w \in acked ~> \/ w \in replicated
                   \/ \E n \in Writers : /\ path[n] # None
                                         /\ w \in DOMAIN disk[n][path[n]].jobs
                                         /\ w \notin Queued(disk[n][path[n]])
===============================================================================
