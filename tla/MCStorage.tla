------------------------------- MODULE MCStorage -------------------------------
(* The safety of what stores writes: the write queue (WriteQueue, the module  *)
(* extended), the first calls of Replicator for a database and, in four       *)
(* instances that share their variables, S3WalEngine in sync mode, in async   *)
(* mode, and in async mode with its background tasks.                         *)
(* A behaviour runs the one "part" names and leaves the others' variables.    *)
EXTENDS WriteQueue, TLC

CONSTANTS req1, req2, req3, doc, q, p1, p2, t1, t2, w1, w2

VARIABLES
  part, now, manifest, blobs, disk, path, conn, opening, loaded, staged, task,
  issued, acked, replicated,
  rNow, rLease, rManifest, rWal, rPc, rCall, rClock, rSeenLease, rGrant, rSeenManifest, rEvicted

engine == <<now, manifest, blobs, disk, path, conn, opening, loaded, staged, task,
            issued, acked, replicated>>
rVars == <<rNow, rLease, rManifest, rWal, rPc, rCall, rClock, rSeenLease, rGrant,
           rSeenManifest, rEvicted>>

MCDocOf == [r \in Requests |-> doc]

\* p1 writes and may lose its disk, p2 polls and hydrates.
SyncMode == INSTANCE S3WalEngine WITH
          Writers <- {p1, p2}, Clients <- {p1}, Pollers <- {p2}, Async <- FALSE, Reapers <- {},
          MayClose <- FALSE, Faults <- TRUE, Busy <- FALSE, Crashes <- {"process", "disk"},
          MaxAttempts <- 2, Inodes <- {1, 2, 3}, Batches <- {<<1>>, <<2>>, <<1, 2>>},
          MaxWrites <- 2, MaxSeq <- 4, MaxTime <- 1, SnapshotCap <- 2, SnapshotAge <- 0
\* The flush loop against writes, contention in SQLite and crashes.
AsyncMode == INSTANCE S3WalEngine WITH
          Writers <- {p1}, Clients <- {p1}, Pollers <- {}, Async <- TRUE, Reapers <- {},
          MayClose <- FALSE, Faults <- TRUE, Busy <- TRUE, Crashes <- {"process"},
          MaxAttempts <- 2, Inodes <- {1}, Batches <- {<<1>>, <<2>>, <<1, 2>>},
          MaxWrites <- 2, MaxSeq <- 3, MaxTime <- 1, SnapshotCap <- 2, SnapshotAge <- 0
\* With idle close, eviction and, first, failing calls, then the snapshots of the reaper.
RetryMode == INSTANCE S3WalEngine WITH
          Writers <- {p1}, Clients <- {p1}, Pollers <- {}, Async <- TRUE, Reapers <- {},
          MayClose <- TRUE, Faults <- TRUE, Busy <- FALSE, Crashes <- {"process"},
          MaxAttempts <- 2, Inodes <- {1}, Batches <- {<<1>>, <<2>>, <<1, 2>>},
          MaxWrites <- 2, MaxSeq <- 2, MaxTime <- 0, SnapshotCap <- 1, SnapshotAge <- 0
JobsMode == INSTANCE S3WalEngine WITH
          Writers <- {p1}, Clients <- {p1}, Pollers <- {}, Async <- TRUE, Reapers <- {p1},
          MayClose <- TRUE, Faults <- FALSE, Busy <- FALSE, Crashes <- {"process"},
          MaxAttempts <- 1, Inodes <- {1}, Batches <- {<<1>>, <<2>>, <<1, 2>>},
          MaxWrites <- 2, MaxSeq <- 2, MaxTime <- 0, SnapshotCap <- 1, SnapshotAge <- 0

\* Two processes append to and upsert a database that has no lease and no manifest yet.
Cold == INSTANCE Replicator WITH
          Writers <- {w1, w2}, Tasks <- {t1, t2}, WriterOf <- (t1 :> w1 @@ t2 :> w2),
          Batches <- {<<1>>}, Ops <- {"append", "upsert"}, Retains <- {0}, LeaseSecs <- 1,
          SnapshotCap <- 1, SnapshotAge <- 0, Warm <- FALSE, MaxTime <- 1, MaxSeq <- 2,
          now <- rNow, lease <- rLease, manifest <- rManifest, wal <- rWal, pc <- rPc,
          call <- rCall, clock <- rClock, seenLease <- rSeenLease, grant <- rGrant,
          seenManifest <- rSeenManifest, evicted <- rEvicted

ASSUME StorageAssumption ==
  SyncMode!EngineAssumption /\ AsyncMode!EngineAssumption /\ RetryMode!EngineAssumption
  /\ JobsMode!EngineAssumption

\* Requests of one mode are alike: of their permutations one will do.
Ascending ==
  LET rank == [accepted |-> 1, prepared |-> 2, committed |-> 3]
  IN  rank[mode[req1]] <= rank[mode[req2]] /\ rank[mode[req2]] <= rank[mode[req3]]
InOrder(r, s) == mode[r] = mode[s] => (pc[s] # "new" => pc[r] # "new")
StorageInit ==
  /\ part \in {"queue", "sync", "async", "retries", "jobs", "cold"}
  /\ Init /\ Cold!Init
  /\ IF part = "queue" THEN Ascending ELSE \A r \in Requests : mode[r] = "accepted"
  /\ IF part \in {"queue", "sync", "cold"} THEN SyncMode!Init
     ELSE IF part = "async" THEN AsyncMode!Init
          ELSE IF part = "retries" THEN RetryMode!Init ELSE JobsMode!Init
QueueRuns ==
  /\ part = "queue" /\ Next /\ InOrder(req1, req2)' /\ InOrder(req2, req3)'
  /\ UNCHANGED <<part, engine, rVars>>
SyncRuns == part = "sync" /\ SyncMode!Next /\ UNCHANGED <<part, vars, rVars>>
AsyncRuns == part = "async" /\ AsyncMode!Next /\ UNCHANGED <<part, vars, rVars>>
RetriesRun == part = "retries" /\ RetryMode!Next /\ UNCHANGED <<part, vars, rVars>>
JobsRun == part = "jobs" /\ JobsMode!Next /\ UNCHANGED <<part, vars, rVars>>
ColdRuns == part = "cold" /\ Cold!Next /\ UNCHANGED <<part, vars, engine>>
StorageSpec ==
  /\ StorageInit
  /\ [][QueueRuns \/ SyncRuns \/ AsyncRuns \/ RetriesRun \/ JobsRun
        \/ ColdRuns]_<<part, vars, engine, rVars>>

(* What replication promises, in each mode as far as its code goes: a batch   *)
(* that is done is in the current snapshot (the reaper's snapshots, part      *)
(* "jobs", are an exception); a snapshot labelled s holds the log up to s; an *)
(* acknowledged write is replicated or keeps its job row; and the object      *)
(* store has what the manifest lists: snapshots, however uploads and          *)
(* retention fail, and segments, also when the manifest is created twice.     *)
ReplicationSafe ==
  /\ part \in {"sync", "async"} => SyncMode!CheckpointPerBatch
  /\ part = "async" => AsyncMode!CheckpointMatchesSeq
  /\ part = "retries" => RetryMode!QueuedUntilReplicated
  /\ part = "jobs" => JobsMode!QueuedUntilReplicated
  /\ part = "sync" => SyncMode!SnapshotsStored
  /\ Cold!ListedSegmentsStored /\ Cold!CatalogSound
================================================================================
