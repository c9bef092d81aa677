# KokoaDB in TLA+

A verification development kept beside KokoaDB (Rust, `src/src`): TLA+ modules
of the parts whose correctness depends on interleavings, crashes and failing
calls, and of the pure languages (filters, mutations) that several programs
implement; TLC configurations that check them on small instances; and proofs,
checked by the TLA+ proof system, that hold for every instance. Every definition
is translated from the code; `PROJECT.json` maps each to its lines.

    tlc -workers 2 -config Storage.cfg MCStorage            # one run
    tlapm WriteQueueProofs.tla                              # one proof module

## 1. The system

A KokoaDB process serves JSON requests over HTTP. Each names a logical database;
a database is one SQLite file. Writes go through a per-database *write
coordinator*; a storage engine gives connections to the file, either purely
local or replicated to an object store ("s3_wal"). Several processes may share
one object store (topology `multi`).

    client -> gateway (time-out) -> dispatch_inner -> write coordinator -> handler -> SQLite
                                         |                 |                  |
                                         | reads:          | pending          | append_wal_record
                                         | rows + overlay  v documents        v
                                         +--------------> overlay      replication queue (SQLite rows)
                                                                              | flush loop
          other processes <- poll / hydrate <- object store <- Replicator: lease, segments, manifest

### Inventory

| Component (code) | State | Operations | What makes it hard | What makes it correct |
|---|---|---|---|---|
| Write coordinator (`state.rs`, `service/dispatcher.rs`) | `write_queues`, a bounded channel and a task per generation, `pending_documents`, `pending_revision` | three enqueue functions, the task's loop, retirement after idling, `clear_db_runtime_state` | requests hold senders of retired generations; full and closed channels change how a request is acknowledged; time-outs drop requests anywhere | one mutation at a time; acknowledged writes neither lost nor doubled nor reordered; the overlay covers what is acknowledged |
| Reads over pending writes (`read_ops.rs`) | none | rows, then overlay | two reads at two moments | read your acknowledged writes |
| Replicator (`s3_wal/replicator.rs`, `manifest.rs`, `lease.rs`, `segment.rs`) | objects `lease.json`, `manifest.json`, `wal/...` | `ensure_lease`, `sync_once`, `append_segment`, `upsert_snapshot`, `compact_manifest` | racing tasks and processes, expiring leases, puts whose answer is lost, unconditional first puts | contiguous log, stored segments, sound catalog, acknowledged appends kept, exclusive lease |
| S3 engine (`s3_wal/mod.rs`) | file, `conns`, `loaded_snapshot_ids`, `wal_queue`, job rows, snapshot objects | `get_conn`, `append_wal_record`, `flush_replication_queue`, `run_ttl_reaper`, `sync_one_loaded_db_from_remote`, `hydrate_db`, idle close, eviction; also `delete_db`, offload, clone, backup, restore | five concurrent activities over one file that may be replaced under them; crashes between commit, job, batch and snapshot | what was replicated can be recovered from the current snapshot; nothing acknowledged is forgotten |
| Object store client (`object_store.rs`) | etags | get, put, put_if_match, delete | a failed put may have taken effect | as its callers assume |
| Local engine (`storage/local.rs`), manager, backups | `conns`, last use | `get_conn`, LRU eviction, idle close, retention | a connection is evicted or a file deleted while a request takes it; what was backed up is remembered in memory | the pool is bounded; an answered write is found again, and gets into a backup |
| TTL reaper (`storage/reaper.rs`) | documents, archive | expire, archive, purge | runs beside writes | a document is live or archived, never both or neither |
| Read cache (`runtime_support.rs`, `state.rs`) | cache entries, epochs per namespace | cached query, epoch bump, `delete_db` | epochs read before the query, entries stored after it | no entry from before a write is served after it |
| Document writes (`write_ops.rs`, `tx_mutation.rs`) | documents | insert, update, upsert, transaction, mutation operators | counters kept by triggers, transitions attached to rows, several statements per handler | counters match the rows; a mutation changes what it names and no more |
| Archive (`archive_ops.rs`) | documents, archive | delete, drop, restore, purge | failure and other tasks between two statements | a version archived is kept until purged, restored or expired; a deleted document leaves no pending transition |
| Lifecycle transitions (`lifecycle_ops.rs`) | scheduled transitions | schedule, cancel, retry, run, tick | cancel or retry against a running worker | applied at most once; a terminal state is final |
| Background jobs (`jobs_ops.rs`) | job rows, progress | start, continue, abort, worker steps | stop between a batch and its progress; abort against completion | terminal states are final; batches applied once |
| Identity (`identity_ops.rs`) | users, statuses with terms, provider links, tokens, events | user, status, provider and token requests | requests and the reaper share one SQLite connection, so that a transaction of one encloses the statements of the others | a token is consumed once; one active token; what is revoked stays so; a status ends |
| Database administration (`db_ops.rs`) | files, catalog | create, clone, backup, restore, snapshot, delete | create_db, load_db, sync_db, create_snapshot, restore_snapshot, restore_backup and compact_wal bypass the coordinator (`dispatcher.rs` 121-155) and some replace the file | an answered write stays in the file or in the backup of its deletion |
| Files, metric events, audit logs, system catalog, auto index, schema | rows | append or upsert of one row; SQL building | little: one statement per request | as a sequential program |
| Queries (`read_ops.rs`, `query_support.rs`, `lookup_support.rs`, `jql.rs`) | none | JQL to SQL, projection, pagination | long pure functions | agreement with the documented operators |
| HTTP API, start-up, configuration, admin UI | none of their own | routing, time-out, loops | the time-out drops futures | covered where other components meet it |

`PROJECT.json` lists each with its status, and every hazard of the code at its
line with the properties that cover it, or why none does.

## 2. The modules

    SegmentLog            what the replicated log promises (abstract specification)
    Manifest              the manifest as data: append, snapshot retention, compaction
      Replicator          lease, manifest and segments, one step per object-store call
      S3WalEngine         processes that write, flush, reap, poll, evict, crash
    WriteQueue            the write coordinator and reads over pending documents
    LocalEngine           files, the connection pool, backups of the local engine
    ReadCache             cached answers, their keys and the epochs that outdate them
    DocumentStore         the tables of documents and what a statement does to them
      Documents           handlers, lifecycle runner, reaper, import and admin workers over them
    Jobs                  job rows, requests and workers
    Identity              users, tokens and providers on one shared connection
    Json                  values and paths
      Jql                 filters: compiled to SQL, matched on items, matched on rows
        Mutations         update operators, positional paths, user and file data
    MC<Module>            small instances; MCStorage, MCServices, MCDatabase and MCProgress
                          put several modules into one run
    ManifestProofs, ReplicatorProofs, S3WalEngineProofs, WriteQueueProofs, LocalEngineProofs,
    DatabaseProofs, JobsProofs, IdentityProofs

`Json`, `Jql` and `Mutations` are recursive, as the code is, and no theorem is
about them; no other module declares a recursive operator.

### Manifest, SegmentLog, Replicator

`Manifest` has the records of `manifest.rs` and what `append_segment`,
`upsert_snapshot` and `compact_manifest` do to them: `WithSegment`,
`WithSnapshot` (insert in creation order, retention by cap and age, keep the
current one), `Compacted`. A batch stands for its segment's object and checksum.

In `Replicator` a *task* is one running call of a Replicator method. Tasks of a
process share its writer id and its lease, as the flush loop, the reaper and
requests do. `pc` walks through the object-store calls in code order: read the
lease, renew or create it, load the manifest, put the segment, put the manifest.
A conditional put succeeds when the object is still the one that was read: etags
are content hashes, which makes equal contents equal versions. Each put may take
effect and lose its answer (`Answered`), each call may fail (`StoreError`), and a
process may stop at any step (`Crash`). When the object did not exist the code
puts without a condition, and so do `CreateLease` and `EtagMatches`.

`SegmentLog` is the log an operator of the system has in mind: whole batches
appended at the end at consecutive numbers, trimmed at the front only.
`ImplementsLog` says the manifest is such a log.

### S3WalEngine

One action per step of `mod.rs` between which another activity of the process, or
another process, can act. A process has four roles with locals of their own:
`write` (the coordinator), `flush`, `reap` and `poll`. Files are inodes, because
`atomic_replace_db_file` renames a new file over one that open connections still
use: a write that goes on in the old inode is then not in the path. A document is
the number of the write that made it; a job row maps a write to its failed
attempts. The poll's three awaited reads (jobs waiting, the remote current id, the id loaded)
are three steps (`PollCount`, `PollCurrent`, `PollCompare`), so that an earlier one may be
stale when it is used. A flush may fail at any of its statements (`FlushFails`): after the
batch was replicated the deletion of its rows may fail, and an attempt may go uncounted, so that
the batch is taken again. A Replicator call is atomic here, at its manifest put: that racing
calls behave so is what `Replicator` establishes. Its lease is left to chance: any
call of a process may be refused while other processes exist, which covers every
schedule of lease ownership and more.

### WriteQueue

Requests go from `dispatch_inner` to one of the three enqueue functions and may
come back: a full channel turns an `accepted` write into a `committed` one, a
closed channel sends `accepted` and `prepared` writes to a new generation and
makes a `committed` one run its handler itself (`Direct`), beside the
coordinator. The task of a generation receives, prepares (the overlay entry, then
the acknowledgment), applies, and clears the entry in two steps as
`clear_pending_if_current` does. Retirement is three steps: idle, close, forget
the generation; then the task drains what was sent before the close.
`GiveUp` is the gateway's time-out, which may hit a request that runs its handler
before or after the effect. `ReadRows` and `ReadOverlay` are the two reads of a
query by `_id`. A document is the set of writes it contains.

Simplifications: an upsert reads the clock just before its manifest put, here at
it; `write_mode = direct` has no queue and is left out; a batched insert's
previews are one entry; the commit and the WAL append of one handler are one step
in `WriteQueue` and separate in `S3WalEngine`.

### LocalEngine

One task is a request or a backup job. `get_conn` is the labels "lookup" (a hit in
`conns`), "evict", "lock" and "open": the per-database lock, the choice of a victim when the
pool is full, its removal, opening and insertion, each of which another task can come between.
A file is an inode whose content is the set of writes in it: a deleted file
lives on for the connections that have it open. A restore makes a new inode of the path: a
connection from before it is stale, as SQLite's is once the file was overwritten and its -wal and
-shm were unlinked under it (local.rs 231-244). What such a connection writes is counted
as lost, though the code may leave some of it in either file. `Coordinated` lets one
write or `delete_db` of a database in at a time; writes that fall back to direct execution, which
`QueueStaleSender` shows, would not be. The backup cycle keeps
`lastRun` and `mtime` in memory as the code does, writes a temporary dump and
renames it, and prunes by count. `min_interval` and `max_staleness` are one
setting in the code, so that its `skipped_unchanged` branch is unreachable and
has no counterpart.

### ReadCache

A key is the broadcast epoch and the epoch of the read's scope, read in two
steps, before the lookup and the SELECT. A write executes, bumps its scopes one
epoch at a time, and is answered. Rows are the number of the last change of
their part of the database, so that "fresh" is a comparison. Entries may expire
or be evicted at any time, which is a miss. All reads of a behaviour have one
scope, because a key names its scope and answers of two scopes never meet.

### DocumentStore and Documents

`DocumentStore` has the four tables and a statement or transaction as an operator
on them, triggers included: `WriteRow` counts by difference, `ArchiveAndDelete`
copies and removes, `RunOne` is one lifecycle transition. `Documents` has the
tasks: a handler runs alone (the coordinator) but stops between statements that
are not in one transaction (`change_namespace`, `rename_namespace`,
`recompute_stats`), where the reaper, the import worker and the admin worker may
act and the process may stop. JSON objects are sets of fields. `drift` records
that a counter was written by a statement that cannot know it (a byte count
summed before the rows moved, a recompute that another write overtakes), which
`CountersMatch` therefore leaves out.

### Jobs

Rows are numbered in order of creation. A worker of each kind picks the oldest
waiting row, claims it, and goes through its batches statement by statement:
read lines, apply the batch, persist the position, settle. Any statement may
fail, a worker may vanish (`process_loaded_db_jobs_bounded` drops the others'
tasks when one database's tick fails) and the process may stop. `applied` counts
the times each line was applied. An export pages by LIMIT and OFFSET through `table`, which other
requests write between any two pages and attempts (`WriteTable`); its parts lie under its
target path, so that exports to one path share them (`parts`), and so do leftovers.
`calm` remembers whether anything of that touched an export since it began: the code promises no
snapshot of the table, so `ExportWhole` asks only of calm exports.

### Identity

A request is its *script*, the sequence of its SQL statements. All tasks of a
database share one connection, so there is one open transaction at most, `owner`
says whose, and a statement of another task belongs to it: a rollback takes both
back. `inside` has the requests whose statement changed a row inside another's
transaction, and a request that ends in an error is not counted as answered. With a coordinator one
request runs beside the reaper; in `write_mode = direct` any number do.

### Json, Jql, Mutations

A filter is decided by three programs: the SQL that `jql.rs` compiles, the
matcher of positional updates and that of rows computed in Rust. `Compile`
gives the clause as the code builds it, without parentheses where it has none,
and `Eval` evaluates it with SQL's three values; json_each gives the elements of an array, the
values of an object and one row for a scalar (`EachRow`). `JsonFilterMatches` and
`RowFilterMatches` are the two matchers. The first decides "yes", "no" or "error": an
operator that does not apply to the value it finds refuses the whole update, and `WhileAll` stops at
the first such error in the order the code goes. `ApplyMutationPatch` is the mutation engine:
paths, operators, array filters. A document has at most the five fields of `Json`.

## 3. The runs

Properties of modules that share no state are checked together: `MCStorage`,
`MCLocalEngine`, `MCServices`,
`MCDatabase` and `MCProgress` hold instances of several modules and a variable
`part`. A behaviour runs the instance `part` names and leaves the variables of
the others at their initial values, so that the reachable states are the sum,
not the product, of those of the parts.

| Run | Parts and their instances | Shows |
|---|---|---|
| `ReplicatorWarm` | two processes, one call each; all four operations, batches of two records, a lease of 1 s that expires, snapshot cap 2 and age limit 1, compaction to 0 or 1 segments | types; contiguous manifest; listed segments stored; acknowledged appends kept; sound catalog; lease handed over only after expiry; the manifest implements `SegmentLog` |
| `Storage` | *queue*: three writes in every combination of acknowledgments, a channel of one slot, a reader, failures, time-outs, one lasting coordinator; *sync*: the S3 engine in sync mode with a polling follower and disk loss; *async*: with contention, retries and dead letters; *retries*: with idle close, eviction and failing calls; *jobs*: with idle close, eviction and the reaper, and no call that fails; *cold*: the first calls of the replicator for a database | types; handlers one at a time, in client order, covered by the overlay until durable; no write lost or applied twice; each replicated batch in the current snapshot; labels that match; records kept until replicated; listed objects stored (`ReplicationSafe` names for each mode what its code keeps) |
| `Services` | *queue*: three requests, one of them `delete_db`, coordinators that retire, time-outs (handlers fail in `Storage` and `Local`); *identity*: two requests in direct mode and the reaper; *updates*: two updates of each of four documents, whose items have numbers, arrays, a null and a scalar for an array, with every patch and filter of `MCMutations` | nothing lost or doubled when coordinators retire; tokens consumed once, one active, revoked for good; the three filter programs agree where the document says they do; a filter never reaches beyond its namespace; a mutation changes only its targets |
| `Progress` | *engine*: the flush loop, with failing calls; *backups*: two backups of a database that is written and restored; *documents*: transitions that are due; *identity*: timed statuses and the reaper; under fairness | each acknowledged write is replicated or dead-lettered, is in a snapshot that is labelled right and never overwritten, or keeps its row; each write that stays gets into a backup; due transitions and timed statuses end |
| `Local` | *pool*: three databases, one of which may be open, coordinated inserts, `delete_db` and idle closes; *mixed*: inserts, queries, `delete_db`, restores and backups of one database, as long as no write works on a stale connection (`OnCurrentFile`); *queue*: two writes, coordinators that retire, failures, time-outs, four generations, fairness | a bounded pool; answered writes found again, in their database or its archive; every write is answered and every queued write concludes |
| `Database` | *documents*: one document, two namespaces, a transition that succeeds or fails, a TTL, transactions of two operations, imports, recomputed statistics, process stops; *cache*: a reader of any scope and two writers | fresh cached reads; counters match the rows; a transition is applied once; deleted documents are archived or gone with their transitions; archived versions are kept |
| `JobsAll` | two jobs of four kinds, imports of three lines the last of them bad, exports, to one path, of three rows of a table that is written once meanwhile, batches of two, one retry | no line applied twice; a completed export that nothing disturbed is whole; a waiting job is taken up |
| `QueueReadPending` (violation) | a reader and writes by id | a query misses a write acknowledged before it began |
| `JobsOffset` (violation) | an import that fails and is continued | a failed job records an offset past lines it did not apply |
| `IdentityAcked` (violation) | a status update beside the reaper | a status update, answered, is rolled back with the reaper's transaction that its statement fell into |
| `FilterSiblings` (violation) | filters with `$or` | `$or` beside another field selects documents that fail the other field |
| `MutationsPatch` (violation) | `user_update.data` and `update` | a nested object is replaced where the documentation promises the same merge |

### Bounds and why they are enough

* `MaxTime`, `LeaseSecs = 1`: one tick expires a lease, and the clock stays
  behind at the task that read it earlier. Later ticks repeat this.
* `MaxSeq`: two batches, so that one append follows, races or retries another.
  Compaction and retention then have something to remove and something to keep.
* Two processes, and in `ReplicatorColdLease` two tasks of one: the code
  distinguishes only "my writer id" and "another".
* `MaxWrites = 2` in the engine: one write before and one during replication.
  `MaxAttempts = 2` has a failure that counts and one that makes a dead letter
  (the code's limit is larger). `Inodes`: the file, its replacement and one still
  open; an open that finds none free waits.
* `Capacity = 1`: full, empty and refilled while a sender waits.
* `MaxGens`: in `Local` four generations are all two requests can start (each looks a
  sender up at most twice),
  so that liveness does not depend on the bound; in `Services` two give one
  that retires or is forgotten while another lives.
* `ReplicatorWarm` starts with a lease object (`Warm`), and `WarmSpec` asks for it
  in every step: the unconditional first puts are part *cold* of `Storage`, and so
  cannot be missed in one run and hide in the other.
* *cache*: two changes, so that a read's key, SELECT and put can each fall before
  or after a bump; two writers, so that one write's bumps fall between another's.
* *pool*: one connection and three databases, so that every open evicts and two
  tasks can choose at once; `MaxRequests = 3`.
* *identity*: one user, kind, provider and two tokens at most; two requests and
  the reaper overlap in every order of their statements. `MaxNow = 1` expires.
* *updates*: two updates in sequence; each patch and filter has one operator or a
  nesting of two, `MaxItems = 2` has an item before and after.
* *documents*: four operations (`MaxKeys`) and one tick: attach, move, run and
  delete in every order. `JobsAll`: three lines in batches of two, so that a
  batch is full, partial, and fails at its end; one write of the table falls before, between and
  after pages. `MCJobs` cuts what makes no difference: a write of the table before an export
  began is another initial table, an import is resumable when it has a hash, and jobs of different
  kinds come in one order, since workers never look at another kind's.
* *mixed*: ages end at one second, when the next backup is due.
* Symmetry is by hand, since TLC's symmetry sets do not go with the sums. Requests
  of one mode are alike, as are the tasks of the pool, the identity slots, the
  writers of the cache and its two namespaces. `Ascending` and `Descending` keep one
  of each permutation of the modes, `InOrder` and `Alike` issue requests of one mode
  in order, `FreeTaskFirst`, `FreeSlotFirst` and `FreeWriterFirst` give the first of
  several free ones the work, and `scope # n2` reads only one of the namespaces.
* `CHECK_DEADLOCK FALSE` in all runs but `ReplicatorWarm`: when all requests are
  issued and answered the system rests.

### Fairness

* Flush loop: weak fairness of opening the database, of starting a flush and of its
  steps: the loop of `main.rs` ticks for ever, and each step is a
  future the runtime polls. Failing Replicator calls stay possible for ever, and `MAX_ATTEMPTS`
  bounds those. It does not bound the statements on the job rows themselves: reading them, deleting
  those of a replicated batch and counting an attempt may fail too (mod.rs 1141-1178) and leave rows
  pending with no attempt counted, so that the loop would go on for ever. These (`FlushFails`) are therefore
  assumed to fail finitely often. One process, so no
  lease conflicts: those do not count as attempts, and a database whose lease
  another process keeps renewing queues its jobs for as long.
* `WritesConclude` (`QueueFair` in `MCLocalEngine`): weak fairness of each request and of
  each task: they are spawned futures. Time-outs, idle timers and clients are not fair.
* Backups: weak fairness of a task's steps and of the clock, strong fairness of
  starting a backup, because requests may hold both task slots for a while, and
  backups fail only finitely often: a disk that fails for ever has no backup.
* Transitions: weak fairness of the clock, of `process_due`, of the runner's next
  document and of a handler that has started; stops are not taken in this part. That assumes of the
  tick that the database stays open and that no other database's error ends it first: it goes
  through the open databases in turn and returns at the first error (lifecycle_ops.rs 765-767).
* Timed statuses: weak fairness of the reaper, of each task's statements and of the clock; the process
  stops and statements fail only finitely often: the reaper rolls back on a
  failure and starts again at its next tick. The sweep of several databases ends with the first
  that fails (local.rs:134); the module has one.
* `JobsTakenUp`: weak fairness of each kind's tick, as `main.rs` 455-576 spawns them.

### What the violation runs and further counterexamples show

The five findings in `PROJECT.json` are disagreements between the code and what
its documentation promises. These configurations produce others the
same way and are kept beside them; each is expected to end with a violation:

| Configuration (module) | Property | What happens |
|---|---|---|
| `ReplicatorColdLease` (MCReplicator) | `SingleActiveWriter` | two writers that both find no lease object both put one and hold unexpired leases |
| the same | `SegmentsWhole` | two tasks of one process put different batches under one segment key; the listed one holds the batch that lost (replicator.rs:152). No code reads segment objects back |
| `EngineAsync` (MCS3WalEngine) | `SnapshotImmutable` | two snapshots of one second at one sequence number share an object |
| the same | `CheckpointPerBatch` | an older reaper snapshot is published over a flush snapshot |
| `EngineEviction` | `CheckpointPerBatch` | `append_records_for_db` skips the snapshot when the connection was evicted, and reports success |
| `EngineRemoteSync` | `CheckpointPerBatch` | the writer's own poll takes its newest snapshot for a foreign one and replaces the file under a running write |
| `EngineFollower` | `CheckpointPerBatch` | an async follower hydrates a snapshot that contains job rows, replicates them again and publishes its stale file |
| the same, and `EngineAsync` | `QueuedUntilReplicated` | the flush loop drains staged records and ignores that storing them failed |
| `QueueStaleSender` (MCWriteQueue) | `Serialized` | two committed writes that find a retired channel run beside each other |
| `QueueDeleteDb` | `Serialized` | the task that ran `delete_db` goes on beside the next generation |
| `CacheDeleted` (ReadCache) | `DeletedNotServed` | delete_db resets the epochs (state.rs:596) before it clears the cache: a read in between puts rows of the deleted database under a key that is current again |
| `LocalCleared` (MCLocalEngine) | `ActiveCapped` | the number of open connections exceeds the documented cap: checking it and inserting are two steps (local.rs:423, DOCUMENTATION.md:281) |
| the same | `ConnectionCleared` | delete_db answers while a pooled connection, opened by another request, has a file open that is at no path |
| `DocumentsRestore` (MCDocuments) | `VersionsIndependent` | restore_archive removes all versions of the id it restores (archive_ops.rs:416, DOCUMENTATION.md:346) |
| `JobsAbort` (MCJobs) | `AbortFinal` | the worker of an aborted job settles it, without looking at its status (DOCUMENTATION.md:847, 3765) |
| `JobsPacked` | `AppliedAtMostOnce` | an import from a .zst source that is continued applies all lines again |

A configuration with several properties stops at the first; removing that one shows the
others.

The passing parts of the engine therefore name the configurations in which the
promise does hold: sync mode without eviction or self-polling, async mode without
the reaper. Likewise `Serialized` and `OverlayCovers` hold with lasting
coordinators, `CachedFresh` without deletion, `AckedReachable` where no write works on a stale
connection and `AppliedAtMostOnce` for sources that are resumed by offset. The theorems say the same
as conditions on the states of a behaviour rather than by leaving operations out (section 4).

### Other observations

Met while modelling, and not the subject of a run:

* Plain updates, `set_ttl`, upsert's update path, `restore_archive`,
  `purge_archive` and `rename_namespace` do not call `append_wal_record`
  (DOCUMENTATION.md:5168). Reaper archives drop owner and metadata (reaper.rs:67).
* `list_transitions` filters on a column "namespace" its table lacks
  (lifecycle_ops.rs 450-512).
* A cached query is keyed by the epoch of its own namespace although it contains documents
  looked up in another (runtime_support.rs:530); `ReadCache` has reads of one scope.
* `metric_events_ops.rs` 907-940 builds the same unparenthesised `$or`; metric ingest
  bumps the broadcast epoch though DOCUMENTATION.md:628 says "not on every ingest".
* A job left `running` by a process that stopped is never claimed again; an
  import is marked completed before its cache invalidation (jobs_ops.rs 1663, 1679).
* Tokens can be created for soft-deleted users; an event logged after a commit
  may fail and turn a done request into an error.
* `$type: "string"` compiles to `json_type(json_extract(...))`, which SQLite
  answers with an error, and `boolean` never matches (DOCUMENTATION.md:2238).
* The compiled filter and the matcher of items differ on negations of missing fields, wildcard
  paths, `$exists` on null, `$ne` and `$nin` on null (SQL: unknown), array operators on a scalar (json_each
  takes it for an array of one element) and `$nincludes` on what is no array. `MatchersAgree` leaves these
  out (`Regular`, `Affirmative`, `Definite`, `LoneOrs` in `Mutations`) and, where the matcher refuses an
  update, asks nothing.

## 4. The proofs

**ReplicatorProofs** (with lemmas about manifests in ManifestProofs). For any
processes, tasks, batches, retention and lease duration, from
`ReplicatorAssumption` and the constants' assumptions of `Manifest`:

* `TypeCorrect`, `ManifestAlwaysContiguous`: no interleaving, lost answer or crash
  leaves a manifest with a gap, overlap or wrong count, also in a new database.
* `SegmentsAlwaysStored`: every segment the manifest lists has an object. That it holds the
  listed batch is not so, because the put is unconditional (`SegmentsWhole` above). `SegmentsStored`
  adds that the same holds of every manifest a task has loaded, however old, and that a
  task about to commit an append has put its object; no object is ever removed.
* `CatalogAlwaysSound`: `CatalogsSound` is the property of the stored manifest
  and of every loaded one. The catalog of a manifest is sorted, so that the limits of
  `upsert_snapshot` cut it at its old end and its current entry, put back, is in place.
* `LeaseHandover`, `ReplicatorImplementsLog`: in a database whose lease and
  manifest exist, the lease changes hands only after expiry, and every step of the
  manifest is a step of `SegmentLog` or a stutter.
* `AckedAppendsKept`: in such a database an append that reported success stays at
  its numbers until it is compacted away. `AppendsKept` adds that the
  list is in ascending order, so that a trimmed front is all that is missing below
  the watermark, and that a task that succeeded held a lease. Without a manifest at the
  start two first puts may each succeed, and one append is gone: `Warm` is needed.

`ManifestContiguous` is not inductive by itself: a commit writes what the task
computed from the manifest it *loaded*. `IInv` adds what each task knows at each
label: the loaded manifest is contiguous, a task past `ensure_lease` has a lease,
one about to renew either owns the lease it saw or saw it expired at `clock`,
`clock <= now`, and a compaction at its commit found more segments than it
retains. `Warm` adds that the unconditional puts are never reached. For the
refinement, a successful conditional put means the loaded manifest *is* the
stored one, so the lemmas about `WithSegment`, `WithSnapshot` and `Compacted`
give an `Append1`, a stutter and a `Trim`.

**WriteQueueProofs.** For any requests, documents, readers, capacity and number of
generations, from `WriteQueueAssumption`:

* `TypeCorrect`; `QueuedWorkKept` (`NothingLost`): with retirement, time-outs,
  failures and `delete_db`. `IInv` adds to the types where each request and task
  stands: a busy task holds an item, a request about to send holds a channel, and
  a task that is gone had closed its channel, so that no send can reach it.
* `WritesAppliedOnce` (`AppliedOnce`): with all of that too. `OncePlaced` says where a write
  is: with its request (`Fresh`: not sent yet, or answered with an error), in one
  place of one channel, in the hands of one task, or applied, and never two of
  these. What a fallback or a second attempt could duplicate is a write that a
  channel still has.
* `WritesSerialized` (`Serialized`), `PendingCovers` (`OverlayCovers`) and `WritesAppliedInOrder`
  (`AppliedInOrder`): `Spec /\ []NoStale => []P`, with retirement (which config.rs:455 always
  turns on), `delete_db`, full channels, failures and time-outs. `NoStale` is a condition on states: no request holds
  the sender of a generation that closed or that `write_queues` no longer names, and such a generation has
  an empty channel. It allows any number of generations one after the other; what it
  excludes is the lookup that races a retirement (`QueueStaleSender`) and writes
  queued behind a `delete_db` (`QueueDeleteDb`), with which TLC refutes the properties.
  `SteadyInv` says why the rest is safe: only the current generation works, no request runs its handler
  itself, what is durable has been applied, and an acknowledged write is covered while its entry
  waits to be cleared. `Ordered` says of a write and one that was acknowledged when it arrived that the
  earlier is never behind it, in the channel, between channel and task, or in what was applied.

**LocalEngineProofs.** For any databases, tasks, cap and settings, from
`LocalEngineAssumption`:

* `PoolAlwaysBounded` (`PoolBounded`). The bound is not inductive: a task that has
  found room opens its connection later. `Taken` counts the places in the pool together with those
  that the tasks at "open" and "insert" have coming. A task gets there only when it
  found a place free, at which moment all tasks together cannot take more than
  the bound; every other step leaves the count or lowers it.
* `AckedAlwaysReachable` (`AckedReachable`): `Spec /\ []OnCurrentFile => []AckedReachable` with
  every operation of the module at once: inserts, queries, `delete_db`, restores, backups, evictions and idle closes.
  Of the coordinator it assumes that it lets one write or `delete_db` of a database in at a time
  (`Coordinated`; the fallback of a stale sender breaks that). `OnCurrentFile` is a condition on
  states: a write or `delete_db` under way has the file at the path open. `Kept` relates the path, the pool and the
  tasks: the file at a path holds what was answered and is not archived; a `delete_db` past its archive has
  all of it there (`Archived`), and one writer is in a database at a time (`OneWriter`). The
  condition is tight: a query beside `delete_db` can open the file between archive and unlink and leave its
  connection in the pool (`ConnectionCleared`, `LocalCleared`); the next insert is answered from a file that
  is at no path.

**S3WalEngineProofs.** For any processes, clients, pollers, reapers, crashes, batches and failures, from
`EngineAssumption`. What replication keeps holds for a process `p` that is the only one to take
writes (`Single(p)`), in sync mode beside any number of followers that poll, in async mode alone; its reaper, idle
close and eviction run beside it. The theorems have the form `Spec /\ []Apart(p) => []P`.
`Apart(p)` is a condition on states: no snapshot call of the reaper overlaps a call of a write or of
the flush, and the connection is there when a snapshot is due after an append. Without the first,
`EngineAsync` publishes an older image; without the second, `EngineEviction` skips the snapshot; a writer
that polls itself is refuted by `EngineRemoteSync`.

* `TypeCorrect`: with types, that the manifest the engine sees has no gap.
* `CheckpointAlwaysPerBatch` (`CheckpointPerBatch`), `SnapshotsAlwaysStored` (`SnapshotsStored`): every
  batch that is done is in the current snapshot, and every snapshot the catalog lists, the reaper's
  included, has its object. `IInv(p)` adds to the types that nobody else appends (`Alone`), what is in the store for
  each step of an upload and deletion (`Stored`), and which file or staged copy covers the batch under way (`Covered`).
* `CheckpointAlwaysMatchesSeq` (`CheckpointMatchesSeq`), when the disk survives: the label of
  a snapshot is read after its bytes, so `Labelled(p)` says of each step between that the bytes
  hold the log up to the sequence number that will be read.
* `OnlyReapersOverwrite`: an id is a time and a sequence number, and `Fresh(p)` says that an append of
  the process comes before each snapshot but the reaper's, so that only an upload of the reaper can
  change a stored object. That it does is what `EngineAsync` shows of `SnapshotImmutable`.
* `QueuedAlwaysUntilReplicated` (`QueuedUntilReplicated`), in async mode for any number of processes, when
  SQLite is never busy, no follower polls and disks survive (`Stable`): an acknowledged write is in
  the log or has its job row in the file at the path. `RowsInv` says where a row is while its file is
  opened, staged, replicated and closed.

**JobsProofs.** For any number of jobs, lines, retries and any batch size, from
`JobsAssumption`:

* `LinesAppliedAtMostOnce` (`AppliedAtMostOnce`), with `Packed = FALSE`: an import applies no line twice,
  whatever fails, stops, is aborted, vanishes or is continued. The property says
  nothing of where a retry begins, so `IInv` does: a row's recorded offset is at or
  past every applied line while no worker has it (`OpenRows`), a worker's batch is what lies between
  its row's offset and its position (`Frontier`), only one worker has a row of a
  kind (`Taken`, `OwnKind`), and rows not yet made are untouched (`Unused`). The
  assumption is necessary: `JobsPacked` refutes the property without it.
* `CompletedExportsWhole` (`ExportWhole`), for any writes of the table, exports, shared target paths and
  leftovers: an export that was calm since it began holds each row of the table once and in order when it
  completes. `XInv` adds to `IInv` that recorded parts are in the types of the part store
  (`PartsTyped`), that while an export is calm the parts its row records hold its first `count` rows
  (`Paged`), whatever later parts a failed attempt left, and how far the worker that has it got (`Calm`): the batch
  it read is the next page, and a short batch is the last.

**DatabaseProofs.** Of `ReadCache`, for any namespaces, readers, writers and number of changes, from
`ReadCacheAssumption` and without `delete_db` (`Deletes = FALSE`):

* `ReadsAlwaysFresh` (`CachedFresh`): no read gets an answer from before a write that
  was answered when the read began. An answer is never removed, so the
  argument is about keys. `Superseded`: an answer in the cache, or about to be
  put there, that lacks an answered change has a key behind the epochs, and one
  that lacks a change still under way has such a key or the writer has an epoch of it
  still to bump. `Awaited`: what a read already has of its key is ahead of every
  answer older than its beginning. The two hold because epochs only grow, which
  `delete_db` breaks.

Of `Documents`, for any finite set of ids, any namespaces, names, inputs, batches, lifetimes and bounds, from
`DocumentsAssumption`:

* `TransitionsAppliedOnce` (`AppliedOnce`): a transition changes its document at most once.
  `Keyed` is why: a transition's key is its own and older than the next id, and one that was applied is
  `completed` wherever its row still is. Each statement then only lets transitions go or
  settles them (`Descend`: no completed one waits again), follows their document (`Follows`), or
  gives a new one the next key (`Attached`); a transaction and a restore are sequences of such
  statements (`Transacted`, `Restored`).
* `ArchiveAlwaysKept` (`ArchiveKept`): a version leaves the archive only by purge_archive, its expiry, or a
  restore that leaves the data of a version of that id in a live row. `OneRestored` says it of one version,
  `Restored` of any order of those selected.
* `CountersAlwaysMatch` (`CountersMatch`): unless `drift`, `stats` of every namespace is the count and the bytes of its
  live rows. The invariant is `Tally`, and each statement is shown to keep it (`Counts`):
  one row inserted or rewritten in its namespace (`InsertedCounts`, `WrittenCounts`), many deleted or
  patched (`DeletedCounts`, `UpdatedCounts`), rows moved to another namespace with the bytes they have
  (`MovedCounts`), counters recomputed (`RebuiltCounts`). All are cases of `Recounted`: rows leave a
  namespace or change, rows come or changed, and the counters move by the difference. A restore that
  replaces is counted when it leaves each row in its namespace (`Stays`), which is
  what `drift` of `RestoreArchive` says. The bytes are a sum over a set of rows, whose definition takes
  the rows in an order of its own; `SumExists` to `SumPlus` show that the order does not
  matter, by the smallest set for which it would (`SmallestSet`).

**IdentityProofs.** For any users, kinds, requests at a time, statuses and numbers of
tokens, with foreign keys or without, from the constants' assumptions of
`Identity`:

* `TokensConsumedOnce` (`ConsumedOnce`), `RevocationsAlwaysLast` (`RevocationsLast`) and
  `OneActiveToken` (`SingleActive`), all in direct mode, where any task's statement may fall into
  another's transaction and be rolled back with it.
* They follow from one invariant, `IInv`. `Control`: what is left of a task is the end of its
  script, and the transaction is open exactly while its owner is between BEGIN and
  COMMIT (`Within`). `Good(T, C, K)`: the tables T and C owe the tasks K what these have
  already decided to answer. A token whose consumption was answered or is under
  way is used or gone, one revoked likewise (`Owed`); a token not made yet is nowhere
  (`Unborn`); used tokens and logged events agree but for the one a task is about to
  log (`LoggedBut`); what a purge or a replacement has done by now is done (`Cleared`); and
  `SingleActive` holds of all tokens that may become active (`Ordered`). `Claims`: no two tasks
  are promised one consumption.
* The point of the invariant is its last part: what is read is `Good` for all tasks, and what is
  *committed* is `Good` for all tasks but the owner of the open transaction. A
  rollback takes the owner's promises with it, and no other task may have
  made one inside: consumption, revocation and creation are transactions, so that they wait for
  the open one. A status update is not, which is why `AckedPersisted` fails (`IdentityAcked`).

Each safety property was model-checked before it was proved, and so were the
inductive invariants, on instances of the size of the runs.
Where an argument goes by induction over a number (a batch, a list of parts), it takes the least counterexample
(`LeastNumber`, from the well-foundedness of `<` on the naturals), since the
library's induction theorems cannot be instantiated.

**Model-checked only:** liveness, which is beyond the proof system's reach, as is
ENABLED; `LeavesArchivedOrClean` of `Documents`, which is not true of every set of batches (a transaction that
replaces a document and then deletes it archives the replacement, not what was there before); what `Jql` and `Mutations` compute, which are recursive; and the
instance of `WriteQueue` in `Services` where coordinators retire, of which `NothingLost` and
`AppliedOnce` are proved but no order is promised. Each part of `ReplicationSafe` is an instance of a
theorem.

## 5. Not modelled, and what is left

Not modelled for good: HTTP routing and authentication, SQL text generation other than of
filters, configuration parsing, metrics counters, presigned URLs and multipart
transfer, password hashing, audit logs, the system catalog, automatic indexing, the admin UI: I/O, or
sequential code that unit tests reach.

Left out of modelled components: `write_mode = direct` of the queue; delete, clone, backup,
restore and offload of the S3 engine and the operations of `db_ops.rs` on them, which would
need its five activities and the coordinator in one instance; lookups, aggregation, sorting and pagination
(`build_offsets` may give a negative `prev_offset`); metric ingest and aggregation;
files; full-text jobs; schema migrations, which run once per open.

Next, in this order:

1. `Administration`: delete, restore, offload and clone over the state of
   `S3WalEngine`, beside the coordinator.
2. Cursor pagination and lookups against a reference definition.
3. An abstract serial store that `WriteQueue` implements in the steady
   configuration, as `SegmentLog` is for `Replicator`.
4. Theorems: `QueuedUntilReplicated` of `S3WalEngine` with contention in SQLite.
