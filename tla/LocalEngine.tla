------------------------------ MODULE LocalEngine ------------------------------
(****************************************************************************)
(* The local storage engine (storage/local.rs): database files, the pool of  *)
(* open connections with its least-recently-used eviction and idle close,    *)
(* the per-database initialisation lock, delete_db and restore_backup, and   *)
(* the automatic backup cycle with its in-memory memory of what it did.      *)
(*                                                                           *)
(* Every request first takes a connection (get_conn) and then runs on it.    *)
(* A file is a number (an inode): a deleted file lives on for the            *)
(* connections that have it open.  Its content is the set of writes in it.   *)
(****************************************************************************)
EXTENDS Integers, Sequences, FiniteSets, FiniteSetsExt, SequencesExt

CONSTANTS
  Dbs, Tasks,    \* databases; requests and backup jobs at a time
  MaxActive,     \* KOKOADB_MAX_ACTIVE_DBS
  Operations,    \* subset of {"insert", "query", "create_db", "delete_db", "restore_backup"}
  Coordinated,   \* the write coordinator runs: one write per database at a time
  IdleSecs,      \* db_idle_close_secs, 0: never
  BackupEvery,   \* KOKOADB_BACKUP_EVERY_SECS, 0: no automatic backups
  KeepCount,     \* retention: backups kept of each database
  MaxRequests,   \* bound: requests
  Faults,        \* a backup may fail
  None

LocalEngineAssumption ==
  /\ MaxActive \in Nat \ {0} /\ KeepCount \in Nat \ {0}
  /\ {IdleSecs, BackupEvery, MaxRequests} \subseteq Nat
  /\ {Coordinated, Faults} \subseteq BOOLEAN /\ IsFiniteSet(Dbs) /\ IsFiniteSet(Tasks)

VARIABLES
  file,     \* the file at each database's path, 0: none
  content,  \* the writes in each file ever created
  conns,    \* the pool: the file each pooled connection has open, None: not pooled
  idle,     \* last_accessed: seconds since, None: no entry
  locks,    \* init_locks: the number of each database's mutex
  task,
  requests, \* requests so far; a write is the number of its request
  lastRun,  \* backup_last_runs: seconds since, None: no entry
  mtime,    \* the file's mtime: it differs from backup_last_mtime; it is
            \* the current second, so that another write leaves it as it is
  backups,  \* backup files of each database, newest first
  acked,    \* history: answered writes of each file since its last restore
  archived  \* history: what the archive backup of delete_db has of each file

pool == <<conns, idle, locks>>
backup == <<lastRun, mtime, backups>>
vars == <<file, content, pool, task, requests, backup, acked, archived>>

Ages == 0..Max({IdleSecs, BackupEvery, 2})
Resting == [pc |-> "idle"]

Init ==
  /\ file = [d \in Dbs |-> 0] /\ content = <<>> /\ task = [t \in Tasks |-> Resting]
  /\ conns = [d \in Dbs |-> None] /\ idle = [d \in Dbs |-> None] /\ locks = [d \in Dbs |-> 0]
  /\ requests = 0 /\ lastRun = [d \in Dbs |-> None] /\ mtime = [d \in Dbs |-> [changed |-> TRUE, hot |-> FALSE]]
  /\ backups = [d \in Dbs |-> <<>>] /\ acked = <<>> /\ archived = <<>>

At(t, pc) == task[t].pc = pc
Goto(t, pc) == task' = [task EXCEPT ![t].pc = pc]
Finish(t) == task' = [task EXCEPT ![t] = Resting]
Pooled == {d \in Dbs : conns[d] # None}
Touch(d) == idle' = [idle EXCEPT ![d] = 0]
OnlyPool == UNCHANGED <<file, content, requests, backup, acked, archived>>
NoPool == UNCHANGED pool

------------------------------------------------------------------------------
(* Requests.  insert, import_jsonl and create_db may create the file.        *)

WritesDocuments == {"insert"}
Writes == {"insert", "delete_db"}
Creates == {"insert", "create_db"}
Task(op, d, n) == [pc |-> "lookup", op |-> op, db |-> d, n |-> n, stage |-> "before",
                   lock |-> 0, conn |-> None, victim |-> None, dump |-> {}]

StartRequest(t) ==
  /\ At(t, "idle") /\ requests < MaxRequests /\ requests' = requests + 1
  /\ \E op \in Operations, d \in Dbs :
       /\ op \in Writes /\ Coordinated =>
            \A u \in Tasks : task[u] # Resting /\ task[u].db = d => task[u].op \notin Writes
       /\ op = "delete_db" => file[d] # 0
       /\ task' = [task EXCEPT ![t] = Task(op, d, requests + 1)]
  /\ NoPool /\ UNCHANGED <<file, content, backup, acked, archived>>

------------------------------------------------------------------------------
(* get_conn.  A pooled connection is used as it is; otherwise room is made,  *)
(* the database's mutex taken, the pool looked up and room made again.       *)

Db(t) == task[t].db
Found(t) == /\ conns[Db(t)] # None /\ Touch(Db(t))
            /\ task' = [task EXCEPT ![t].pc = "run", ![t].conn = conns[Db(t)]]
            /\ UNCHANGED <<conns, locks>> /\ OnlyPool
Lookup(t) ==
  \/ At(t, "lookup") /\ Found(t)
  \/ /\ At(t, "lookup") /\ conns[Db(t)] = None
     /\ Goto(t, "evict") /\ NoPool /\ OnlyPool

AfterEviction(t) == IF task[t].stage = "before" THEN "lock" ELSE "open"
FullOffByOne == Cardinality(Pooled) > MaxActive
Full == Cardinality(Pooled) >= MaxActive

(* The least recently used of the pooled connections, or any one of them     *)
(* when none has an entry in last_accessed.                                  *)
Victims(opening) ==
  LET known == {d \in Pooled \ {opening} : idle[d] # None}
  IN IF known = {} THEN Pooled \ {opening}
     ELSE {d \in known : \A e \in known : idle[e] <= idle[d]}

EvictLruIfNeeded(t) ==
  /\ At(t, "evict") /\ NoPool /\ OnlyPool
  /\ \/ (Db(t) \in Pooled \/ ~Full) /\ Goto(t, AfterEviction(t))
     \/ /\ Db(t) \notin Pooled /\ Full
        /\ \E v \in Victims(Db(t)) : task' = [task EXCEPT ![t].pc = "close", ![t].victim = v]
CloseVictim(t) ==
  /\ At(t, "close") /\ conns' = [conns EXCEPT ![task[t].victim] = None]
  /\ Goto(t, "forget") /\ UNCHANGED <<idle, locks>> /\ OnlyPool
(* Still full: the request is answered with an error. *)
ForgetVictim(t) ==
  /\ At(t, "forget") /\ idle' = [idle EXCEPT ![task[t].victim] = None]
  /\ IF Full \/ task[t].op = "close_idle" THEN Finish(t)
     ELSE task' = [task EXCEPT ![t].pc = AfterEviction(t), ![t].victim = None]
  /\ UNCHANGED <<conns, locks>> /\ OnlyPool

Holding(t) == task[t] # Resting /\ task[t].stage = "after"
TakeLock(t) ==
  /\ At(t, "lock")
  /\ \A u \in Tasks \ {t} : ~(Holding(u) /\ Db(u) = Db(t) /\ task[u].lock = locks[Db(t)])
  /\ task' = [task EXCEPT ![t].pc = "recheck", ![t].stage = "after", ![t].lock = locks[Db(t)]]
  /\ NoPool /\ OnlyPool
Recheck(t) ==
  \/ /\ At(t, "recheck") /\ conns[Db(t)] # None /\ Touch(Db(t))
     /\ task' = [task EXCEPT ![t].pc = "run", ![t].conn = conns[Db(t)], ![t].stage = "done"]
     /\ UNCHANGED <<conns, locks>> /\ OnlyPool
  \/ /\ At(t, "recheck") /\ conns[Db(t)] = None /\ Goto(t, "evict") /\ NoPool /\ OnlyPool

MayOpen(t) == file[Db(t)] # 0 \/ task[t].op \in Creates
OpenRefused(t) == At(t, "open") /\ ~MayOpen(t) /\ Finish(t) /\ NoPool /\ OnlyPool
Open(t) ==
  /\ At(t, "open") /\ MayOpen(t) /\ NoPool /\ UNCHANGED <<requests, backup>>
  /\ IF file[Db(t)] # 0
     THEN /\ task' = [task EXCEPT ![t].pc = "insert", ![t].conn = file[Db(t)]]
          /\ UNCHANGED <<file, content, acked, archived>>
     ELSE LET new == Len(content) + 1 IN
          /\ file' = [file EXCEPT ![Db(t)] = new]
          /\ content' = Append(content, {}) /\ acked' = Append(acked, {})
          /\ archived' = Append(archived, {})
          /\ task' = [task EXCEPT ![t].pc = "insert", ![t].conn = new]
InsertConn(t) ==
  /\ At(t, "insert") /\ Touch(Db(t)) /\ conns' = [conns EXCEPT ![Db(t)] = task[t].conn]
  /\ task' = [task EXCEPT ![t].pc = "run", ![t].stage = "done"]
  /\ UNCHANGED locks /\ OnlyPool

------------------------------------------------------------------------------
(* The request runs on its connection, in the pool or not, and its file, at  *)
(* the database's path or not.                                               *)

Run(t, op) == At(t, "run") /\ task[t].op = op
Modified(d) == mtime' = [mtime EXCEPT ![d] = [changed |-> @.changed \/ ~@.hot, hot |-> TRUE]]

Query(t) == Run(t, "query") /\ Finish(t) /\ NoPool /\ OnlyPool
CreateDb(t) == Run(t, "create_db") /\ Finish(t) /\ NoPool /\ OnlyPool
Insert(t) ==
  /\ Run(t, "insert") /\ Finish(t)
  /\ LET f == task[t].conn IN
       /\ content' = [content EXCEPT ![f] = @ \cup {task[t].n}]
       /\ acked' = [acked EXCEPT ![f] = @ \cup {task[t].n}]
       /\ IF file[Db(t)] = f THEN Modified(Db(t)) ELSE UNCHANGED mtime
  /\ NoPool /\ UNCHANGED <<file, requests, lastRun, backups, archived>>

(* delete_db: the archive backup, then the pool and what is remembered of    *)
(* the database, then the file.                                              *)
ArchiveBackup(t) ==
  /\ Run(t, "delete_db") /\ Goto(t, "remove") /\ NoPool
  /\ archived' = [archived EXCEPT ![task[t].conn] = content[task[t].conn]]
  /\ UNCHANGED <<file, content, requests, backup, acked>>
RemoveConn(t) ==
  /\ At(t, "remove") /\ conns' = [conns EXCEPT ![Db(t)] = None]
  /\ Goto(t, IF task[t].op = "delete_db" THEN "clear" ELSE "overwrite")
  /\ UNCHANGED <<idle, locks>> /\ OnlyPool
ClearEntries(t) ==
  /\ At(t, "clear") /\ Goto(t, "unlink")
  /\ idle' = [idle EXCEPT ![Db(t)] = None] /\ locks' = [locks EXCEPT ![Db(t)] = @ + 1]
  /\ lastRun' = [lastRun EXCEPT ![Db(t)] = None]
  /\ mtime' = [mtime EXCEPT ![Db(t)].changed = TRUE]
  /\ UNCHANGED <<conns, file, content, requests, backups, acked, archived>>
Unlink(t) ==
  /\ At(t, "unlink") /\ Finish(t) /\ file' = [file EXCEPT ![Db(t)] = 0]
  /\ NoPool /\ UNCHANGED <<content, requests, backup, acked, archived>>

(* restore_backup: the pooled connection is closed, the file overwritten, its *)
(* -wal and -shm unlinked and the database opened again.  A connection held   *)
(* from before goes on with the unlinked log, where nobody else finds what it *)
(* writes: to the others, and in the model, the restored file is a new one.   *)
RestoreSource(t) ==
  /\ Run(t, "restore_backup") /\ NoPool /\ OnlyPool
  /\ \/ backups[Db(t)] = <<>> /\ Finish(t)
     \/ \E i \in DOMAIN backups[Db(t)] :
          task' = [task EXCEPT ![t].pc = "remove", ![t].dump = backups[Db(t)][i]]
Overwrite(t) ==
  LET f == file[Db(t)] IN
  /\ At(t, "overwrite") /\ NoPool
  /\ task' = [task EXCEPT ![t] = Task("query", Db(t), @.n)]
  /\ file' = [file EXCEPT ![Db(t)] = Len(content) + 1]
  /\ content' = Append(content, task[t].dump) /\ archived' = Append(archived, {})
  /\ acked' = Append([g \in DOMAIN acked |-> IF g = f THEN {} ELSE acked[g]], task[t].dump)
  /\ Modified(Db(t)) /\ UNCHANGED <<requests, lastRun, backups>>

------------------------------------------------------------------------------
(* run_auto_backup_cycle: databases backed up less than BackupEvery seconds  *)
(* ago are left alone, the others taken when changed or stale; BackupEvery   *)
(* is both the minimal interval and the maximal staleness.                   *)

Recent(d) == lastRun[d] \in {a \in Ages : a < BackupEvery}
StaleUnknown(d) == lastRun[d] \in {None}
Stale(d) == lastRun[d] \in {a \in Ages : a >= BackupEvery} \cup {None}
StartBackup(t, d) ==
  /\ BackupEvery > 0 /\ At(t, "idle") /\ file[d] # 0
  /\ \A u \in Tasks : task[u] # Resting => ~(Db(u) = d /\ task[u].op = "backup")
  /\ ~Recent(d) /\ (mtime[d].changed \/ Stale(d))
  /\ task' = [task EXCEPT ![t] = Task("backup", d, 0)]
  /\ NoPool /\ OnlyPool
DumpDb(t) ==
  /\ Run(t, "backup") /\ NoPool /\ OnlyPool
  /\ task' = [task EXCEPT ![t].pc = "store", ![t].dump = content[task[t].conn]]
BackupFails(t) == Faults /\ (Run(t, "backup") \/ At(t, "store")) /\ task[t].op = "backup"
                  /\ Finish(t) /\ NoPool /\ OnlyPool
StoreBackup(t) ==
  /\ At(t, "store") /\ Goto(t, "record") /\ NoPool
  /\ backups' = [backups EXCEPT ![Db(t)] = <<task[t].dump>> \o @]
  /\ UNCHANGED <<file, content, requests, lastRun, mtime, acked, archived>>
PruneBackupEntries(list) == SubSeq(list, 1, Min({KeepCount, Len(list)}))
(* What was done is remembered, and the oldest backups are removed. *)
RecordBackup(t) ==
  /\ At(t, "record") /\ Finish(t) /\ NoPool
  /\ lastRun' = [lastRun EXCEPT ![Db(t)] = task[t].n]
  /\ mtime' = [mtime EXCEPT ![Db(t)].changed = FALSE]
  /\ backups' = [backups EXCEPT ![Db(t)] = PruneBackupEntries(@)]
  /\ UNCHANGED <<file, content, requests, acked, archived>>

------------------------------------------------------------------------------
(* close_idle_dbs, and the clock.                                            *)

CloseIdle(t) ==
  /\ IdleSecs > 0 /\ At(t, "idle") /\ NoPool /\ OnlyPool
  /\ \A u \in Tasks : task[u] # Resting => task[u].op # "close_idle"
  /\ \E d \in Dbs : /\ idle[d] # None /\ idle[d] >= IdleSecs
                    /\ task' = [task EXCEPT ![t] = [Task("close_idle", d, 0) EXCEPT !.pc = "close", !.victim = d]]

Older(age) == IF age = None THEN None ELSE Min({age + 1, Max(Ages)})
Tick ==
  /\ idle' = [d \in Dbs |-> Older(idle[d])] /\ lastRun' = [d \in Dbs |-> Older(lastRun[d])]
  /\ mtime' = [d \in Dbs |-> [mtime[d] EXCEPT !.hot = FALSE]]
  /\ task' = [t \in Tasks |-> IF task[t] # Resting /\ task[t].op = "backup"
                              THEN [task[t] EXCEPT !.n = Older(@)] ELSE task[t]]
  /\ UNCHANGED <<file, content, conns, locks, requests, backups, acked, archived>>

Step(t) ==
  \/ Lookup(t) \/ EvictLruIfNeeded(t) \/ CloseVictim(t) \/ ForgetVictim(t) \/ TakeLock(t) \/ Recheck(t)
  \/ OpenRefused(t) \/ Open(t) \/ InsertConn(t) \/ Query(t) \/ CreateDb(t) \/ Insert(t)
  \/ ArchiveBackup(t) \/ RemoveConn(t) \/ ClearEntries(t) \/ Unlink(t) \/ RestoreSource(t) \/ Overwrite(t)
  \/ DumpDb(t) \/ StoreBackup(t) \/ RecordBackup(t)
Next ==
  \/ \E t \in Tasks : Step(t) \/ StartRequest(t) \/ BackupFails(t) \/ CloseIdle(t)
  \/ \E t \in Tasks, d \in Dbs : StartBackup(t, d)
  \/ Tick

Spec == Init /\ [][Next]_vars

(* The backup loop and the tokio timer run on; a failing disk recovers.      *)
Fairness ==
  /\ \A t \in Tasks : WF_vars(Step(t))
  /\ \A d \in Dbs : SF_vars(\E t \in Tasks : StartBackup(t, d))
  /\ WF_vars(Tick)
  /\ <>[][\A t \in Tasks : ~BackupFails(t)]_vars

------------------------------------------------------------------------------
(* Properties                                                                *)

TypeOK ==
  /\ file \in [Dbs -> 0..Len(content)] /\ conns \in [Dbs -> 1..Len(content) \cup {None}]
  /\ idle \in [Dbs -> Ages \cup {None}] /\ lastRun \in [Dbs -> Ages \cup {None}]
  /\ Len(acked) = Len(content) /\ Len(archived) = Len(content)
  /\ \A d \in Dbs : Len(backups[d]) <= KeepCount + 1

(* The check for room and the insertion into the pool are apart: requests    *)
(* that open different databases at once pass MaxActive, by one connection   *)
(* each and no more, and however long that goes on.                          *)
PoolBounded == Cardinality(Pooled) <= MaxActive + Cardinality(Tasks) - 1

(* KOKOADB_MAX_ACTIVE_DBS caps how many databases stay open. *)
ActiveCapped == Cardinality(Pooled) <= MaxActive

(* A write or a delete_db under way has the file at its database's path open: *)
(* none of them holds a connection to a file deleted or restored under it.    *)
OnCurrentFile == \A t \in Tasks :
  task[t].pc \in {"run", "remove", "clear", "unlink"} /\ task[t].op \in Writes
    => task[t].conn = file[Db(t)]

(* Every answered write is in the file at its database's path or, when that  *)
(* file was deleted, in the archive backup that delete_db made of it first.  *)
(* (A write on a stale connection, of which LocalCleared has a trace, is in   *)
(* neither: this is claimed as long as OnCurrentFile holds.)                  *)
AckedReachable == \A f \in DOMAIN acked :
  acked[f] \subseteq (IF \E d \in Dbs : file[d] = f THEN content[f] ELSE archived[f])

(* Once delete_db is done its database's connection is cleared: no pooled    *)
(* connection has a file open that is at no path any more.                   *)
ConnectionCleared == \A d \in Dbs :
  (\A t \in Tasks : task[t] # Resting => ~(task[t].op = "delete_db" /\ Db(t) = d))
    => conns[d] \in {None, file[d]}

(* A write is in the newest backup in the end, however it falls between the  *)
(* dump of a backup and the reading of the mtime that marks it as done.      *)
WritesBackedUp == \A d \in Dbs, n \in 1..MaxRequests :
  LET Live == file[d] # 0 /\ n \in content[file[d]]
  IN Live ~> (~Live \/ (backups[d] # <<>> /\ n \in backups[d][1]))
===============================================================================
