--------------------------------- MODULE Jobs ---------------------------------
(****************************************************************************)
(* The background jobs of ONE database (jobs_ops.rs): rows of __kdb_jobs     *)
(* that requests queue, continue and abort through the write coordinator,    *)
(* and that one worker per kind claims, works off and settles, a statement   *)
(* at a time, on a task of its own.                                          *)
(*                                                                           *)
(* An import reads numbered lines and applies them in batches; an export     *)
(* pages through the table as it is at each page, writes the pages as parts  *)
(* beside its target path and joins the parts in the end; the other kinds    *)
(* (backup, and "admin": vacuum, statistics, full-text index) are one step.  *)
(****************************************************************************)
EXTENDS Integers, Sequences, FiniteSets, FiniteSetsExt, SequencesExt

CONSTANTS
  MaxJobs,    \* bound: jobs ever queued; a job is the number of its creation
  Kinds,      \* subset of {"import", "export", "backup", "admin"}
  Hashes,     \* source hashes of imports
  Lines,      \* lines of an import source
  BadLines,   \* those that are not JSON objects
  Packed,     \* the source is .zst: read from its start, resumed by line
  Rows,       \* rows of the exported table at first
  MaxEdits,   \* bound: writes to it
  Paths,      \* target paths of exports
  BatchSize,  \* batch_size, export_batch_size
  Faults,     \* statements and object-store calls may fail
  Crashes,    \* the process stops, or a failing database cancels the tick
  MaxRetries, \* bound: continue_job requests
  None

ASSUME JobsAssumption ==
  /\ MaxJobs \in Nat \ {0} /\ Lines \in Nat /\ MaxRetries \in Nat
  /\ Rows \in Nat /\ MaxEdits \in Nat
  /\ BatchSize \in Nat \ {0} /\ BadLines \subseteq 1..Lines
  /\ Kinds \subseteq {"import", "export", "backup", "admin"}
  /\ {Packed, Faults, Crashes} \subseteq BOOLEAN

VARIABLES
  jobs,      \* __kdb_jobs
  worker,    \* per kind, the locals of its tick
  abort,     \* abort_import, abort_export between its SELECT and its UPDATE
  table,     \* the rows exports select, in their order
  edits,     \* writes to them so far
  parts,     \* per target path, its part objects by number
  target,    \* the object at each target path; None: missing or unfinished
  made,      \* jobs created so far
  retries,   \* continue_job requests so far
  applied,   \* history: how often each import applied each line
  calm       \* history: nothing else touched the table, or the path, of the
             \* export since it began

Exports == <<table, edits, parts, target, calm>>
vars == <<jobs, worker, abort, Exports, made, retries, applied>>

Ids == 1..MaxJobs
Statuses == {"queued", "running", "retrying", "completed", "failed", "aborted"}
Waiting == {"queued", "retrying"}
Settled == {"completed", "failed", "aborted"}
Row == [kind : {"import", "export", "backup", "admin"}, hash : Hashes \cup {None},
        resumable : BOOLEAN, status : Statuses,
        line : Nat, off : 0..Lines, path : Paths \cup {None}, count : Nat, parts : Nat]
Resting == [pc |-> "idle"]

Init ==
  /\ jobs = [i \in Ids |-> None] /\ worker = [k \in Kinds |-> Resting] /\ abort = None
  /\ table = [n \in 1..Rows |-> n] /\ edits = 0
  /\ parts = [p \in Paths |-> <<>>] /\ target = [p \in Paths |-> None]
  /\ made = 0 /\ retries = 0 /\ applied = [i \in Ids |-> [l \in 1..Lines |-> 0]]
  /\ calm = [i \in Ids |-> TRUE]

Stored == {i \in Ids : jobs[i] # None}
SetStatus(i, s) == [jobs EXCEPT ![i].status = s]
OnlyJobs == UNCHANGED <<worker, Exports, applied>>

------------------------------------------------------------------------------
(* Requests.  A handler of two statements holds in abort what it read.       *)

Enqueue(kind, hash, resumable, path) ==
  /\ kind \in Kinds /\ abort = None /\ made < MaxJobs
  /\ made' = made + 1
  /\ jobs' = [jobs EXCEPT ![made + 1] =
       [kind |-> kind, hash |-> hash, resumable |-> resumable, status |-> "queued",
        line |-> 0, off |-> 0, path |-> path, count |-> 0, parts |-> 0]]
  /\ OnlyJobs /\ UNCHANGED <<abort, retries>>

(* A source that is queued, running or done is answered with its job. *)
Duplicate(hash) ==
  \E i \in Stored : /\ jobs[i].kind = "import" /\ jobs[i].hash = hash
                    /\ jobs[i].status \in Waiting \cup {"running", "completed"}
ImportJsonl ==
  \E hash \in Hashes \cup {None}, resumable \in BOOLEAN :
    /\ ~(hash # None /\ Duplicate(hash))
    /\ Enqueue("import", hash, resumable, None)
ExportJsonl == \E path \in Paths : Enqueue("export", None, TRUE, path)
CreateBackup == Enqueue("backup", None, TRUE, None)
EnqueueAdminJob == Enqueue("admin", None, TRUE, None)

ContinueJob ==
  /\ abort = None /\ retries < MaxRetries
  /\ \E i \in Stored :
       /\ jobs[i].status = "failed" /\ jobs[i].kind # "backup"
       /\ jobs[i].kind = "import" => jobs[i].resumable
       /\ jobs' = SetStatus(i, IF jobs[i].kind = "admin" THEN "queued" ELSE "retrying")
  /\ retries' = retries + 1
  /\ OnlyJobs /\ UNCHANGED <<abort, made>>

(* abort_job of a backup or an admin job: one guarded UPDATE. *)
AbortGuarded ==
  /\ abort = None
  /\ \E i \in Stored :
       /\ jobs[i].kind \in {"backup", "admin"}
       /\ jobs[i].status \in Waiting \cup {"failed"}
       /\ jobs' = SetStatus(i, "aborted")
  /\ OnlyJobs /\ UNCHANGED <<abort, made, retries>>

(* abort_import, abort_export: the status is read, then overwritten. *)
AbortRead ==
  /\ abort = None
  /\ \E i \in Stored :
       /\ jobs[i].kind \in {"import", "export"} /\ jobs[i].status \notin {"completed", "aborted"}
       /\ abort' = i
  /\ OnlyJobs /\ UNCHANGED <<jobs, made, retries>>
AbortWrite ==
  /\ abort # None
  /\ jobs' = IF jobs[abort] = None THEN jobs ELSE SetStatus(abort, "aborted")
  /\ abort' = None
  /\ OnlyJobs /\ UNCHANGED <<made, retries>>

------------------------------------------------------------------------------
(* A tick of the worker of kind k. *)

Is(k, l) == worker[k].pc = l
Go(k, new) == worker' = [worker EXCEPT ![k] = new]
Work(k, l) == Go(k, [worker[k] EXCEPT !.pc = l])
Requests == <<abort, made, retries>>

(* cleanup_import_jobs_for_db, cleanup_export_jobs_for_db, at the tick's start *)
Cleanup(k) ==
  /\ k \in {"import", "export"} /\ Is(k, "idle")
  /\ \E i \in Stored : /\ jobs[i].kind = k /\ jobs[i].status \in Settled
                       /\ jobs' = [jobs EXCEPT ![i] = None]
  /\ OnlyJobs /\ UNCHANGED Requests

(* What continue_job reopened is not looked for. *)
OldestQueued(k) == {i \in Stored : jobs[i].kind = k /\ jobs[i].status = "queued"}
Oldest(k) == {i \in Stored : jobs[i].kind = k /\ jobs[i].status \in Waiting}
Pick(k) ==
  /\ Is(k, "idle")
  /\ \E i \in Oldest(k) :
       /\ \A j \in Oldest(k) : i <= j
       /\ Go(k, [pc |-> "claim", id |-> i, line |-> jobs[i].line, from |-> jobs[i].line,
                  pos |-> IF Packed THEN 0 ELSE jobs[i].off,
                  off |-> IF Packed THEN 0 ELSE jobs[i].off,
                  path |-> jobs[i].path, count |-> jobs[i].count, parts |-> jobs[i].parts, batch |-> <<>>])
  /\ UNCHANGED <<jobs, Exports, applied, Requests>>

Claimable(i) == jobs[i] # None /\ jobs[i].status \in Waiting
Claim(k) ==
  /\ Is(k, "claim")
  /\ IF Claimable(worker[k].id)
     THEN jobs' = SetStatus(worker[k].id, "running") /\ Work(k, k)
     ELSE Go(k, Resting) /\ UNCHANGED jobs
  /\ UNCHANGED <<Exports, applied, Requests>>

(* The UPDATE that settles the job has no condition on its status.           *)
Settle(k, s, row) ==
  /\ jobs' = IF jobs[worker[k].id] = None THEN jobs
             ELSE [jobs EXCEPT ![worker[k].id] = [row EXCEPT !.status = s]]
  /\ Go(k, Resting)
  /\ UNCHANGED <<Exports, applied, Requests>>
Claimed(k) == jobs[worker[k].id]

(* The line number is recorded, the offset is not. *)
PositionLineOnly(r) == [r EXCEPT !.line = worker["import"].line]

(* An import that fails records where it stands, an export does not. *)
Position(r) == [r EXCEPT !.line = worker["import"].line, !.off = worker["import"].off]
Exported(r) == [r EXCEPT !.count = worker["export"].count, !.parts = worker["export"].parts]
FailJob(k) ==
  Settle(k, "failed", IF k = "import" THEN Position(Claimed(k)) ELSE Claimed(k))

------------------------------------------------------------------------------
(* process_next_import_job_for_db, process_local_jsonl_file,                 *)
(* process_s3_jsonl_stream.                                                  *)

(* A line is counted, then decoded; a packed source passes over those up to  *)
(* the recorded one, by the counter that started there.                      *)
ReadLine ==
  LET w == worker["import"]
      l == w.pos + 1
      read == [w EXCEPT !.pos = l, !.off = @ + 1, !.line = @ + 1]
      full == Append(w.batch, l)
  IN
  /\ Is("import", "import") /\ w.pos < Lines
  /\ Go("import",
        IF Packed /\ read.line <= w.from THEN read
        ELSE IF l \in BadLines THEN [read EXCEPT !.pc = "fail"]
        ELSE [read EXCEPT !.batch = full,
                          !.pc = IF Len(full) >= BatchSize THEN "apply" ELSE "import"])
  /\ UNCHANGED <<jobs, Exports, applied, Requests>>
EndOfSource ==
  LET w == worker["import"] IN
  /\ Is("import", "import") /\ w.pos = Lines
  /\ Work("import", IF w.batch = <<>> THEN "complete" ELSE "apply last")
  /\ UNCHANGED <<jobs, Exports, applied, Requests>>

(* apply_import_batch is one transaction. *)
ApplyBatch ==
  LET w == worker["import"] IN
  /\ worker["import"].pc \in {"apply", "apply last"}
  /\ applied' = [applied EXCEPT ![w.id] = [l \in 1..Lines |->
                   @[l] + (IF l \in ToSet(w.batch) THEN 1 ELSE 0)]]
  /\ Go("import", [w EXCEPT !.batch = <<>>,
                            !.pc = IF w.pc = "apply" THEN "persist" ELSE "complete"])
  /\ UNCHANGED <<jobs, Exports, Requests>>

(* persist_import_progress *)
PersistProgress ==
  /\ Is("import", "persist")
  /\ jobs' = IF jobs[worker["import"].id] = None THEN jobs
             ELSE [jobs EXCEPT ![worker["import"].id] = Position(@)]
  /\ Work("import", "import")
  /\ UNCHANGED <<Exports, applied, Requests>>
ImportDone == Is("import", "complete") /\ Settle("import", "completed", Position(Claimed("import")))

(* What may fail does; a line that does not decode always does. *)
ImportFails ==
  /\ \/ Is("import", "fail")
     \/ Faults /\ worker["import"].pc \in {"import", "apply", "apply last", "persist"}
  /\ FailJob("import")

------------------------------------------------------------------------------
(* process_next_export_job_for_db                                            *)

(* An attempt is under way, or an earlier one recorded parts. *)
Begun(i) ==
  \/ jobs[i] # None /\ jobs[i].parts > 0
  \/ \E k \in Kinds \cap {"export"} : ~Is(k, "idle") /\ worker[k].id = i
Disturb(these) == calm' = [i \in Ids |-> calm[i] /\ ~(i \in these /\ Begun(i))]

(* Another request inserts, replaces or deletes a row. *)
WriteTable ==
  LET row == Rows + edits + 1 IN
  /\ edits < MaxEdits /\ edits' = edits + 1
  /\ \/ \E at \in 1..(Len(table) + 1) : table' = InsertAt(table, at, row)
     \/ \E at \in 1..Len(table) : table' \in {ReplaceAt(table, at, row), RemoveAt(table, at)}
  /\ Disturb(Ids)
  /\ UNCHANGED <<jobs, worker, parts, target, applied, Requests>>

(* SELECT ... LIMIT BatchSize OFFSET from: the table as it is now. *)
Page(from) == SubSeq(table, from + 1, Min({from + BatchSize, Len(table)}))
ExportBatch ==
  LET w == worker["export"] IN
  /\ Is("export", "export")
  /\ Go("export", IF w.count >= Len(table) THEN [w EXCEPT !.pc = "finalize"]
                  ELSE [w EXCEPT !.pc = "part", !.batch = Page(w.count)])
  /\ UNCHANGED <<jobs, Exports, applied, Requests>>

(* Parts are named by the target path, whichever export writes them. *)
Sharing(w) == {i \in Stored \ {w.id} : jobs[i].path = w.path}

PartNumberKept(w) == w.parts
PartNumber(w) == w.parts + 1

(* write_export_part: an object of that number is replaced. *)
WritePart ==
  LET w == worker["export"]
      n == PartNumber(w)
  IN
  /\ Is("export", "part")
  /\ parts' = [parts EXCEPT ![w.path] =
       [p \in DOMAIN @ \cup {n} |-> IF p = n THEN w.batch ELSE @[p]]]
  /\ Go("export", [w EXCEPT !.pc = "progress", !.parts = n, !.count = @ + Len(w.batch)])
  /\ Disturb(Sharing(w))
  /\ UNCHANGED <<jobs, table, edits, target, applied, Requests>>
ExportProgress ==
  LET w == worker["export"] IN
  /\ Is("export", "progress")
  /\ jobs' = IF jobs[w.id] = None THEN jobs ELSE [jobs EXCEPT ![w.id] = Exported(@)]
  /\ Go("export", [w EXCEPT !.batch = <<>>,
                            !.pc = IF Len(w.batch) < BatchSize THEN "finalize" ELSE "export"])
  /\ UNCHANGED <<Exports, applied, Requests>>

(* finalize_export_target: a file is emptied before it is filled; the parts  *)
(* are joined and removed.                                                   *)
OpenTarget ==
  LET w == worker["export"] IN
  /\ Is("export", "finalize") /\ w.parts > 0 /\ target[w.path] # None
  /\ target' = [target EXCEPT ![w.path] = None]
  /\ UNCHANGED <<jobs, worker, table, edits, parts, calm, applied, Requests>>
PartMissing(w) == ~(1..w.parts \subseteq DOMAIN parts[w.path])
FinalizeExport ==
  LET w == worker["export"] IN
  /\ Is("export", "finalize") /\ ~PartMissing(w)
  /\ target' = [target EXCEPT ![w.path] = FlattenSeq([p \in 1..w.parts |-> parts[w.path][p]])]
  /\ parts' = [parts EXCEPT ![w.path] = [p \in DOMAIN @ \ 1..w.parts |-> @[p]]]
  /\ Work("export", "complete")
  /\ Disturb(Sharing(w))
  /\ UNCHANGED <<jobs, table, edits, applied, Requests>>
ExportDone == Is("export", "complete") /\ Settle("export", "completed", Exported(Claimed("export")))
ExportFails ==
  /\ \/ Faults /\ worker["export"].pc \in {"export", "part", "progress", "finalize"}
     \/ Is("export", "finalize") /\ PartMissing(worker["export"])
  /\ FailJob("export")

(* process_next_backup_job_for_db, process_next_admin_job_for_db and         *)
(* process_next_fts_job_for_db.                                              *)
RunSimpleJob(k) ==
  /\ k \in {"backup", "admin"} /\ Is(k, k)
  /\ Settle(k, "completed", Claimed(k)) \/ (Faults /\ FailJob(k))

(* A worker is gone, at any await: the tick returned another database's      *)
(* error and dropped its tasks, or the UPDATE that settles the job failed.   *)
(* Nothing looks at a running job, or at its lease, again.                   *)
WorkerGone(k) ==
  /\ Crashes /\ ~Is(k, "idle") /\ Go(k, Resting)
  /\ UNCHANGED <<jobs, Exports, applied, Requests>>
Stop ==
  /\ Crashes /\ worker' = [k \in Kinds |-> Resting] /\ abort' = None
  /\ UNCHANGED <<jobs, Exports, applied, made, retries>>

Import == ReadLine \/ EndOfSource \/ ApplyBatch \/ PersistProgress \/ ImportDone \/ ImportFails
Export ==
  \/ ExportBatch \/ WritePart \/ ExportProgress
  \/ OpenTarget \/ FinalizeExport \/ ExportDone \/ ExportFails
Request ==
  \/ ImportJsonl \/ ExportJsonl \/ CreateBackup \/ EnqueueAdminJob
  \/ ContinueJob \/ AbortGuarded \/ AbortRead \/ AbortWrite
Tick(k) ==
  \/ Pick(k) \/ Claim(k) \/ RunSimpleJob(k)
  \/ k = "import" /\ Import
  \/ k = "export" /\ Export

Next == Request \/ WriteTable \/ Stop \/ \E k \in Kinds : Tick(k) \/ Cleanup(k) \/ WorkerGone(k)
Spec == Init /\ [][Next]_vars

(* Every worker loop ticks for ever (main.rs); what ends workers ends too.   *)
Fairness ==
  /\ \A k \in Kinds : WF_vars(Tick(k))
  /\ <>[][~Stop /\ \A k \in Kinds : ~WorkerGone(k)]_vars

------------------------------------------------------------------------------
Labels == {"idle", "claim", "fail", "apply", "apply last", "persist", "complete",
           "part", "progress", "finalize"} \cup Kinds
TypeOK ==
  /\ \A i \in Ids : jobs[i] \in Row \cup {None}
  /\ \A k \in Kinds : worker[k].pc \in Labels
  /\ abort \in Ids \cup {None} /\ made \in 0..MaxJobs /\ retries \in 0..MaxRetries
  /\ applied \in [Ids -> [1..Lines -> Nat]]

(* A retried import never applies a line twice (DOCUMENTATION.md:3686: it is  *)
(* continued from its recorded offset), whichever statement failed before.   *)
AppliedAtMostOnce == \A i \in Ids, l \in 1..Lines : applied[i][l] <= 1

(* An export that completes has every row of the table once and in order,    *)
(* whatever parts earlier attempts left behind, when since it began nobody   *)
(* wrote to the table and no other export wrote to its path.  (Without that: *)
(* each page is a query of its own, and parts are named by the path.)        *)
Completes(i) ==
  /\ jobs[i] # None /\ jobs[i].kind = "export" /\ jobs[i].status # "completed"
  /\ jobs'[i] # None /\ jobs'[i].status = "completed"
ExportWhole ==
  [][\A i \in Ids : Completes(i) /\ calm[i] => target[jobs[i].path] = table]_vars

(* DOCUMENTATION.md:3765: abort_job makes a job terminal. *)
AbortFinal ==
  [][\A i \in Ids : (jobs[i] # None /\ jobs[i].status = "aborted" /\ jobs'[i] # None)
       => jobs'[i].status = "aborted"]_vars

(* DOCUMENTATION.md:3686: a failed import can be continued from its recorded  *)
(* offset: the good lines before it have been applied.                       *)
RecordedIsApplied ==
  \A i \in Stored :
    (jobs[i].kind = "import" /\ jobs[i].status \in {"failed", "retrying"}) =>
      \A l \in (1..jobs[i].off) \ BadLines : applied[i][l] > 0

(* A waiting job is taken up or settled, whatever happens to older ones.     *)
JobsTakenUp ==
  \A i \in Ids : (jobs[i] # None /\ jobs[i].status \in Waiting)
                   ~> (jobs[i] = None \/ jobs[i].status \notin Waiting)
===============================================================================
