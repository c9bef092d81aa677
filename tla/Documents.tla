------------------------------ MODULE Documents ------------------------------
(****************************************************************************)
(* The documents of ONE database: live rows, archive, lifecycle transitions  *)
(* and namespace counters (write_ops.rs, tx_mutation.rs, archive_ops.rs,     *)
(* lifecycle_ops.rs, the namespace operations of db_ops.rs, reaper.rs).      *)
(*                                                                           *)
(* The write coordinator runs one handler at a time.  The reaper, the import *)
(* worker and the admin worker run on tasks of their own, between any two    *)
(* statements of a handler that are not in one SQLite transaction: h is what *)
(* the handler in progress holds there.  Reads are left out.                 *)
(****************************************************************************)
EXTENDS DocumentStore

CONSTANTS
  Inputs,       \* the objects and patches clients send
  Specs,        \* the lifecycle items they attach
  Lives,        \* the [ttl, beh] they ask for
  Batches,      \* the operations of a transaction
  ArchiveTtl,   \* KOKOADB_ARCHIVE_TTL_SECS, or None
  Features,     \* which of the optional actions below take place
  MaxKeys,      \* bound: operations
  MaxTime       \* bound: the clock

Spec0 == [name : Names, after : Nat, when : Data, update : Data \cup {None},
          ttl : Nat \cup {None}]
Operation ==
  [op : {"insert", "update", "upsert", "delete"}, id : Docs, coll : Colls, data : Data,
   how : {"patch", "replace", "mutate"}, unique : SUBSET Fields,
   life : [ttl : Nat \cup {None}, beh : {"archive", "delete"}],
   spec : Specs \cup {None}, onConflict : {"error", "skip"}]
DocumentsAssumption ==
  /\ IsFiniteSet(Docs) /\ IsFiniteSet(Fields)
  /\ None \notin Nat \cup Docs \cup Colls \cup Names \cup Row \cup Transition \cup Counters
  /\ Inputs \subseteq Data /\ Specs \subseteq Spec0
  /\ Lives \subseteq [ttl : (Nat \ {0}) \cup {None}, beh : {"archive", "delete"}]
  /\ Batches \subseteq Seq(Operation) /\ ArchiveTtl \in Nat \cup {None}
  /\ MaxKeys \in Nat /\ MaxTime \in Nat

VARIABLES
  db,        \* the tables
  now,       \* the clock, in seconds
  h,         \* the coordinator's handler between two statements
  admin,     \* the admin worker recomputes statistics: "idle" or "cleared"
  fresh,     \* the next transaction or transition id
  effects,   \* history: how often each transition changed its document
  drift      \* history: a counter was last written by a statement that cannot know it

vars == <<db, now, h, admin, fresh, effects, drift>>

Idle == [op |-> "idle"]
Keys == 1..(2 * MaxKeys + MaxTime)
Budget == fresh <= MaxKeys

Init ==
  /\ db = Empty /\ now = 0
  /\ h = Idle /\ admin = "idle" /\ fresh = 1
  /\ effects = [k \in Keys |-> 0] /\ drift = FALSE

(* A handler that is one statement or one transaction. *)
Handle(d) ==
  /\ h = Idle /\ Budget
  /\ db' = d /\ fresh' = fresh + 1
  /\ UNCHANGED <<now, h, admin, effects, drift>>

------------------------------------------------------------------------------
(* insert and upsert. *)
Create(op) ==
  \E i \in Docs, c \in Colls, v \in Inputs, life \in Lives, s \in Specs \cup {None},
     u \in {{}} \cup {{f} : f \in Fields} :
    Handle(Mutate(db, [op |-> op, id |-> i, coll |-> c, data |-> v, life |-> life,
                       spec |-> s, unique |-> u, onConflict |-> "skip", how |-> "patch"],
                  fresh, now).db)
Insert == Create("insert")
Upsert == Create("upsert")

(* update of one document by _id, without lifecycle. *)
Update ==
  \E i \in Docs, scope \in Colls \cup {None}, v \in Inputs,
     how \in {"patch", "replace", "mutate"} :
    Handle(UpdateDocs(db, Live(db, {i}, scope), how, v))

(* update by a filter, or with an array of documents: one statement each,    *)
(* so that an error leaves what the statements before it did.                *)
UpdateMany ==
  \E ids \in SUBSET Docs \ {{}}, scope \in Colls \cup {None}, v \in Inputs,
     how \in {"patch", "mutate"} :
    Handle(UpdateDocs(db, Live(db, ids, scope), how, v))

(* update with lifecycle and schedule_transition look the document up and    *)
(* then write, with the namespace they found.                                *)
FindForAttach ==
  /\ h = Idle /\ Budget
  /\ \E i \in Live(db, Docs, None), s \in Specs, v \in Inputs \cup {None} :
       h' = [op |-> "attach", id |-> i, coll |-> db.docs[i].coll, spec |-> s, patch |-> v]
  /\ fresh' = fresh + 1
  /\ UNCHANGED <<db, now, admin, effects, drift>>
AttachFound ==
  /\ h.op = "attach"
  /\ LET d == IF h.patch = None THEN db
              ELSE UpdateDocs(db, Live(db, {h.id}, None), "patch", h.patch)
     IN db' = Attach(d, h.id, h.coll, h.spec, fresh, now)
  /\ h' = Idle /\ fresh' = fresh + 1
  /\ UNCHANGED <<now, admin, effects, drift>>

Delete ==
  \E ids \in SUBSET Docs \ {{}}, scope \in Colls \cup {None} :
    \/ Handle(ArchiveAndDelete(db, Live(db, ids, scope), fresh, Expiry(ArchiveTtl, now)))
    \/ Handle(HardDelete(db, Live(db, ids, scope)))

DropNamespace ==
  \E c \in Colls :
    \/ Handle(ArchiveAndDelete(db, Live(db, Docs, c), fresh, Expiry(ArchiveTtl, now)))
    \/ Handle(HardDelete(db, Live(db, Docs, c)))

(* set_ttl: 0 clears the expiry; the behaviour changes only if given. *)
SetTtl ==
  \E ids \in SUBSET Docs \ {{}}, life \in Lives :
    Handle([db EXCEPT !.docs = [i \in Docs |->
      IF i \in Live(db, ids, None)
      THEN [@[i] EXCEPT !.exp = Expiry(life.ttl, now), !.beh = life.beh] ELSE @[i]]])

Transaction ==
  /\ h = Idle /\ Budget
  /\ \E ops \in Batches, onError \in {"fail", "continue"} :
       /\ db' = Transact(db, ops, onError, fresh, now)
       /\ fresh' = fresh + Len(ops)
  /\ UNCHANGED <<now, h, admin, effects, drift>>

------------------------------------------------------------------------------
(* restore_archive: one transaction over the versions its selector matches.  *)
(* "replace" may move a live document to another namespace behind the        *)
(* triggers, which count inserts and deletes only.                           *)
Selectors == {"txn"} \X (1..fresh) \cup {"id"} \X Docs \cup {"namespace"} \X Colls
RestoreArchive ==
  /\ h = Idle /\ Budget
  /\ \E s \in Selectors, mode \in {"skip", "replace", "patch"} :
       LET picked == Picked(db, s[1], s[2]) IN
       /\ picked # {}
       /\ \E order \in SetToSeqs(picked) : db' = Restore(db, order, mode)
       /\ drift' = (drift \/ (mode = "replace" /\ \E v \in picked :
            db.docs[v.id] # None \/ \E w \in picked : w.id = v.id /\ w.coll # v.coll))
  /\ fresh' = fresh + 1
  /\ UNCHANGED <<now, h, admin, effects>>

(* purge_archive: the ids, then the versions, then the transitions of the    *)
(* ids, in statements of their own.                                          *)
PurgeSelect ==
  /\ h = Idle /\ Budget
  /\ \E s \in Selectors :
       LET ids == {v.id : v \in Picked(db, s[1], s[2])} IN
       ids # {} /\ h' = [op |-> "purge", by |-> s[1], x |-> s[2], ids |-> ids]
  /\ fresh' = fresh + 1
  /\ UNCHANGED <<db, now, admin, effects, drift>>
PurgeVersions ==
  /\ h.op = "purge"
  /\ db' = [db EXCEPT !.archive = @ \ Picked(db, h.by, h.x)]
  /\ h' = [op |-> "purge moves", ids |-> h.ids]
  /\ UNCHANGED <<now, admin, fresh, effects, drift>>
PurgeTransitions ==
  /\ h.op = "purge moves"
  /\ db' = DropMoves(db, h.ids) /\ h' = Idle
  /\ UNCHANGED <<now, admin, fresh, effects, drift>>

------------------------------------------------------------------------------
(* change_namespace counts the bytes, then moves: the transitions of every   *)
(* id asked for, the counters by what was moved and by the bytes counted.    *)
ChangeSelect ==
  /\ h = Idle /\ Budget /\ "change" \in Features
  /\ \E from, to \in Colls, ids \in SUBSET Docs :
       /\ from # to /\ Live(db, ids, from) # {}
       /\ h' = [op |-> "change", from |-> from, to |-> to, ids |-> ids,
                bytes |-> SizeIn(db, Live(db, ids, from))]
  /\ fresh' = fresh + 1
  /\ UNCHANGED <<db, now, admin, effects, drift>>

Moved(d, ids, from, to, bytes) ==
  LET moved == Live(d, ids, from)
      n == Cardinality(moved)
      followed == OnMoves(d, ids, LAMBDA i, t : [t EXCEPT !.coll = to])
  IN [followed EXCEPT
       !.docs = [i \in Docs |-> IF i \in moved THEN [@[i] EXCEPT !.coll = to] ELSE @[i]],
       !.stats = Counted(Adjusted(@, from, -n, -bytes), to, n, bytes)]

ChangeNamespace ==
  /\ h.op = "change"
  /\ db' = Moved(db, h.ids, h.from, h.to, h.bytes)
  /\ drift' = (drift \/ h.bytes # SizeIn(db, Live(db, h.ids, h.from)))
  /\ h' = Idle
  /\ UNCHANGED <<now, admin, fresh, effects>>

(* rename_namespace: a transaction on the three tables, then recompute_stats *)
Renamed(d, from, to) ==
  LET as(x) == IF x.coll = from THEN [x EXCEPT !.coll = to] ELSE x
      followed == OnMoves(d, Docs, LAMBDA i, t : as(t))
  IN [followed EXCEPT
       !.docs = [i \in Docs |-> IF d.docs[i] = None THEN None ELSE as(d.docs[i])],
       !.archive = {as(v) : v \in d.archive}]

RenameNamespace ==
  /\ h = Idle /\ Budget /\ "rename" \in Features
  /\ \E from, to \in Colls :
       /\ from # to
       /\ db' = Renamed(db, from, to)
       /\ drift' = (drift \/ Live(db, Docs, from) # {})
  /\ h' = [op |-> "recompute"] /\ fresh' = fresh + 1
  /\ UNCHANGED <<now, admin, effects>>

(* apply_recompute_stats, its two statements. *)
Clear == db' = ClearStats(db) /\ drift' = TRUE
Rebuild ==
  /\ db' = RebuildStats(db)
  /\ drift' = (drift /\ \E c \in Colls : db.stats[c] # None)
RenameClear ==
  /\ h.op = "recompute" /\ Clear /\ h' = [op |-> "rebuild"]
  /\ UNCHANGED <<now, admin, fresh, effects>>
RenameRebuild ==
  /\ h.op = "rebuild" /\ Rebuild /\ h' = Idle
  /\ UNCHANGED <<now, admin, fresh, effects>>

------------------------------------------------------------------------------
(* cancel_transition, retry_transition. *)
CancelTransition ==
  \E i \in Docs, n \in Names :
    /\ db.moves[i][n] # None /\ db.moves[i][n].status = "pending"
    /\ Handle([db EXCEPT !.moves[i][n].status = "cancelled"])
RetryTransition ==
  \E i \in Docs, n \in Names, at \in {now, now + 1} :
    /\ db.moves[i][n] # None /\ db.moves[i][n].status = "failed"
    /\ Handle([db EXCEPT !.moves[i][n].status = "pending", !.moves[i][n].at = at])

(* Only the transitions of live documents are selected. *)
DueOfLive == {t.key : t \in {u \in {db.moves[i][n] : i \in Live(db, Docs, None), n \in Names} :
                              u # None /\ u.status = "pending" /\ u.at <= now}}

(* process_due_document_transitions, sent to the coordinator by each tick:   *)
(* the ids that are due, then a transaction for each that is still pending.  *)
Due == {t.key : t \in {u \in {db.moves[i][n] : i \in Docs, n \in Names} :
                        u # None /\ u.status = "pending" /\ u.at <= now}}
ProcessDue ==
  /\ h = Idle \/ h.op = "reaped"
  /\ Due # {} \/ h.op = "reaped"
  /\ h' = [op |-> "due", todo |-> Due]
  /\ UNCHANGED <<db, now, admin, fresh, effects, drift>>
RunNext ==
  /\ h.op = "due"
  /\ IF h.todo = {}
     THEN h' = Idle /\ UNCHANGED <<db, effects>>
     ELSE \E key \in h.todo :
       /\ h' = [h EXCEPT !.todo = @ \ {key}]
       /\ IF Claim(db, key, now) = {} THEN UNCHANGED <<db, effects>>
          ELSE \E k \in Claim(db, key, now) :
            /\ db' = RunOne(db, k, now)
            /\ effects' = [effects EXCEPT
                 ![key] = @ + (IF Outcome(db, k) = "completed" THEN 1 ELSE 0)]
  /\ UNCHANGED <<now, admin, fresh, drift>>

------------------------------------------------------------------------------
(* reap_conn: one transaction, by the reaper task and by reap_db. *)
Expired(d, beh) ==
  {i \in Docs : d.docs[i] # None /\ d.docs[i].exp # None /\ d.docs[i].exp <= now
                /\ d.docs[i].beh = beh}
Fading(d) == {v \in d.archive : v.exp # None /\ v.exp <= now}
Reaped ==
  LET kept == ArchiveAndDelete(db, Expired(db, "archive"), fresh, Expiry(ArchiveTtl, now))
      gone == HardDelete(kept, Expired(kept, "delete"))
  IN [gone EXCEPT !.archive = @ \ Fading(gone)]
Reap ==
  /\ Reaped # db
  /\ db' = Reaped
  /\ fresh' = IF Expired(db, "archive") = {} THEN fresh ELSE fresh + 1
  /\ UNCHANGED <<now, h, admin, effects, drift>>
ReapDb ==
  /\ h = Idle /\ Budget
  /\ db' = Reaped /\ h' = [op |-> "reaped"] /\ fresh' = fresh + 1
  /\ UNCHANGED <<now, admin, effects, drift>>

(* The import worker applies a batch; the admin worker recomputes. *)
Import ==
  /\ Budget /\ "import" \in Features
  /\ \E i \in Docs, c \in Colls, v \in Inputs,
        mode \in {"error", "skip", "replace", "merge"} :
       /\ db' = ImportRow(db, [id |-> i, coll |-> c, data |-> v, onConflict |-> mode]).db
       /\ drift' = (drift \/ (mode = "replace" /\ db.docs[i] # None))
  /\ fresh' = fresh + 1
  /\ UNCHANGED <<now, h, admin, effects>>
AdminClear ==
  /\ admin = "idle" /\ Budget /\ "recompute" \in Features
  /\ Clear /\ admin' = "cleared" /\ fresh' = fresh + 1
  /\ UNCHANGED <<now, h, effects>>
AdminRebuild ==
  /\ admin = "cleared" /\ Rebuild /\ admin' = "idle"
  /\ UNCHANGED <<now, h, fresh, effects>>

(* The process stops: what was committed stays. *)
Crash ==
  /\ "crash" \in Features /\ (h # Idle \/ admin # "idle")
  /\ h' = Idle /\ admin' = "idle"
  /\ UNCHANGED <<db, now, fresh, effects, drift>>

Tick == now < MaxTime /\ now' = now + 1 /\ UNCHANGED <<db, h, admin, fresh, effects, drift>>

Next ==
  \/ Insert \/ Upsert \/ Update \/ UpdateMany \/ FindForAttach \/ AttachFound
  \/ Delete \/ DropNamespace \/ SetTtl \/ Transaction
  \/ RestoreArchive \/ PurgeSelect \/ PurgeVersions \/ PurgeTransitions
  \/ ChangeSelect \/ ChangeNamespace
  \/ RenameNamespace \/ RenameClear \/ RenameRebuild
  \/ CancelTransition \/ RetryTransition \/ ProcessDue \/ RunNext
  \/ Reap \/ ReapDb \/ Import \/ AdminClear \/ AdminRebuild \/ Crash \/ Tick

Spec == Init /\ [][Next]_vars

(* The reaper loop ticks for ever and sends process_due to the coordinator,  *)
(* whose handlers end; time passes.  Assumes that crashes stop.              *)
GoOn ==
  AttachFound \/ PurgeVersions \/ PurgeTransitions \/ ChangeNamespace \/ RenameClear \/ RenameRebuild
Fairness ==
  WF_vars(Tick) /\ WF_vars(ProcessDue) /\ WF_vars(RunNext) /\ WF_vars(GoOn)
FairSpec == Spec /\ Fairness

------------------------------------------------------------------------------
TypeOK ==
  /\ db \in Store /\ now \in 0..MaxTime /\ fresh \in 1..(Cardinality(Keys) + 1)
  /\ h.op \in {"idle", "attach", "purge", "purge moves", "change", "recompute",
               "rebuild", "reaped", "due"}
  /\ admin \in {"idle", "cleared"} /\ drift \in BOOLEAN
  /\ effects \in [Keys -> Nat]

(* The triggers keep the counters of every namespace equal to its live rows, *)
(* through every handler, the reaper and the imports, until a statement that *)
(* cannot know them writes: a restore or an import that replaces, a change   *)
(* of namespace with a stale byte count, a rename or a recompute under way.  *)
CountersMatch ==
  drift \/ \A c \in Colls :
    IF db.stats[c] = None THEN Live(db, Docs, c) = {} ELSE db.stats[c] = Exact(db, c)

(* A scheduled transition changes its document at most once, whatever ticks, *)
(* retries, crashes and replacements by name come between.                   *)
AppliedOnce == \A k \in Keys : effects[k] <= 1

(* A document that leaves the live table leaves an archived version and no   *)
(* pending transition, or (deleted for good) no transition at all.           *)
LeavesArchivedOrClean ==
  [][\A i \in Docs : (db.docs[i] # None /\ db'.docs[i] = None) =>
       \/ /\ \E v \in db'.archive \ db.archive : v.id = i /\ db.docs[i].data \subseteq v.data
          /\ \A n \in Names : db'.moves[i][n] = None \/ db'.moves[i][n].status # "pending"
       \/ \A n \in Names : db'.moves[i][n] = None]_vars

(* Who may take a version out of the archive: purge_archive, its expiry, or  *)
(* a restore that made a version of that document live again.                *)
Leaves(v) == ~\E w \in db'.archive : w.txn = v.txn /\ w.id = v.id
Became(v) == db'.docs[v.id] # None /\ v.data \subseteq db'.docs[v.id].data
ArchiveKept ==
  [][\A v \in db.archive : Leaves(v) =>
       \/ h.op = "purge" \/ (v.exp # None /\ v.exp <= now)
       \/ \E w \in db.archive : w.id = v.id /\ Became(w)]_vars

(* The handle restore_archive returned by each delete brings back what THAT  *)
(* delete archived: a version stays until it is restored itself.             *)
VersionsIndependent ==
  [][\A v \in db.archive : Leaves(v) =>
       h.op = "purge" \/ (v.exp # None /\ v.exp <= now) \/ Became(v)]_vars

(* A transition that is due ends: it is applied, skipped, failed or          *)
(* cancelled, or its row is removed or replaced.                             *)
TransitionsConclude ==
  \A i \in Docs, n \in Names, k \in Keys :
    (db.moves[i][n] # None /\ db.moves[i][n].key = k /\ db.moves[i][n].status = "pending")
      ~> (db.moves[i][n] = None \/ db.moves[i][n].key # k
          \/ db.moves[i][n].status # "pending")
==============================================================================
