---------------------------- MODULE DocumentStore ----------------------------
(****************************************************************************)
(* The tables a document lives in (src/src/storage/schema.rs) and what the   *)
(* statements of the write handlers do to them, as operators on a store:     *)
(*   docs     __kdb_documents: the live row of each document, or None;       *)
(*   archive  __kdb_archive: the versions soft deletes kept;                 *)
(*   moves    __kdb_document_transitions: one row per document and name;     *)
(*   stats    __kdb_system_stats: the counters the triggers maintain.        *)
(*                                                                           *)
(* A JSON object is the set of its fields: a patch adds fields, a condition  *)
(* asks for some.  Owner, metadata and timestamps are left out.              *)
(****************************************************************************)
EXTENDS Integers, FiniteSets, Sequences, FiniteSetsExt, SequencesExt

CONSTANTS
  Docs,    \* document ids
  Colls,   \* namespaces
  Fields,  \* what the objects may contain
  Names,   \* names of lifecycle transitions
  None

Data == SUBSET Fields

(* Seconds; None is NULL.  Transactions and transitions have fresh ids. *)
Row == [coll : Colls, data : Data, size : Nat, exp : Nat \cup {None},
        beh : {"archive", "delete"}]
Version == [txn : Nat, id : Docs, coll : Colls, data : Data, size : Nat,
            exp : Nat \cup {None}]
Settled == {"completed", "skipped", "failed", "cancelled"}
Transition == [key : Nat, coll : Colls, at : Nat, when : Data,
               update : Data \cup {None}, ttl : Nat \cup {None},
               status : {"pending"} \cup Settled]
Counters == [count : Int, bytes : Int]
Store == [docs : [Docs -> Row \cup {None}], archive : SUBSET Version,
          moves : [Docs -> [Names -> Transition \cup {None}]],
          stats : [Colls -> Counters \cup {None}]]

Empty == [docs |-> [i \in Docs |-> None], archive |-> {},
          moves |-> [i \in Docs |-> [n \in Names |-> None]],
          stats |-> [c \in Colls |-> None]]

Live(d, ids, scope) ==
  {i \in ids : d.docs[i] # None /\ scope \in {None, d.docs[i].coll}}

(* data.len(): the braces and one unit per field. *)
SizeOf(data) == 2 + Cardinality(data)

(* length(?) of the INTEGER data.len(): how many digits it has (below 10). *)
MutatedSize(data) == 1

Expiry(ttl, now) == IF ttl \in {None, 0} THEN None ELSE now + ttl

------------------------------------------------------------------------------
(* trg_insert creates the counters; trg_delete and trg_update only change    *)
(* those that exist.                                                         *)
Counted(stats, c, n, b) ==
  [stats EXCEPT ![c] = IF @ = None THEN [count |-> n, bytes |-> b]
                       ELSE [count |-> @.count + n, bytes |-> @.bytes + b]]
Adjusted(stats, c, n, b) ==
  IF stats[c] = None THEN stats ELSE Counted(stats, c, n, b)

InsertRow(d, i, r) ==
  [d EXCEPT !.docs[i] = r, !.stats = Counted(@, r.coll, 1, r.size)]
WriteRow(d, i, r) ==
  [d EXCEPT !.docs[i] = r,
            !.stats = Adjusted(@, r.coll, 0, r.size - d.docs[i].size)]

(* INSERT OR REPLACE fires trg_insert for the new row; trg_delete would need *)
(* recursive_triggers, which is off.                                         *)
ReplaceRow(d, i, r) == InsertRow(d, i, r)

SizeIn(d, ids) == SumFunction([i \in ids |-> d.docs[i].size])

DeleteRowsUncounted(d, ids) ==
  [d EXCEPT !.docs = [i \in Docs |-> IF i \in ids THEN None ELSE @[i]]]
DeleteRows(d, ids) ==
  LET gone(c) == Live(d, ids, c)
  IN [d EXCEPT
       !.docs = [i \in Docs |-> IF i \in ids THEN None ELSE @[i]],
       !.stats = [c \in Colls |->
         Adjusted(@, c, -Cardinality(gone(c)), -SizeIn(d, gone(c)))[c]]]

(* recompute_stats: two statements, the second a plain INSERT that finds the *)
(* counters of a namespace written in between and fails.                     *)
ClearStats(d) == [d EXCEPT !.stats = [c \in Colls |-> None]]
Exact(d, c) == [count |-> Cardinality(Live(d, Docs, c)),
                bytes |-> SizeIn(d, Live(d, Docs, c))]
Rebuildable(d) == \A c \in Colls : Live(d, Docs, c) # {} => d.stats[c] = None
RebuildStats(d) ==
  IF ~Rebuildable(d) THEN d
  ELSE [d EXCEPT !.stats =
    [c \in Colls |-> IF Live(d, Docs, c) # {} THEN Exact(d, c) ELSE @[c]]]

------------------------------------------------------------------------------
(* Transitions of the documents in ids. *)
OnMoves(d, ids, F(_, _)) ==
  [d EXCEPT !.moves = [i \in Docs |-> [n \in Names |->
     IF i \in ids /\ @[i][n] # None THEN F(i, @[i][n]) ELSE @[i][n]]]]
Cancelled(i, t) == IF t.status = "pending" THEN [t EXCEPT !.status = "cancelled"] ELSE t
CancelPending(d, ids) == OnMoves(d, ids, Cancelled)
DropMoves(d, ids) == OnMoves(d, ids, LAMBDA i, t : None)

(* upsert_transition_on_conn / _on_tx: the row of that name starts over. *)
Attach(d, i, c, s, key, now) ==
  IF s = None THEN d
  ELSE [d EXCEPT !.moves[i][s.name] =
         [key |-> key, coll |-> c, at |-> now + s.after, when |-> s.when,
          update |-> s.update, ttl |-> s.ttl, status |-> "pending"]]

(* __kdb_archive_and_delete_ids, and the archiving half of the reaper. *)
VersionOf(d, i, txn, exp) ==
  [txn |-> txn, id |-> i, coll |-> d.docs[i].coll, data |-> d.docs[i].data,
   size |-> d.docs[i].size, exp |-> exp]

(* The archive entry is written, the pending transitions are left alone. *)
ArchiveKeepingMoves(d, ids, txn, exp) ==
  DeleteRows([d EXCEPT !.archive = @ \cup {VersionOf(d, i, txn, exp) : i \in ids}], ids)

ArchiveAndDelete(d, ids, txn, exp) ==
  DeleteRows(CancelPending(
    [d EXCEPT !.archive = @ \cup {VersionOf(d, i, txn, exp) : i \in ids}], ids), ids)

HardDelete(d, ids) == DeleteRows(DropMoves(d, ids), ids)

------------------------------------------------------------------------------
(* One mutation of the write handlers: what it leaves and whether it failed. *)
Done(d) == [db |-> d, ok |-> TRUE]
Failed(d) == [db |-> d, ok |-> FALSE]

NewRow(c, data, life, now) ==
  [coll |-> c, data |-> data, size |-> SizeOf(data),
   exp |-> Expiry(life.ttl, now), beh |-> life.beh]

(* unique_fields: a live document of the namespace has the same values. *)
Clash(d, c, data, unique) ==
  /\ unique \cap data # {}
  /\ \E i \in Live(d, Docs, c) : unique \cap data \subseteq d.docs[i].data

InsertDoc(d, o, key, now) ==
  IF Clash(d, o.coll, o.data, o.unique)
  THEN IF o.onConflict = "error" THEN Failed(d) ELSE Done(d)
  ELSE IF d.docs[o.id] # None THEN Failed(d)
  ELSE Done(Attach(InsertRow(d, o.id, NewRow(o.coll, o.data, o.life, now)),
                   o.id, o.coll, o.spec, key, now))

(* replace, merge patch, and the mutation engine with its size. *)
Written(r, how, data) ==
  LET new == IF how = "replace" THEN data ELSE r.data \cup data
  IN [r EXCEPT !.data = new,
               !.size = IF how = "mutate" THEN MutatedSize(new) ELSE SizeOf(new)]
UpdateDocs(d, ids, how, data) ==
  LET new(i) == Written(d.docs[i], how, data)
      grown(c) == SumFunction([i \in Live(d, ids, c) |-> new(i).size - d.docs[i].size])
  IN [d EXCEPT !.docs = [i \in Docs |-> IF i \in ids THEN new(i) ELSE @[i]],
               !.stats = [c \in Colls |-> Adjusted(@, c, 0, grown(c))[c]]]

UpdateDoc(d, o, key, now) ==
  LET hit == Live(d, {o.id}, o.coll)
  IN Done(IF hit = {} THEN d
          ELSE Attach(UpdateDocs(d, hit, o.how, o.data),
                      o.id, d.docs[o.id].coll, o.spec, key, now))

(* upsert_inner by an exact _id: update what the filter matches, or insert. *)
UpsertDoc(d, o, key, now) ==
  IF Live(d, {o.id}, o.coll) # {} THEN UpdateDoc(d, o, key, now)
  ELSE InsertDoc(d, [o EXCEPT !.unique = {}], key, now)

(* tx_delete: the version has no expiry, whatever the configured TTL. *)
DeleteDoc(d, o, key, now) ==
  Done(ArchiveAndDelete(d, Live(d, {o.id}, o.coll), key, None))

Mutate(d, o, key, now) ==
  CASE o.op = "insert" -> InsertDoc(d, o, key, now)
    [] o.op = "update" -> UpdateDoc(d, o, key, now)
    [] o.op = "upsert" -> UpsertDoc(d, o, key, now)
    [] o.op = "delete" -> DeleteDoc(d, o, key, now)

(* transaction: with on_error "fail" an error rolls everything back, with    *)
(* "continue" only the savepoint of the operation that failed.               *)
Operated(s, o, onError, key, now) ==
  LET r == Mutate(s.db, o, key, now)
  IN [db |-> IF s.ok /\ r.ok THEN r.db ELSE s.db, ok |-> s.ok /\ (r.ok \/ onError = "continue")]
Operating(d, ops, onError, key, now) ==
  LET after[n \in 0..Len(ops)] ==
        IF n = 0 THEN Done(d) ELSE Operated(after[n - 1], ops[n], onError, key + n - 1, now)
  IN after
Transact(d, ops, onError, key, now) ==
  LET end == Operating(d, ops, onError, key, now)[Len(ops)]
  IN IF end.ok THEN end.db ELSE d

(* apply_import_batch: one transaction; an imported row has no expiry. *)
ImportRow(d, o) ==
  LET r == d.docs[o.id]
      new == NewRow(o.coll, o.data, [ttl |-> None, beh |-> "archive"], 0)
  IN CASE r = None -> Done(InsertRow(d, o.id, new))
       [] r # None /\ o.onConflict = "error" -> Failed(d)
       [] r # None /\ o.onConflict = "skip" -> Done(d)
       [] r # None /\ o.onConflict = "replace" -> Done(ReplaceRow(d, o.id, new))
       [] r # None /\ o.onConflict = "merge" ->
            Done(WriteRow(d, o.id, Written(r, "patch", o.data)))

------------------------------------------------------------------------------
(* "skip" drops the version it did not restore. *)
RestoreOneDropping(d, v, mode) ==
  [d EXCEPT !.archive = {w \in @ : w.id # v.id}]

(* restore_archive, one archived version at a time. *)
RestoreOne(d, v, mode) ==
  LET r == d.docs[v.id]
      back == [coll |-> v.coll, data |-> v.data, size |-> v.size,
               exp |-> v.exp, beh |-> "archive"]
      merged == [r EXCEPT !.data = @ \cup v.data, !.size = SizeOf(r.data \cup v.data),
                          !.exp = v.exp, !.beh = "archive"]
      next == IF r = None THEN InsertRow(d, v.id, back)
              ELSE WriteRow(d, v.id, IF mode = "replace" THEN back ELSE merged)
  IN IF r # None /\ mode = "skip" THEN d
     ELSE [next EXCEPT !.archive = {w \in @ : w.id # v.id}]

Restoring(d, versions, mode) ==
  LET after[n \in 0..Len(versions)] ==
        IF n = 0 THEN d ELSE RestoreOne(after[n - 1], versions[n], mode)
  IN after
Restore(d, versions, mode) == Restoring(d, versions, mode)[Len(versions)]

(* The selector of restore_archive and purge_archive. *)
Picked(d, by, x) ==
  {v \in d.archive : CASE by = "txn" -> v.txn = x
                       [] by = "id" -> v.id = x
                       [] by = "namespace" -> v.coll = x}

(* run_one_document_transition: claim, check, apply, in one transaction. *)
Claim(d, key, now) ==
  {k \in Docs \X Names : LET t == d.moves[k[1]][k[2]]
     IN t # None /\ t.key = key /\ t.status = "pending" /\ t.at <= now}

Outcome(d, k) ==
  LET t == d.moves[k[1]][k[2]]
  IN IF Live(d, {k[1]}, t.coll) = {} \/ ~(t.when \subseteq d.docs[k[1]].data)
     THEN "skipped"
     ELSE IF t.update = None THEN "failed" ELSE "completed"

(* The update commits and the row stays pending. *)
RunOneUnmarked(d, k, now) ==
  LET t == d.moves[k[1]][k[2]]
  IN IF Outcome(d, k) # "completed"
     THEN [d EXCEPT !.moves[k[1]][k[2]].status = Outcome(d, k)]
     ELSE WriteRow(d, k[1], Written(d.docs[k[1]], "patch", t.update))

RunOne(d, k, now) ==
  LET t == d.moves[k[1]][k[2]]
      r == d.docs[k[1]]
      marked == [d EXCEPT !.moves[k[1]][k[2]].status = Outcome(d, k)]
  IN IF Outcome(d, k) # "completed" THEN marked
     ELSE WriteRow(marked, k[1],
       [r EXCEPT !.data = @ \cup t.update, !.size = SizeOf(r.data \cup t.update),
                 !.exp = IF t.ttl = None THEN @ ELSE Expiry(t.ttl, now)])
==============================================================================
