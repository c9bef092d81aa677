------------------------------- MODULE ReadCache -------------------------------
(****************************************************************************)
(* The read cache of one database (runtime_support.rs, state.rs).  A cached  *)
(* answer is never removed by a write: its key contains the epochs of the    *)
(* scope it was read from, and a write makes the key unreachable by bumping  *)
(* epochs after it has executed.                                             *)
(*                                                                           *)
(* Rows are abstracted to the number of the last change of their part of the *)
(* database, so "fresh" is a comparison: every insert, import batch, restore *)
(* or deletion is one change with the next number.  Readers and writers run  *)
(* concurrently; each access to an epoch, the cache or SQLite is one step.   *)
(****************************************************************************)
EXTENDS Integers, Sequences

CONSTANTS
  Namespaces, \* document namespaces
  Metrics,    \* the metric events, a part of the database of their own
  AnyScope,        \* the scope of a read that names no namespace
  Readers, Writers,
  MaxChanges, \* bound: changes of the database
  Deletes     \* delete_db is requested too

ASSUME ReadCacheAssumption ==
  /\ MaxChanges \in Nat /\ Deletes \in BOOLEAN
  /\ Metrics \notin Namespaces /\ AnyScope \notin Namespaces \cup {Metrics}
  /\ Namespaces \cap {"a", "b"} = {}

Parts == Namespaces \cup {Metrics}
Scopes == Parts \cup {AnyScope}
Epochs == {"a", "b"} \cup Namespaces

VARIABLES
  rows,     \* number of the last change of each part
  epoch,    \* cache_epochs: a| any scope, b| broadcast, c|ns
  cache,    \* read_cache and read_cache_ttl_overrides, by key
  scope,    \* the scope of the reads: a key names its scope, so that reads
            \* of one scope never meet answers of another, and one will do
  reader, writer,
  changes,  \* history: number of the last change
  answered, \* history: newest answered change of each part
  deleted   \* history: number of the last answered deletion

cacheVars == <<rows, epoch, cache, scope, reader, writer, changes, answered, deleted>>

Resting == [pc |-> "idle"]

CacheInit ==
  /\ rows = [p \in Parts |-> 0] /\ epoch = [e \in Epochs |-> 0] /\ cache = <<>> /\ scope \in Scopes
  /\ reader = [r \in Readers |-> Resting] /\ writer = [w \in Writers |-> Resting]
  /\ changes = 0 /\ answered = [p \in Parts |-> 0] /\ deleted = 0

------------------------------------------------------------------------------
(* Reads: count, query, aggregate, sql_execute, metrics_query.               *)

(* What a read sees. *)
Covered == IF scope = AnyScope THEN Parts ELSE {scope}
(* The epoch of its scope next to the broadcast epoch. *)
ScopeEpoch == IF scope = AnyScope THEN epoch["a"]
              ELSE IF scope = Metrics THEN 0 ELSE epoch[scope]

(* The steps of a read, in the handler's order. *)
OrderKeyLate == <<"select", "broadcast", "scope", "lookup", "put", "done">>
Order == <<"broadcast", "scope", "lookup", "select", "put", "done">>
After(pc) == LET i == CHOOSE i \in DOMAIN Order : Order[i] = pc IN Order[i + 1]
At(r, pc) == reader[r].pc = pc
Goto(r, fields) == reader' = [reader EXCEPT ![r] =
  [x \in DOMAIN @ |-> IF x = "pc" THEN After(@.pc) ELSE IF x \in DOMAIN fields THEN fields[x] ELSE @[x]]]

ReadOnly == UNCHANGED <<rows, epoch, scope, writer, changes, answered, deleted>>

StartRead(r) ==
  /\ At(r, "idle")
  /\ reader' = [reader EXCEPT ![r] = [pc |-> Order[1], b |-> 0, e |-> 0,
       seen |-> [p \in Covered |-> 0], since |-> [p \in Covered |-> answered[p]], gone |-> deleted]]
  /\ ReadOnly /\ UNCHANGED cache

KeyOf(r) == <<reader[r].b, reader[r].e>>

BroadcastEpoch(r) == At(r, "broadcast") /\ Goto(r, [b |-> epoch["b"]]) /\ ReadOnly /\ UNCHANGED cache
ReadScopeEpoch(r) ==
  At(r, "scope") /\ Goto(r, [e |-> ScopeEpoch]) /\ ReadOnly /\ UNCHANGED cache

(* A hit answers the read; an entry may always have expired or been evicted. *)
Hit(r) ==
  /\ At(r, "lookup") /\ KeyOf(r) \in DOMAIN cache
  /\ reader' = [reader EXCEPT ![r].pc = "done", ![r].seen = cache[KeyOf(r)]]
  /\ ReadOnly /\ UNCHANGED cache
Miss(r) == At(r, "lookup") /\ Goto(r, <<>>) /\ ReadOnly /\ UNCHANGED cache

Select(r) == At(r, "select") /\ Goto(r, [seen |-> [p \in Covered |-> rows[p]]]) /\ ReadOnly /\ UNCHANGED cache
PutCachedRead(r) ==
  /\ At(r, "put") /\ Goto(r, <<>>) /\ ReadOnly
  /\ cache' = [k \in DOMAIN cache \cup {KeyOf(r)} |-> IF k = KeyOf(r) THEN reader[r].seen ELSE cache[k]]
AnswerRead(r) ==
  /\ At(r, "done") /\ reader' = [reader EXCEPT ![r] = Resting] /\ ReadOnly /\ UNCHANGED cache

------------------------------------------------------------------------------
(* Writes.  A writer executes, bumps its scopes one epoch at a time and      *)
(* answers; a handler that fails answers an error and bumps nothing.         *)

InvalidateScope(s) == IF s \in Namespaces THEN <<s, "a">> ELSE <<"b", "a">>

(* Requests by the parts they change and the scopes they invalidate: one     *)
(* namespace; a move between two; several at once (transaction,              *)
(* restore_archive, purge_archive, recompute_stats, restore_backup,          *)
(* restore_snapshot, deletion); metric events.                               *)
Pairs == {x \in Namespaces \X Namespaces : x[1] # x[2]}
Write(parts, bumps) == [parts |-> parts, bumps |-> bumps]
InvalidateAfterWrite ==
       {Write({n}, InvalidateScope(n)) : n \in Namespaces}
  \cup {Write({x[1], x[2]}, InvalidateScope(x[1]) \o InvalidateScope(x[2])) : x \in Pairs}
  \cup {Write(ps, InvalidateScope(AnyScope)) : ps \in {{Metrics}, Parts}}

Change(parts) ==
  /\ changes < MaxChanges /\ changes' = changes + 1
  /\ rows' = [p \in Parts |-> IF p \in parts THEN changes + 1 ELSE rows[p]]
NoReader == UNCHANGED <<reader, cache, scope, deleted>>

Execute(w) ==
  /\ writer[w].pc = "idle" /\ NoReader /\ UNCHANGED <<epoch, answered>>
  /\ \E op \in InvalidateAfterWrite :
       /\ Change(op.parts)
       /\ writer' = [writer EXCEPT ![w] =
            [pc |-> "bump", parts |-> op.parts, change |-> changes + 1, bumps |-> op.bumps]]

(* A further batch of a running import, whose scope is bumped at its end. *)
ImportBatch(w) ==
  /\ writer[w].pc = "bump"
  /\ \E n \in Namespaces : writer[w].parts = {n} /\ writer[w].bumps = InvalidateScope(n)
  /\ Change(writer[w].parts)
  /\ writer' = [writer EXCEPT ![w].change = changes + 1]
  /\ NoReader /\ UNCHANGED <<epoch, answered>>

BumpEpoch(w) ==
  /\ writer[w].pc = "bump" /\ writer[w].bumps # <<>>
  /\ epoch' = [epoch EXCEPT ![Head(writer[w].bumps)] = @ + 1]
  /\ writer' = [writer EXCEPT ![w].bumps = Tail(@)]
  /\ NoReader /\ UNCHANGED <<rows, changes, answered>>

Newest(x, y) == IF x > y THEN x ELSE y
AnswerWrite(w) ==
  /\ writer[w].pc = "bump" /\ writer[w].bumps = <<>>
  /\ answered' = [p \in Parts |-> IF p \in writer[w].parts THEN Newest(answered[p], writer[w].change) ELSE answered[p]]
  /\ writer' = [writer EXCEPT ![w] = Resting]
  /\ NoReader /\ UNCHANGED <<rows, epoch, changes>>

(* Statements that nothing follows: the reaper, a failed import, a handler   *)
(* that fails after its commit.                                              *)
Unannounced == /\ \E p \in Parts : Change({p})
               /\ NoReader /\ UNCHANGED <<epoch, writer, answered>>

(* cache: -1 of a read. *)
InvalidateRequest ==
  /\ changes < MaxChanges /\ changes' = changes + 1
  /\ \E w \in Writers, s \in Scopes :
       /\ writer[w] = Resting
       /\ writer' = [writer EXCEPT ![w] = [pc |-> "bump", parts |-> {}, change |-> 0,
            bumps |-> IF s = Metrics THEN <<"b">> ELSE InvalidateScope(s)]]
  /\ NoReader /\ UNCHANGED <<rows, epoch, answered>>

------------------------------------------------------------------------------
(* delete_db: the rows, the epochs one by one, then all cached answers.      *)

DeleteFiles(w) ==
  /\ Deletes /\ writer[w].pc = "idle" /\ \A v \in Writers : writer[v].pc # "clear"
  /\ Change(Parts)
  /\ writer' = [writer EXCEPT ![w] = [pc |-> "clear", change |-> changes + 1, left |-> Epochs]]
  /\ NoReader /\ UNCHANGED <<epoch, answered>>
RemoveEpoch(w) ==
  /\ writer[w].pc = "clear"
  /\ \E e \in writer[w].left :
       /\ epoch' = [epoch EXCEPT ![e] = 0]
       /\ writer' = [writer EXCEPT ![w].left = @ \ {e}]
  /\ NoReader /\ UNCHANGED <<rows, changes, answered>>
InvalidateAll(w) ==
  /\ writer[w].pc = "clear" /\ writer[w].left = {}
  /\ cache' = <<>> /\ deleted' = writer[w].change
  /\ answered' = [p \in Parts |-> Newest(answered[p], writer[w].change)]
  /\ writer' = [writer EXCEPT ![w] = Resting]
  /\ UNCHANGED <<rows, epoch, reader, scope, changes>>

CacheNext ==
  \/ \E r \in Readers : \/ StartRead(r) \/ BroadcastEpoch(r) \/ ReadScopeEpoch(r) \/ Hit(r) \/ Miss(r)
                        \/ Select(r) \/ PutCachedRead(r) \/ AnswerRead(r)
  \/ \E w \in Writers : \/ Execute(w) \/ ImportBatch(w) \/ BumpEpoch(w) \/ AnswerWrite(w)
                        \/ DeleteFiles(w) \/ RemoveEpoch(w) \/ InvalidateAll(w)
  \/ Unannounced \/ InvalidateRequest

CacheSpec == CacheInit /\ [][CacheNext]_cacheVars

------------------------------------------------------------------------------
(* Properties                                                                *)

(* A read sees every change that was answered before it started, whether it  *)
(* is answered by SQLite or from the cache, and although it takes its key in *)
(* two steps, before its SELECT, while other requests execute and bump.      *)
CachedFresh == \A r \in Readers : At(r, "done") =>
  \A p \in Covered : reader[r].seen[p] >= reader[r].since[p]

(* After delete_db is answered no read returns rows of the deleted database: *)
(* the documented sixth step of delete_db clears its cache state.            *)
DeletedNotServed == \A r \in Readers : At(r, "done") =>
  \A p \in Covered : reader[r].seen[p] >= reader[r].gone
===============================================================================
