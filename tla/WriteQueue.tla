------------------------------ MODULE WriteQueue ------------------------------
(****************************************************************************)
(* The write coordinator of ONE database (src/src/state.rs), the routing of  *)
(* writes to it (dispatch_inner, src/src/service/dispatcher.rs) and the      *)
(* overlay of pending documents that reads consult (read_ops.rs).            *)
(*                                                                           *)
(* write_queues maps the database to the sender of a bounded channel whose   *)
(* receiving task applies one mutation at a time.  A task that waited        *)
(* write_queue_idle_secs for work retires: a later write starts another      *)
(* generation.  Requests hold a clone of the sender they looked up.          *)
(*                                                                           *)
(* A document is the set of the writes it contains.  Requests with a filter  *)
(* ("accepted") are acknowledged once queued; inserts and updates by id      *)
(* ("prepared") once the task has computed the resulting document; others    *)
(* ("committed") once applied.  Write mode "direct" has no queue and is left *)
(* out.                                                                      *)
(****************************************************************************)
EXTENDS Naturals, Sequences, FiniteSets, SequencesExt, Functions

CONSTANTS
  Requests,     \* write requests
  Deletes,      \* those that are delete_db
  Modes,        \* how the other requests may be acknowledged
  Docs,         \* document ids
  DocOf,        \* the document a request writes
  Readers,      \* queries by _id
  Capacity,     \* write_queue_capacity
  IdleRetires,  \* write_queue_idle_secs > 0
  Fails,        \* handlers may return an error
  TimesOut,     \* operation_timeout_ms may elapse
  None,
  MaxGens       \* bound: channel generations

ASSUME WriteQueueAssumption ==
  /\ Deletes \subseteq Requests
  /\ Modes \subseteq {"accepted", "prepared", "committed"}
  /\ DocOf \in [Requests -> Docs]
  /\ Capacity \in Nat \ {0} /\ MaxGens \in Nat
  /\ {IdleRetires, Fails, TimesOut} \subseteq BOOLEAN
  /\ None \notin Nat \cup Docs \cup Requests
  /\ None \notin {"queued", "committed", "error", "timeout"}
  /\ None \notin [rev : Nat, content : SUBSET Requests]

VARIABLES
  current,   \* write_queues: the generation new writes are sent to, or None
  made,      \* generations created so far
  queue,     \* the channel of each generation
  closed,    \* generations whose receiver called close()
  worker,    \* the task of each generation
  pending,   \* pending_documents
  revision,  \* pending_revision
  durable,   \* the documents in SQLite
  pc,        \* where each request stands
  mode,      \* its acknowledgment
  sender,    \* the generation it looked up
  answer,    \* what its client was told
  reader,    \* the running queries
  applied,   \* history: writes in the order they took effect
  void,      \* history: writes that failed or that delete_db removed
  after      \* history: writes acknowledged when a request arrived

channels == <<current, made, queue, closed>>
requests == <<pc, mode, sender, answer, after>>
data == <<durable, applied, void>>
overlay == <<pending, revision>>
vars == <<channels, worker, overlay, data, requests, reader>>

------------------------------------------------------------------------------
Gens == 1..MaxGens
NoTask == [pc |-> "recv", item |-> None, rev |-> 0]
NoQuery == [pc |-> "idle", doc |-> None, seen |-> {}, due |-> {}]
Acked == {"queued", "committed"}

Work(g, l) == [worker EXCEPT ![g].pc = l]

(* The oneshot response: dropped when the client is gone. *)
Answer(r, a) ==
  /\ answer' = [answer EXCEPT ![r] = IF @ = None THEN a ELSE @]
  /\ pc' = [pc EXCEPT ![r] = "done"]

(* The handler's effect on the database; delete_db ends with                 *)
(* clear_db_runtime_state, which forgets the channel and the overlay.        *)
Effect(r) ==
  /\ applied' = Append(applied, r)
  /\ IF r \in Deletes
     THEN /\ durable' = [d \in Docs |-> {}]
          /\ void' = void \cup ToSet(applied)
          /\ current' = None
          /\ pending' = [d \in Docs |-> None]
     ELSE /\ durable' = [durable EXCEPT ![DocOf[r]] = @ \cup {r}]
          /\ UNCHANGED <<void, current, pending>>

NoEffect(r) ==
  /\ void' = void \cup {r}
  /\ UNCHANGED <<applied, durable, current, pending>>

------------------------------------------------------------------------------
(* A request: dispatch_inner and the three enqueue functions. *)

(* get_or_create_write_sender *)
Acquire(r) ==
  /\ pc[r] \in {"new", "again"}
  /\ IF current # None THEN UNCHANGED <<current, made>>
     ELSE made < MaxGens /\ made' = made + 1 /\ current' = made + 1
  /\ sender' = [sender EXCEPT ![r] = current']
  /\ pc' = [pc EXCEPT ![r] = "send"]
  /\ after' = IF pc[r] = "again" THEN after
              ELSE [after EXCEPT ![r] = {s \in Requests : answer[s] \in Acked}]
  /\ UNCHANGED <<queue, closed, worker, overlay, data, mode, answer, reader>>

HasOneMore(g) == Len(queue[g]) <= Capacity
HasRoom(g) == Len(queue[g]) < Capacity

AfterFullDirect == "direct"

(* An accepted write that does not fit waits its turn as a committed write. *)
AfterFull == "again"

Fallback(r, l) ==
  /\ mode' = [mode EXCEPT ![r] = "committed"]
  /\ pc' = [pc EXCEPT ![r] = l]

(* try_enqueue_write *)
TrySend(r) ==
  LET g == sender[r] IN
  /\ pc[r] = "send" /\ mode[r] = "accepted"
  /\ \/ /\ ~closed[g] /\ HasRoom(g)
        /\ queue' = [queue EXCEPT ![g] = Append(@, r)]
        /\ Answer(r, "queued") /\ UNCHANGED <<current, mode>>
     \/ /\ ~closed[g] /\ ~HasRoom(g)
        /\ Fallback(r, AfterFull) /\ UNCHANGED <<current, queue, answer>>
     \/ /\ closed[g]
        /\ current' = None
        /\ Fallback(r, "again") /\ UNCHANGED <<queue, answer>>
  /\ UNCHANGED <<made, closed, worker, overlay, data, sender, after, reader>>

SentAcked(r) ==
  IF mode[r] = "prepared" THEN Answer(r, "queued")
  ELSE pc' = [pc EXCEPT ![r] = "wait"] /\ UNCHANGED answer

(* The request now waits for the response of the task. *)
Sent(r) == pc' = [pc EXCEPT ![r] = "wait"] /\ UNCHANGED answer

(* enqueue_committed_write, enqueue_prepared_write: send waits for room. *)
Send(r) ==
  LET g == sender[r] IN
  /\ pc[r] = "send" /\ mode[r] # "accepted"
  /\ \/ /\ ~closed[g] /\ HasRoom(g)
        /\ queue' = [queue EXCEPT ![g] = Append(@, r)]
        /\ Sent(r) /\ UNCHANGED <<current, mode>>
     \/ /\ closed[g]
        /\ current' = None
        /\ Fallback(r, IF mode[r] = "prepared" THEN "again" ELSE "direct")
        /\ UNCHANGED <<queue, answer>>
  /\ UNCHANGED <<made, closed, worker, overlay, data, sender, after, reader>>

(* The request runs its handler itself, beside the coordinator. *)
Direct(r) ==
  /\ pc[r] = "direct"
  /\ \/ Effect(r) /\ Answer(r, "committed")
     \/ Fails /\ NoEffect(r) /\ Answer(r, "error")
  /\ UNCHANGED <<made, queue, closed, worker, revision, mode, sender, after, reader>>

AfterTimeoutDirect(r) == IF pc[r] = "wait" THEN "direct" ELSE "done"

(* The operation timeout ends the request, and its handler with it. *)
AfterTimeout(r) == "done"

GiveUp(r) ==
  /\ TimesOut /\ pc[r] \in {"again", "send", "wait", "direct"}
  /\ answer' = [answer EXCEPT ![r] = "timeout"]
  /\ pc' = [pc EXCEPT ![r] = AfterTimeout(r)]
  /\ \/ UNCHANGED <<data, current, pending>>
     \/ pc[r] = "direct" /\ Effect(r)
  /\ UNCHANGED <<made, queue, closed, worker, revision, mode, sender, after, reader>>

------------------------------------------------------------------------------
(* The task spawned by get_or_create_write_sender. *)

GoneUnlessWaiting(r) == answer[r] = "timeout" \/ mode[r] = "accepted"
Gone(r) == answer[r] = "timeout"

(* An item whose client is gone is skipped. *)
Recv(g) ==
  LET r == Head(queue[g]) IN
  /\ worker[g].pc = "recv" /\ queue[g] # <<>>
  /\ queue' = [queue EXCEPT ![g] = Tail(@)]
  /\ worker' = IF Gone(r) THEN worker
               ELSE [worker EXCEPT ![g] =
                       [NoTask EXCEPT !.pc = IF mode[r] = "prepared" THEN "prepare" ELSE "apply",
                                      !.item = r]]
  /\ UNCHANGED <<current, made, closed, overlay, data, requests, reader>>

(* prepare_pending_write_preview: the document as it will be joins the        *)
(* overlay before the client is told.                                         *)
Prepare(g) ==
  LET r == worker[g].item
      d == DocOf[r]
      base == IF pending[d] # None THEN pending[d].content ELSE durable[d]
  IN
  /\ worker[g].pc = "prepare"
  /\ \/ /\ pending' = [pending EXCEPT ![d] = [rev |-> revision, content |-> base \cup {r}]]
        /\ revision' = revision + 1
        /\ worker' = [worker EXCEPT ![g].pc = "apply", ![g].rev = revision]
        /\ Answer(r, "queued") /\ UNCHANGED void
     \/ /\ Fails
        /\ Answer(r, "error") /\ void' = void \cup {r}
        /\ worker' = [worker EXCEPT ![g] = NoTask]
        /\ UNCHANGED overlay
  /\ UNCHANGED <<channels, durable, applied, mode, sender, after, reader>>

(* dispatch_write_worker, then the answer a committed write waits for. *)
Apply(g) ==
  LET r == worker[g].item IN
  /\ worker[g].pc = "apply"
  /\ \/ Effect(r)
        /\ IF mode[r] = "committed" THEN Answer(r, "committed") ELSE UNCHANGED <<answer, pc>>
     \/ Fails /\ NoEffect(r)
        /\ IF mode[r] = "committed" THEN Answer(r, "error") ELSE UNCHANGED <<answer, pc>>
  /\ worker' = IF mode[r] = "prepared" THEN Work(g, "check")
               ELSE [worker EXCEPT ![g] = NoTask]
  /\ UNCHANGED <<made, queue, closed, revision, mode, sender, after, reader>>

(* clear_pending_if_current looks at the entry, then removes it. *)
ClearCheck(g) ==
  LET entry == pending[DocOf[worker[g].item]] IN
  /\ worker[g].pc = "check"
  /\ worker' = IF entry # None /\ entry.rev = worker[g].rev THEN Work(g, "clear")
               ELSE [worker EXCEPT ![g] = NoTask]
  /\ UNCHANGED <<channels, overlay, data, requests, reader>>

ClearRemove(g) ==
  /\ worker[g].pc = "clear"
  /\ pending' = [pending EXCEPT ![DocOf[worker[g].item]] = None]
  /\ worker' = [worker EXCEPT ![g] = NoTask]
  /\ UNCHANGED <<channels, revision, data, requests, reader>>

(* No item came for idle_secs: the task closes the channel, forgets this      *)
(* generation and goes on with what was sent before it closed.                *)
IdleTimeout(g) ==
  /\ IdleRetires /\ g <= made /\ worker[g].pc = "recv" /\ queue[g] = <<>> /\ ~closed[g]
  /\ worker' = Work(g, "idle")
  /\ UNCHANGED <<channels, overlay, data, requests, reader>>

Close(g) ==
  /\ worker[g].pc = "idle"
  /\ closed' = [closed EXCEPT ![g] = TRUE]
  /\ worker' = Work(g, "retire")
  /\ UNCHANGED <<current, made, queue, overlay, data, requests, reader>>

AfterRetireExit == "gone"
AfterRetire == "recv"

(* remove_write_queue_generation *)
Retire(g) ==
  /\ worker[g].pc = "retire"
  /\ current' = IF current = g THEN None ELSE current
  /\ worker' = Work(g, AfterRetire)
  /\ UNCHANGED <<made, queue, closed, overlay, data, requests, reader>>

Exit(g) ==
  /\ worker[g].pc = "recv" /\ closed[g] /\ queue[g] = <<>>
  /\ current' = IF current = g THEN None ELSE current
  /\ worker' = Work(g, "gone")
  /\ UNCHANGED <<made, queue, closed, overlay, data, requests, reader>>

------------------------------------------------------------------------------
(* A query by _id: the rows first, then the overlay (execute_query_inner). *)

Due(d) ==
  {r \in Requests \ Deletes : /\ DocOf[r] = d /\ mode[r] # "accepted"
                              /\ answer[r] \in Acked /\ r \notin void}

ReadRows(q) ==
  /\ reader[q].pc = "idle"
  /\ \E d \in Docs :
       reader' = [reader EXCEPT ![q] = [pc |-> "overlay", doc |-> d, seen |-> durable[d],
                                        due |-> Due(d)]]
  /\ UNCHANGED <<channels, worker, overlay, data, requests>>

ReadOverlay(q) ==
  LET entry == pending[reader[q].doc] IN
  /\ reader[q].pc = "overlay"
  /\ reader' = [reader EXCEPT ![q].pc = "done",
                              ![q].seen = IF entry # None THEN entry.content ELSE @]
  /\ UNCHANGED <<channels, worker, overlay, data, requests>>

------------------------------------------------------------------------------
Init ==
  /\ current = None /\ made = 0
  /\ queue = [g \in Gens |-> <<>>]
  /\ closed = [g \in Gens |-> FALSE]
  /\ worker = [g \in Gens |-> NoTask]
  /\ pending = [d \in Docs |-> None] /\ revision = 1
  /\ durable = [d \in Docs |-> {}]
  /\ pc = [r \in Requests |-> "new"]
  /\ mode \in [Requests -> Modes \cup {"committed"}]
  /\ \A r \in Requests : IF r \in Deletes THEN mode[r] = "committed" ELSE mode[r] \in Modes
  /\ sender = [r \in Requests |-> None]
  /\ answer = [r \in Requests |-> None]
  /\ reader = [q \in Readers |-> NoQuery]
  /\ applied = <<>> /\ void = {}
  /\ after = [r \in Requests |-> {}]

Request(r) == Acquire(r) \/ TrySend(r) \/ Send(r) \/ Direct(r)

Task(g) ==
  \/ Recv(g) \/ Prepare(g) \/ Apply(g) \/ ClearCheck(g) \/ ClearRemove(g)
  \/ Close(g) \/ Retire(g) \/ Exit(g)

Next ==
  \/ \E r \in Requests : Request(r) \/ GiveUp(r)
  \/ \E g \in Gens : Task(g) \/ IdleTimeout(g)
  \/ \E q \in Readers : ReadRows(q) \/ ReadOverlay(q)

Spec == Init /\ [][Next]_vars

(* Requests and tasks are futures the runtime keeps polling. *)
FairSpec ==
  /\ Spec
  /\ \A r \in Requests : WF_vars(Request(r))
  /\ \A g \in Gens : WF_vars(Task(g))

------------------------------------------------------------------------------
TaskState ==
  [pc : {"recv", "prepare", "apply", "check", "clear", "idle", "retire", "gone"},
   item : Requests \cup {None}, rev : Nat]

TypeOK ==
  /\ current \in Gens \cup {None} /\ made \in 0..MaxGens
  /\ queue \in [Gens -> Seq(Requests)]
  /\ \A g \in Gens : Len(queue[g]) <= Capacity
  /\ closed \in [Gens -> BOOLEAN]
  /\ worker \in [Gens -> TaskState]
  /\ pending \in [Docs -> {None} \cup [rev : Nat, content : SUBSET Requests]]
  /\ revision \in Nat
  /\ durable \in [Docs -> SUBSET Requests]
  /\ pc \in [Requests -> {"new", "again", "send", "wait", "direct", "done"}]
  /\ mode \in [Requests -> {"accepted", "prepared", "committed"}]
  /\ sender \in [Requests -> Gens \cup {None}]
  /\ answer \in [Requests -> Acked \cup {None, "error", "timeout"}]
  /\ reader \in [Readers -> [pc : {"idle", "overlay", "done"}, doc : Docs \cup {None},
                             seen : SUBSET Requests, due : SUBSET Requests]]
  /\ applied \in Seq(Requests) /\ void \subseteq Requests
  /\ after \in [Requests -> SUBSET Requests]

(* Handlers running now, in the coordinators and beside them. *)
Executing ==
  {r \in Requests : pc[r] = "direct" \/ \E g \in Gens : worker[g].pc = "apply" /\ worker[g].item = r}

(* DOCUMENTATION.md:320, :385: the write coordinator of a database serializes *)
(* its mutations.                                                             *)
Serialized == Cardinality(Executing) <= 1

(* A write sent after another was acknowledged takes effect after it. *)
AppliedInOrder ==
  \A i, j \in DOMAIN applied : i < j => applied[j] \notin after[applied[i]]

(* Retries on a full or closed channel never make a write take effect twice,  *)
(* and an error answer never hides an effect.                                 *)
AppliedOnce ==
  /\ \A i, j \in DOMAIN applied : i # j => applied[i] # applied[j]
  /\ \A i \in DOMAIN applied : answer[applied[i]] # "error"

(* state.rs: a generation is retired without losing queued work.  A write     *)
(* acknowledged as queued has been applied, has failed, or is still held by   *)
(* a task that runs.                                                          *)
NothingLost ==
  \A r \in Requests : answer[r] = "queued" =>
    \/ r \in ToSet(applied) \cup void
    \/ \E g \in Gens : /\ worker[g].pc # "gone"
                       /\ \/ r \in ToSet(queue[g])
                          \/ worker[g].pc \in {"prepare", "apply"} /\ worker[g].item = r

(* An acknowledged write by id is in the durable document or in the overlay:  *)
(* there is no moment in between.                                             *)
OverlayCovers ==
  \A d \in Docs : Due(d) \subseteq
    durable[d] \cup (IF pending[d] # None THEN pending[d].content ELSE {})

(* DOCUMENTATION.md:334: reads see pending writes.  A query by _id returns    *)
(* every write by id that was acknowledged before it began.                   *)
ReadsSeePending ==
  \A q \in Readers : reader[q].pc = "done" => reader[q].due \subseteq reader[q].seen \cup void

(* Every write is answered, and what was acknowledged as queued is applied or *)
(* has failed, through full channels, retirements and fallbacks.              *)
WritesConclude ==
  \A r \in Requests :
    /\ pc[r] # "new" ~> pc[r] = "done"
    /\ answer[r] = "queued" ~> r \in ToSet(applied) \cup void
===============================================================================
