--------------------------- MODULE WriteQueueProofs ---------------------------
(****************************************************************************)
(* Proofs about WriteQueue, for any requests, documents, capacity and number *)
(* of generations: types, NothingLost and AppliedOnce always; Serialized,     *)
(* OverlayCovers and AppliedInOrder through retirements and delete_db, in the *)
(* behaviours where nothing is left behind with an old generation (NoStale).  *)
(****************************************************************************)
EXTENDS WriteQueue, TLAPS, FiniteSetTheorems, SequenceTheorems

------------------------------------------------------------------------------
(* The inductive invariant.  A busy task holds an item; a request about to    *)
(* send has a channel; a task that is gone had closed its channel and left    *)
(* nothing in it, so no send can reach it.                                    *)

Busy == {"prepare", "apply", "check", "clear"}

Held(g) ==
  /\ worker[g].pc \in Busy => worker[g].item \in Requests
  /\ worker[g].pc = "gone" => closed[g]

HasSender(r) == pc[r] = "send" => sender[r] \in Gens

HasDoc(q) == reader[q].pc = "overlay" => reader[q].doc \in Docs

Typed ==
  /\ TypeOK
  /\ \A g \in Gens : Held(g)
  /\ \A r \in Requests : HasSender(r)
  /\ \A q \in Readers : HasDoc(q)

IInv == Typed /\ NothingLost

(* A generation is stale once it closed its channel or write_queues forgot it *)
(* or names another.  NoStale: no request holds the sender of such a          *)
(* generation and nothing is left in its channel.  A lookup that races the    *)
(* retirement (QueueStaleSender) or writes queued behind a delete_db          *)
(* (QueueDeleteDb) break it, and then the three properties below fail.        *)
Stale(g) == closed[g] \/ g # current

NoStale ==
  \A g \in Gens : Stale(g) =>
    /\ queue[g] = <<>>
    /\ \A r \in Requests : pc[r] = "send" => sender[r] # g

(* Only the current generation works, and no handler runs beside it; delete_db *)
(* goes through the channel as a committed write.                              *)
OneTask ==
  /\ \A g \in Gens : worker[g].pc \in Busy => g = current
  /\ \A r \in Requests : pc[r] # "direct"
  /\ \A r \in Deletes : mode[r] = "committed"
  /\ \A d \in Docs : durable[d] \subseteq ToSet(applied)

(* Writes by id a client may count on: durable, or in the overlay while the   *)
(* task is still applying them.                                               *)
Covered(r) ==
  r \notin Deletes /\ mode[r] # "accepted" /\ answer[r] \in Acked /\ r \notin void =>
    \/ r \in durable[DocOf[r]]
    \/ /\ \E g \in Gens : worker[g].pc = "apply" /\ worker[g].item = r
       /\ pending[DocOf[r]] # None /\ r \in pending[DocOf[r]].content

Unanswered(r) == pc[r] \in {"new", "again", "send"} => answer[r] \notin Acked

SteadyInv ==
  /\ IInv /\ OneTask
  /\ \A r \in Requests : Covered(r) /\ Unanswered(r)

------------------------------------------------------------------------------
(* The elements of a channel after a send and after a receive. *)
LEMMA SentElements ==
  ASSUME NEW S, NEW s \in Seq(S), NEW e \in S
  PROVE  Append(s, e) \in Seq(S) /\ ToSet(Append(s, e)) = ToSet(s) \cup {e}
<1>1. /\ Append(s, e) \in Seq(S) /\ Len(Append(s, e)) = Len(s) + 1 /\ Len(s) \in Nat
      /\ \A i \in 1..Len(s) : Append(s, e)[i] = s[i]
      /\ Append(s, e)[Len(s) + 1] = e
  BY AppendProperties
<1>2. DOMAIN Append(s, e) = 1..(Len(s) + 1) /\ DOMAIN s = 1..Len(s)
  BY <1>1
<1>3. 1..(Len(s) + 1) = 1..Len(s) \cup {Len(s) + 1}
  BY <1>1
<1>4. ToSet(Append(s, e)) \subseteq ToSet(s) \cup {e}
  BY <1>1, <1>2, <1>3 DEF ToSet
<1>5. ToSet(s) \cup {e} \subseteq ToSet(Append(s, e))
  BY <1>1, <1>2, <1>3 DEF ToSet
<1> QED BY <1>1, <1>4, <1>5

LEMMA ReceivedElements ==
  ASSUME NEW S, NEW s \in Seq(S), s # <<>>
  PROVE  /\ Head(s) \in S /\ Tail(s) \in Seq(S) /\ Len(Tail(s)) = Len(s) - 1
         /\ ToSet(s) \subseteq ToSet(Tail(s)) \cup {Head(s)}
<1>1. /\ Head(s) \in S /\ Tail(s) \in Seq(S) /\ Len(Tail(s)) = Len(s) - 1
      /\ \A i \in 1..Len(Tail(s)) : Tail(s)[i] = s[i + 1]
      /\ Len(s) \in Nat \ {0} /\ Head(s) = s[1]
  BY HeadTailProperties, EmptySeq
<1>2. ASSUME NEW i \in DOMAIN s PROVE s[i] \in ToSet(Tail(s)) \cup {Head(s)}
  <2>1. i \in 1..Len(s) /\ DOMAIN Tail(s) = 1..(Len(s) - 1)
    BY <1>1, <1>2
  <2>2. CASE i = 1
    BY <1>1, <2>2
  <2>3. CASE i # 1
    <3>1. i - 1 \in 1..(Len(s) - 1) /\ Tail(s)[i - 1] = s[i]
      BY <1>1, <2>1, <2>3
    <3> QED BY <2>1, <3>1 DEF ToSet
  <2> QED BY <2>2, <2>3
<1> QED BY <1>1, <1>2 DEF ToSet

(* What a handler does to the data, whether it succeeds or fails. *)
LEMMA HandlerEffect ==
  ASSUME TypeOK, NEW r \in Requests, Effect(r) \/ NoEffect(r)
  PROVE  /\ applied' \in Seq(Requests) /\ void' \subseteq Requests
         /\ durable' \in [Docs -> SUBSET Requests]
         /\ current' \in {current, None}
         /\ pending' \in [Docs -> {None} \cup [rev : Nat, content : SUBSET Requests]]
         /\ ToSet(applied) \cup void \cup {r} \subseteq ToSet(applied') \cup void'
<1>1. applied \in Seq(Requests) /\ void \subseteq Requests
  BY DEF TypeOK
<1>2. CASE Effect(r)
  <2>1. applied' \in Seq(Requests) /\ ToSet(applied') = ToSet(applied) \cup {r}
    BY <1>1, <1>2, SentElements DEF Effect
  <2>2. void' \subseteq Requests /\ void \subseteq void'
    <3>1. ToSet(applied) \subseteq Requests
      BY <1>1 DEF ToSet
    <3> QED BY <1>1, <1>2, <3>1 DEF Effect
  <2>3. current' \in {current, None} /\ pending' \in {pending, [d \in Docs |-> None]}
    BY <1>2 DEF Effect
  <2>4. durable' \in [Docs -> SUBSET Requests]
    <3>1. CASE r \in Deletes
      BY <1>2, <3>1 DEF Effect
    <3>2. CASE r \notin Deletes
      <4>1. durable' = [durable EXCEPT ![DocOf[r]] = @ \cup {r}]
        BY <1>2, <3>2 DEF Effect
      <4> QED BY <4>1 DEF TypeOK
    <3> QED BY <3>1, <3>2
  <2>5. pending' \in [Docs -> {None} \cup [rev : Nat, content : SUBSET Requests]]
    BY <2>3 DEF TypeOK
  <2> QED BY <2>1, <2>2, <2>3, <2>4, <2>5
<1>3. CASE NoEffect(r)
  BY <1>3 DEF NoEffect, TypeOK
<1> QED BY <1>2, <1>3

(* The program starts in the invariant. *)
LEMMA InitIInv == Init => IInv
<1> SUFFICES ASSUME Init PROVE IInv
  OBVIOUS
<1>1. Modes \cup {"committed"} \subseteq {"accepted", "prepared", "committed"}
  BY WriteQueueAssumption
<1>2. TypeOK
  <2>1. queue \in [Gens -> Seq(Requests)] /\ \A g \in Gens : Len(queue[g]) <= Capacity
    BY WriteQueueAssumption, EmptySeq DEF Init
  <2>2. mode \in [Requests -> {"accepted", "prepared", "committed"}]
    BY <1>1 DEF Init
  <2>3. applied \in Seq(Requests)
    BY EmptySeq DEF Init
  <2> QED BY <2>1, <2>2, <2>3, WriteQueueAssumption DEF Init, TypeOK, NoTask, TaskState, NoQuery
<1>3. \A g \in Gens : Held(g)
  BY DEF Init, Held, NoTask, Busy
<1>4. \A r \in Requests : HasSender(r)
  BY DEF Init, HasSender
<1>6. \A q \in Readers : HasDoc(q)
  BY DEF Init, HasDoc, NoQuery
<1>5. NothingLost
  <2>1. None # "queued"
    BY WriteQueueAssumption
  <2> QED BY <2>1 DEF Init, NothingLost
<1> QED BY <1>2, <1>3, <1>4, <1>5, <1>6 DEF IInv, Typed

------------------------------------------------------------------------------
(* Every step keeps the types, and what a busy task and a sender hold. *)
LEMMA WorkerTyped ==
  ASSUME Typed, NEW g \in Gens, NEW w \in TaskState,
         w.pc \in Busy => w.item \in Requests, w.pc = "gone" => closed[g],
         worker' = [worker EXCEPT ![g] = w],
         \A h \in Gens : closed[h] => closed'[h]
  PROVE  worker' \in [Gens -> TaskState] /\ \A h \in Gens : Held(h)'
BY DEF Typed, TypeOK, Held

LEMMA WorkTyped ==
  ASSUME Typed, NEW g \in Gens,
         NEW l \in {"recv", "prepare", "apply", "check", "clear", "idle", "retire", "gone"},
         l \in Busy => worker[g].item \in Requests, l = "gone" => closed[g],
         worker' = Work(g, l), \A h \in Gens : closed[h] => closed'[h]
  PROVE  worker' \in [Gens -> TaskState] /\ \A h \in Gens : Held(h)'
<1> DEFINE w == [worker[g] EXCEPT !.pc = l]
<1>1. worker[g] \in TaskState /\ worker \in [Gens -> TaskState]
  BY DEF Typed, TypeOK
<1>2. w \in TaskState /\ w.pc = l /\ w.item = worker[g].item
  BY <1>1 DEF TaskState
<1>3. worker' = [worker EXCEPT ![g] = w]
  BY DEF Work
<1> HIDE DEF w
<1> QED BY <1>2, <1>3, WorkerTyped

LEMMA NoTaskTyped == NoTask \in TaskState /\ NoTask.pc = "recv"
BY DEF NoTask, TaskState

LEMMA RequestTyped ==
  ASSUME Typed, NEW r \in Requests, Request(r) \/ GiveUp(r)
  PROVE  Typed'
<1> USE DEF Typed
<1>0. \A q \in Readers : HasDoc(q)'
  BY DEF Request, Acquire, TrySend, Send, Direct, GiveUp, HasDoc
<1>1. CASE Acquire(r)
  <2>1. current' \in Gens /\ made' \in 0..MaxGens
    BY <1>1, WriteQueueAssumption DEF Acquire, TypeOK, Gens
  <2>2. TypeOK'
    BY <1>1, <2>1 DEF Acquire, TypeOK, overlay, data
  <2>3. \A s \in Requests : HasSender(s)'
    BY <1>1, <2>1 DEF Acquire, HasSender, TypeOK
  <2>4. \A g \in Gens : Held(g)'
    BY <1>1 DEF Acquire, Held
  <2> QED BY <1>0, <2>2, <2>3, <2>4
<1>2. CASE TrySend(r) \/ Send(r)
  <2> DEFINE g == sender[r]
  <2>1. g \in Gens /\ queue[g] \in Seq(Requests) /\ Len(queue[g]) <= Capacity
    BY <1>2 DEF TypeOK, HasSender, TrySend, Send
  <2>2. /\ UNCHANGED <<made, closed, worker, overlay, data, sender, after, reader>>
        /\ \/ queue' = queue
           \/ ~closed[g] /\ Len(queue[g]) < Capacity /\ queue' = [queue EXCEPT ![g] = Append(@, r)]
        /\ current' \in {current, None}
        /\ mode' \in {mode, [mode EXCEPT ![r] = "committed"]}
        /\ answer' \in {answer, [answer EXCEPT ![r] = IF @ = None THEN "queued" ELSE @]}
        /\ \E l \in {"again", "wait", "direct", "done"} : pc' = [pc EXCEPT ![r] = l]
    BY <1>2, SMTT(20) DEF TrySend, Send, Sent, Answer, Fallback, HasRoom, AfterFull
  <2>3. queue' \in [Gens -> Seq(Requests)] /\ \A h \in Gens : Len(queue'[h]) <= Capacity
    <3>1. CASE queue' = queue
      BY <3>1 DEF TypeOK
    <3>2. CASE Len(queue[g]) < Capacity /\ queue' = [queue EXCEPT ![g] = Append(@, r)]
      <4>1. Append(queue[g], r) \in Seq(Requests) /\ Len(Append(queue[g], r)) = Len(queue[g]) + 1
        BY <2>1, AppendProperties
      <4>2. Len(queue[g]) \in Nat
        BY <2>1, LenProperties
      <4> QED BY <3>2, <2>1, <4>1, <4>2, WriteQueueAssumption DEF TypeOK
    <3> QED BY <2>2, <3>1, <3>2
  <2>4. TypeOK'
    <3>1. mode' \in [Requests -> {"accepted", "prepared", "committed"}]
      BY <2>2 DEF TypeOK
    <3>4. pc' \in [Requests -> {"new", "again", "send", "wait", "direct", "done"}]
      <4>1. PICK l \in {"again", "wait", "direct", "done"} : pc' = [pc EXCEPT ![r] = l]
        BY <2>2
      <4> QED BY <4>1 DEF TypeOK
    <3>2. answer' \in [Requests -> Acked \cup {None, "error", "timeout"}]
      BY <2>2 DEF TypeOK, Acked
    <3>3. current' \in Gens \cup {None}
      BY <2>2 DEF TypeOK
    <3> QED BY <2>2, <2>3, <3>1, <3>2, <3>3, <3>4 DEF TypeOK, overlay, data
  <2>5. \A s \in Requests : HasSender(s)'
    BY <2>2 DEF HasSender, TypeOK
  <2>6. \A h \in Gens : Held(h)'
    BY <2>2 DEF Held
  <2> QED BY <1>0, <2>4, <2>5, <2>6
<1>3. CASE Direct(r) \/ GiveUp(r)
  <2>1. /\ UNCHANGED <<made, queue, closed, worker, revision, mode, sender, after, reader>>
        /\ pc' = [pc EXCEPT ![r] = "done"]
        /\ \E a \in {"committed", "error", "timeout"} :
             answer' \in {answer, [answer EXCEPT ![r] = a],
                          [answer EXCEPT ![r] = IF @ = None THEN a ELSE @]}
        /\ Effect(r) \/ NoEffect(r) \/ UNCHANGED <<data, current, pending>>
    BY <1>3 DEF Direct, GiveUp, Answer, AfterTimeout
  <2>2. /\ applied' \in Seq(Requests) /\ void' \subseteq Requests
        /\ durable' \in [Docs -> SUBSET Requests] /\ current' \in {current, None}
        /\ pending' \in [Docs -> {None} \cup [rev : Nat, content : SUBSET Requests]]
    <3>1. CASE Effect(r) \/ NoEffect(r)
      BY <3>1, HandlerEffect
    <3>2. CASE UNCHANGED <<data, current, pending>>
      BY <3>2 DEF TypeOK, data
    <3> QED BY <2>1, <3>1, <3>2
  <2>3. TypeOK'
    <3>1. answer' \in [Requests -> Acked \cup {None, "error", "timeout"}]
      <4>1. PICK a \in {"committed", "error", "timeout"} :
              answer' \in {answer, [answer EXCEPT ![r] = a],
                           [answer EXCEPT ![r] = IF @ = None THEN a ELSE @]}
        BY <2>1
      <4>2. a \in Acked \cup {None, "error", "timeout"}
        BY DEF Acked
      <4> QED BY <4>1, <4>2 DEF TypeOK
    <3>2. pc' \in [Requests -> {"new", "again", "send", "wait", "direct", "done"}]
      BY <2>1 DEF TypeOK
    <3>3. current' \in Gens \cup {None}
      BY <2>2 DEF TypeOK
    <3> QED BY <2>1, <2>2, <3>1, <3>2, <3>3 DEF TypeOK
  <2>4. (\A s \in Requests : HasSender(s)') /\ (\A h \in Gens : Held(h)')
    BY <2>1 DEF HasSender, Held, TypeOK
  <2> QED BY <1>0, <2>3, <2>4
<1> QED BY <1>1, <1>2, <1>3 DEF Request
LEMMA TaskTyped ==
  ASSUME Typed, NEW g \in Gens, Task(g) \/ IdleTimeout(g)
  PROVE  Typed'
<1> DEFINE r == worker[g].item
<1> SUFFICES /\ worker' \in [Gens -> TaskState] /\ \A h \in Gens : Held(h)'
             /\ (worker' \in [Gens -> TaskState] => TypeOK')
             /\ \A s \in Requests : HasSender(s)'
  <2>1. \A q \in Readers : HasDoc(q)'
    BY DEF Task, Recv, Gone, Prepare, Apply, ClearCheck, ClearRemove, IdleTimeout, Close, Retire,
           Exit, Typed, HasDoc
  <2> QED BY <2>1 DEF Typed
<1>0. /\ TypeOK /\ queue[g] \in Seq(Requests) /\ worker[g] \in TaskState
      /\ \A s \in Requests : HasSender(s)
      /\ worker[g].pc \in Busy => r \in Requests /\ DocOf[r] \in Docs
  BY WriteQueueAssumption DEF Typed, TypeOK, Held
<1>1. CASE Recv(g)
  <2> DEFINE w == [NoTask EXCEPT
                     !.pc = IF mode[Head(queue[g])] = "prepared" THEN "prepare" ELSE "apply",
                     !.item = Head(queue[g])]
  <2>1. /\ Head(queue[g]) \in Requests /\ Tail(queue[g]) \in Seq(Requests)
        /\ Len(Tail(queue[g])) <= Capacity
    <3>1. Len(queue[g]) \in Nat /\ Len(queue[g]) <= Capacity
      BY <1>0, LenProperties DEF TypeOK
    <3> QED BY <1>0, <1>1, <3>1, ReceivedElements, WriteQueueAssumption DEF Recv, Gone
  <2>2. queue' \in [Gens -> Seq(Requests)] /\ \A h \in Gens : Len(queue'[h]) <= Capacity
    BY <1>0, <1>1, <2>1 DEF Recv, Gone, TypeOK
  <2>3. /\ w \in TaskState /\ w.pc # "gone" /\ w.item \in Requests
        /\ worker' = worker \/ worker' = [worker EXCEPT ![g] = w]
    BY <1>1, <2>1 DEF Recv, Gone, NoTask, TaskState
  <2>4. worker' \in [Gens -> TaskState] /\ \A h \in Gens : Held(h)'
    <3>1. closed' = closed
      BY <1>1 DEF Recv, Gone
    <3>2. CASE worker' = worker
      BY <3>1, <3>2 DEF Typed, TypeOK, Held
    <3> HIDE DEF w
    <3>3. CASE worker' = [worker EXCEPT ![g] = w]
      BY <2>3, <3>1, <3>3, WorkerTyped
    <3> QED BY <2>3, <3>2, <3>3
  <2> QED BY <1>0, <1>1, <2>2, <2>4 DEF Recv, Gone, TypeOK, overlay, data, requests, HasSender
<1>2. CASE Prepare(g)
  <2> DEFINE d == DocOf[r]
             base == IF pending[d] # None THEN pending[d].content ELSE durable[d]
             w == [worker[g] EXCEPT !.pc = "apply", !.rev = revision]
  <2>1. r \in Requests /\ d \in Docs /\ base \cup {r} \in SUBSET Requests
    BY <1>0, <1>2 DEF Prepare, Busy, TypeOK
  <2>2. \/ /\ pending' = [pending EXCEPT ![d] = [rev |-> revision, content |-> base \cup {r}]]
           /\ revision' = revision + 1
           /\ worker' = [worker EXCEPT ![g] = w]
           /\ Answer(r, "queued") /\ UNCHANGED void
        \/ /\ Answer(r, "error") /\ void' = void \cup {r}
           /\ worker' = [worker EXCEPT ![g] = NoTask] /\ UNCHANGED overlay
    <3>1. [worker EXCEPT ![g].pc = "apply", ![g].rev = revision] = [worker EXCEPT ![g] = w]
      BY <1>0 DEF TypeOK, TaskState
    <3> QED BY <1>2, <3>1 DEF Prepare
  <2>3. UNCHANGED <<channels, durable, applied, mode, sender, after, reader>>
    BY <1>2 DEF Prepare
  <2>4. /\ pending' \in [Docs -> {None} \cup [rev : Nat, content : SUBSET Requests]]
        /\ revision' \in Nat /\ void' \subseteq Requests
    <3>1. pending \in [Docs -> {None} \cup [rev : Nat, content : SUBSET Requests]]
          /\ revision \in Nat /\ void \subseteq Requests
      BY <1>0 DEF TypeOK
    <3> HIDE DEF base, d
    <3> QED BY <2>1, <2>2, <3>1 DEF overlay
  <2>5. w \in TaskState /\ w.pc = "apply" /\ w.item = r
    BY <1>0 DEF TypeOK, TaskState
  <2>6. worker' \in [Gens -> TaskState] /\ \A h \in Gens : Held(h)'
    <3> HIDE DEF w
    <3>1. closed' = closed
      BY <2>3 DEF channels
    <3> QED BY <2>1, <2>2, <2>5, <3>1, NoTaskTyped, WorkerTyped DEF Busy
  <2>7. /\ pc' = [pc EXCEPT ![r] = "done"]
        /\ answer' \in [Requests -> Acked \cup {None, "error", "timeout"}]
    <3>1. Answer(r, "queued") \/ Answer(r, "error")
      BY <2>2
    <3>2. answer \in [Requests -> Acked \cup {None, "error", "timeout"}]
      BY <1>0 DEF TypeOK
    <3> HIDE DEF base, d, w
    <3> QED BY <2>1, <3>1, <3>2 DEF Answer, Acked
  <2> HIDE DEF base, d, w
  <2> QED BY <1>0, <2>1, <2>3, <2>4, <2>6, <2>7 DEF TypeOK, channels, HasSender
<1>3. CASE Apply(g)
  <2>1. r \in Requests
    BY <1>0, <1>3 DEF Apply, Busy
  <2>2. UNCHANGED <<made, queue, closed, revision, mode, sender, after, reader>>
    BY <1>3 DEF Apply
  <2>3. /\ applied' \in Seq(Requests) /\ void' \subseteq Requests
        /\ durable' \in [Docs -> SUBSET Requests] /\ current' \in {current, None}
        /\ pending' \in [Docs -> {None} \cup [rev : Nat, content : SUBSET Requests]]
    BY <1>0, <1>3, <2>1, HandlerEffect DEF Apply
  <2>4. worker' \in [Gens -> TaskState] /\ \A h \in Gens : Held(h)'
    <3>1. worker' = Work(g, "check") \/ worker' = [worker EXCEPT ![g] = NoTask]
      BY <1>3 DEF Apply
    <3> QED BY <2>1, <2>2, <3>1, NoTaskTyped, WorkTyped, WorkerTyped DEF Busy
  <2>5. /\ pc' \in {pc, [pc EXCEPT ![r] = "done"]}
        /\ answer' \in [Requests -> Acked \cup {None, "error", "timeout"}]
    <3>1. Answer(r, "committed") \/ Answer(r, "error") \/ UNCHANGED <<answer, pc>>
      BY <1>3 DEF Apply
    <3> QED BY <1>0, <2>1, <3>1 DEF TypeOK, Answer, Acked
  <2>6. current' \in Gens \cup {None}
    BY <1>0, <2>3 DEF TypeOK
  <2>7. pc' \in [Requests -> {"new", "again", "send", "wait", "direct", "done"}]
    BY <1>0, <2>5 DEF TypeOK
  <2> QED BY <1>0, <2>2, <2>3, <2>4, <2>5, <2>6, <2>7 DEF TypeOK, HasSender
<1>4. CASE ClearCheck(g) \/ IdleTimeout(g)
  <2>1. UNCHANGED <<channels, overlay, data, requests, reader>>
    BY <1>4 DEF ClearCheck, IdleTimeout
  <2>2. worker' \in [Gens -> TaskState] /\ \A h \in Gens : Held(h)'
    <3>1. \/ worker' = Work(g, "clear") /\ worker[g].pc = "check"
          \/ worker' = Work(g, "idle") \/ worker' = [worker EXCEPT ![g] = NoTask]
      BY <1>4 DEF ClearCheck, IdleTimeout
    <3> QED BY <1>0, <2>1, <3>1, NoTaskTyped, WorkTyped, WorkerTyped DEF Busy, channels
  <2> QED BY <1>0, <2>1, <2>2 DEF TypeOK, channels, overlay, data, requests, HasSender
<1>5. CASE ClearRemove(g)
  <2>1. /\ UNCHANGED <<channels, revision, data, requests, reader>>
        /\ pending' = [pending EXCEPT ![DocOf[r]] = None]
        /\ worker' = [worker EXCEPT ![g] = NoTask]
    BY <1>5 DEF ClearRemove
  <2>2. worker' \in [Gens -> TaskState] /\ \A h \in Gens : Held(h)'
    BY <2>1, NoTaskTyped, WorkerTyped DEF Busy, channels
  <2>3. pending' \in [Docs -> {None} \cup [rev : Nat, content : SUBSET Requests]]
    BY <1>0, <2>1 DEF TypeOK
  <2> QED BY <1>0, <2>1, <2>2, <2>3 DEF TypeOK, channels, data, requests, HasSender
<1>6. CASE Close(g) \/ Retire(g) \/ Exit(g)
  <2>1. /\ UNCHANGED <<made, queue, overlay, data, requests, reader>>
        /\ current' \in {current, None}
        /\ closed' \in {closed, [closed EXCEPT ![g] = TRUE]}
        /\ \/ worker' \in {Work(g, "retire"), Work(g, "recv")}
           \/ worker' = Work(g, "gone") /\ closed[g]
    BY <1>6 DEF Close, Retire, Exit, AfterRetire
  <2>2. /\ current' \in Gens \cup {None} /\ closed' \in [Gens -> BOOLEAN]
        /\ \A h \in Gens : closed[h] => closed'[h]
    BY <1>0, <2>1 DEF TypeOK
  <2>3. worker' \in [Gens -> TaskState] /\ \A h \in Gens : Held(h)'
    BY <2>1, <2>2, WorkTyped, WorkerTyped DEF Busy
  <2> QED BY <1>0, <2>1, <2>2, <2>3 DEF TypeOK, overlay, data, requests, HasSender
<1> QED BY <1>1, <1>2, <1>3, <1>4, <1>5, <1>6 DEF Task

LEMMA QueryTyped ==
  ASSUME Typed, NEW q \in Readers, ReadRows(q) \/ ReadOverlay(q)
  PROVE  Typed'
<1> USE DEF Typed
<1>1. UNCHANGED <<channels, worker, overlay, data, requests>>
  BY DEF ReadRows, ReadOverlay
<1>2. reader' \in [Readers -> [pc : {"idle", "overlay", "done"}, doc : Docs \cup {None},
                               seen : SUBSET Requests, due : SUBSET Requests]]
  <2>1. CASE ReadRows(q)
    <3>1. PICK d \in Docs :
            reader' = [reader EXCEPT ![q] = [pc |-> "overlay", doc |-> d, seen |-> durable[d],
                                             due |-> Due(d)]]
      BY <2>1 DEF ReadRows
    <3>2. Due(d) \subseteq Requests /\ durable[d] \subseteq Requests
      BY DEF Due, TypeOK
    <3> QED BY <3>1, <3>2 DEF TypeOK
  <2>2. CASE ReadOverlay(q)
    <3>0. reader[q].doc \in Docs
      BY <2>2 DEF ReadOverlay, HasDoc
    <3>1. /\ reader[q] \in [pc : {"idle", "overlay", "done"}, doc : Docs \cup {None},
                            seen : SUBSET Requests, due : SUBSET Requests]
          /\ pending \in [Docs -> {None} \cup [rev : Nat, content : SUBSET Requests]]
      BY DEF TypeOK
    <3> DEFINE entry == pending[reader[q].doc]
               seen == IF entry # None THEN entry.content ELSE reader[q].seen
    <3>2. seen \subseteq Requests
      BY <3>0, <3>1
    <3> QED BY <2>2, <3>1, <3>2 DEF ReadOverlay, TypeOK
  <2> QED BY <2>1, <2>2
<1>3. \A p \in Readers : HasDoc(p)'
  <2>1. CASE ReadRows(q)
    <3>1. PICK d \in Docs :
            reader' = [reader EXCEPT ![q] = [pc |-> "overlay", doc |-> d, seen |-> durable[d],
                                             due |-> Due(d)]]
      BY <2>1 DEF ReadRows
    <3> QED BY <3>1 DEF HasDoc, TypeOK
  <2>2. CASE ReadOverlay(q)
    BY <2>2 DEF ReadOverlay, HasDoc, TypeOK
  <2> QED BY <2>1, <2>2
<1> QED BY <1>1, <1>2, <1>3 DEF TypeOK, Held, HasSender, channels, overlay, data, requests
------------------------------------------------------------------------------
(* NothingLost: what an acknowledged write is kept by. *)
Kept(r) ==
  \/ r \in ToSet(applied) \cup void
  \/ \E g \in Gens : /\ worker[g].pc # "gone"
                     /\ \/ r \in ToSet(queue[g])
                        \/ worker[g].pc \in {"prepare", "apply"} /\ worker[g].item = r

LEMMA RequestKeeps ==
  ASSUME IInv, NEW r \in Requests, Request(r) \/ GiveUp(r)
  PROVE  NothingLost'
<1>1. /\ Typed /\ TypeOK /\ \A s \in Requests : answer[s] = "queued" => Kept(s)
      /\ None # "queued" /\ "committed" # "queued" /\ "error" # "queued" /\ "timeout" # "queued"
  BY WriteQueueAssumption DEF IInv, Typed, NothingLost, Kept
<1> SUFFICES ASSUME NEW s \in Requests, answer'[s] = "queued" PROVE Kept(s)'
  BY DEF NothingLost, Kept
<1>2. CASE TrySend(r)
  <2> DEFINE g == sender[r]
  <2>1. /\ g \in Gens /\ queue[g] \in Seq(Requests)
        /\ UNCHANGED <<worker, applied, void>>
    BY <1>1, <1>2 DEF TrySend, Typed, HasSender, TypeOK, data
  <2>2. CASE /\ ~closed[g] /\ queue' = [queue EXCEPT ![g] = Append(@, r)]
             /\ Answer(r, "queued")
    <3>1. ToSet(queue'[g]) = ToSet(queue[g]) \cup {r}
      BY <1>1, <2>1, <2>2, SentElements DEF TypeOK
    <3>2. \A h \in Gens : ToSet(queue[h]) \subseteq ToSet(queue'[h])
      BY <1>1, <2>1, <2>2, <3>1 DEF TypeOK
    <3>3. worker[g].pc # "gone"
      BY <1>1, <2>1, <2>2 DEF Typed, Held
    <3>4. CASE s = r
      BY <2>1, <3>1, <3>3, <3>4 DEF Kept
    <3>5. CASE s # r
      <4>1. Kept(s)
        BY <1>1, <2>2, <3>5 DEF Answer, TypeOK
      <4> QED BY <2>1, <3>2, <4>1 DEF Kept
    <3> QED BY <3>4, <3>5
  <2>3. CASE UNCHANGED <<queue, answer>>
    <3>1. Kept(s)
      BY <1>1, <2>3
    <3> QED BY <2>1, <2>3, <3>1 DEF Kept
  <2> QED BY <1>2, <2>2, <2>3 DEF TrySend
<1>3. CASE Send(r)
  <2> DEFINE g == sender[r]
  <2>1. /\ g \in Gens /\ queue[g] \in Seq(Requests)
        /\ UNCHANGED <<worker, applied, void, answer>>
    BY <1>1, <1>3 DEF Send, Sent, Typed, HasSender, TypeOK, data
  <2>2. \A h \in Gens : ToSet(queue[h]) \subseteq ToSet(queue'[h])
    <3>1. CASE queue' = [queue EXCEPT ![g] = Append(@, r)]
      <4>1. ToSet(queue[g]) \subseteq ToSet(queue'[g])
        BY <1>1, <2>1, <3>1, SentElements DEF TypeOK
      <4> QED BY <1>1, <3>1, <4>1 DEF TypeOK
    <3>2. CASE queue' = queue
      BY <3>2
    <3> QED BY <1>3, <3>1, <3>2 DEF Send
  <2>3. Kept(s)
    BY <1>1, <2>1
  <2> QED BY <2>1, <2>2, <2>3 DEF Kept
<1>4. CASE Acquire(r)
  BY <1>1, <1>4 DEF Acquire, Kept, data
<1>5. CASE Direct(r) \/ GiveUp(r)
  <2>1. /\ UNCHANGED <<queue, worker>>
        /\ \E a \in {"committed", "error", "timeout"} :
             answer' \in {[answer EXCEPT ![r] = a],
                          [answer EXCEPT ![r] = IF @ = None THEN a ELSE @]}
        /\ Effect(r) \/ NoEffect(r) \/ UNCHANGED data
    BY <1>5 DEF Direct, GiveUp, Answer
  <2>2. ToSet(applied) \cup void \subseteq ToSet(applied') \cup void'
    BY <1>1, <2>1, HandlerEffect DEF data
  <2>3. answer[s] = "queued"
    BY <1>1, <2>1 DEF TypeOK
  <2> QED BY <1>1, <2>1, <2>2, <2>3 DEF Kept
<1> QED BY <1>2, <1>3, <1>4, <1>5 DEF Request

LEMMA TaskKeeps ==
  ASSUME IInv, NEW g \in Gens, Task(g) \/ IdleTimeout(g)
  PROVE  NothingLost'
<1> DEFINE r == worker[g].item
<1>1. /\ Typed /\ TypeOK /\ \A s \in Requests : answer[s] = "queued" => Kept(s)
      /\ None # "queued" /\ "committed" # "queued" /\ "error" # "queued" /\ "timeout" # "queued"
      /\ queue[g] \in Seq(Requests) /\ worker \in [Gens -> TaskState]
  BY WriteQueueAssumption DEF IInv, Typed, NothingLost, Kept, TypeOK
<1> SUFFICES ASSUME NEW s \in Requests, answer'[s] = "queued" PROVE Kept(s)'
  BY DEF NothingLost, Kept
<1>2. CASE Recv(g)
  <2>1. /\ ToSet(queue[g]) \subseteq ToSet(queue'[g]) \cup {Head(queue[g])}
        /\ \A h \in Gens : h # g => queue'[h] = queue[h] /\ worker'[h] = worker[h]
        /\ UNCHANGED <<applied, void, answer>> /\ worker[g].pc = "recv"
    BY <1>1, <1>2, ReceivedElements DEF Recv, Gone, TypeOK, data, requests
  <2>2. Kept(s)
    BY <1>1, <2>1
  <2>3. CASE s = Head(queue[g])
    <3>1. /\ worker'[g].item = s /\ worker'[g].pc \in {"prepare", "apply"}
      BY <1>1, <1>2, <2>1, <2>3 DEF Recv, Gone, NoTask
    <3> QED BY <3>1 DEF Kept
  <2>4. CASE s # Head(queue[g])
    <3>1. worker'[g].pc # "gone"
      BY <1>1, <1>2, <2>1 DEF Recv, Gone, NoTask
    <3> QED BY <2>1, <2>2, <2>4, <3>1 DEF Kept
  <2> QED BY <2>3, <2>4
<1>3. CASE Prepare(g)
  <2>1. r \in Requests /\ UNCHANGED <<queue, applied>>
    BY <1>1, <1>3 DEF Prepare, Typed, Held, Busy, channels
  <2>2. CASE void' = void \cup {r} /\ Answer(r, "error") /\ worker' = [worker EXCEPT ![g] = NoTask]
    <3>1. answer[s] = "queued"
      BY <1>1, <2>1, <2>2 DEF Answer, TypeOK
    <3>2. \A h \in Gens : /\ worker[h].pc # "gone" => worker'[h].pc # "gone"
                          /\ worker[h].item # r => worker'[h] = worker[h]
      BY <1>1, <2>2, NoTaskTyped
    <3> QED BY <1>1, <2>1, <2>2, <3>1, <3>2 DEF Kept
  <2>3. CASE UNCHANGED void /\ worker' = [worker EXCEPT ![g].pc = "apply", ![g].rev = revision]
    <3>1. /\ worker'[g].pc = "apply" /\ worker'[g].item = r
          /\ \A h \in Gens : h # g => worker'[h] = worker[h]
      BY <1>1, <2>3 DEF TaskState
    <3>2. CASE s = r
      BY <3>1, <3>2 DEF Kept
    <3>3. CASE s # r
      <4>1. answer[s] = "queued"
        BY <1>1, <1>3, <2>1, <3>3 DEF Prepare, Answer, TypeOK
      <4> QED BY <1>1, <2>1, <2>3, <3>1, <3>3, <4>1 DEF Kept
    <3> QED BY <3>2, <3>3
  <2> QED BY <1>3, <2>2, <2>3 DEF Prepare
<1>4. CASE Apply(g)
  <2>1. r \in Requests /\ UNCHANGED queue /\ (Effect(r) \/ NoEffect(r))
    BY <1>1, <1>4 DEF Apply, Typed, Held, Busy
  <2>2. ToSet(applied) \cup void \cup {r} \subseteq ToSet(applied') \cup void'
    BY <1>1, <2>1, HandlerEffect
  <2>3. answer[s] = "queued"
    <3>1. Answer(r, "committed") \/ Answer(r, "error") \/ UNCHANGED answer
      BY <1>4 DEF Apply
    <3> QED BY <1>1, <2>1, <3>1 DEF Answer, TypeOK
  <2>4. \A h \in Gens : /\ worker[h].pc # "gone" => worker'[h].pc # "gone"
                        /\ h # g => worker'[h] = worker[h]
    <3>1. CASE worker' = Work(g, "check")
      BY <1>1, <3>1 DEF Work, TaskState
    <3>2. CASE worker' = [worker EXCEPT ![g] = NoTask]
      BY <1>1, <3>2, NoTaskTyped
    <3> QED BY <1>4, <3>1, <3>2 DEF Apply
  <2> QED BY <1>1, <2>1, <2>2, <2>3, <2>4 DEF Kept
<1>5. CASE ClearCheck(g) \/ ClearRemove(g) \/ IdleTimeout(g) \/ Close(g) \/ Retire(g) \/ Exit(g)
  <2>1. /\ UNCHANGED <<queue, applied, void, answer>>
        /\ worker[g].pc \notin {"prepare", "apply"}
        /\ \/ \E l \in {"clear", "idle", "retire", "recv"} : worker' = Work(g, l)
           \/ worker' = [worker EXCEPT ![g] = NoTask]
           \/ worker' = Work(g, "gone") /\ queue[g] = <<>>
    BY <1>5 DEF ClearCheck, ClearRemove, IdleTimeout, Close, Retire, Exit, AfterRetire,
                channels, data, requests
  <2>2. \A h \in Gens : h # g => worker'[h] = worker[h]
    BY <1>1, <2>1 DEF Work
  <2>3. worker'[g].pc # "gone" \/ ToSet(queue[g]) = {}
    <3>1. ASSUME NEW l \in {"clear", "idle", "retire", "recv"}, worker' = Work(g, l)
          PROVE  worker'[g].pc # "gone"
      BY <1>1, <3>1 DEF Work, TaskState
    <3>2. CASE worker' = [worker EXCEPT ![g] = NoTask]
      BY <1>1, <3>2, NoTaskTyped
    <3>3. CASE queue[g] = <<>>
      BY <3>3 DEF ToSet
    <3> QED BY <2>1, <3>1, <3>2, <3>3
  <2>4. Kept(s)
    BY <1>1, <2>1
  <2> QED BY <2>1, <2>2, <2>3, <2>4 DEF Kept
<1> QED BY <1>2, <1>3, <1>4, <1>5 DEF Task

LEMMA NextIInv == IInv /\ [Next]_vars => IInv'
<1> SUFFICES ASSUME IInv, [Next]_vars PROVE IInv'
  OBVIOUS
<1>0. Typed
  BY DEF IInv
<1>1. ASSUME NEW r \in Requests, Request(r) \/ GiveUp(r) PROVE IInv'
  BY <1>0, <1>1, RequestTyped, RequestKeeps DEF IInv
<1>2. ASSUME NEW g \in Gens, Task(g) \/ IdleTimeout(g) PROVE IInv'
  BY <1>0, <1>2, TaskTyped, TaskKeeps DEF IInv
<1>3. ASSUME NEW q \in Readers, ReadRows(q) \/ ReadOverlay(q) PROVE IInv'
  <2>1. UNCHANGED <<answer, applied, void, queue, worker>>
    BY <1>3 DEF ReadRows, ReadOverlay, channels, data, requests
  <2> QED BY <1>0, <1>3, <2>1, QueryTyped DEF IInv, NothingLost
<1>4. CASE UNCHANGED vars
  BY <1>4 DEF vars, channels, overlay, data, requests, IInv, Typed, TypeOK, Held, HasSender,
              HasDoc, NothingLost
<1> QED BY <1>1, <1>2, <1>3, <1>4 DEF Next

(* The variables keep their types, and a channel never holds more than its    *)
(* capacity, for any number of requests, documents and generations.           *)
THEOREM TypeCorrect == Spec => []TypeOK
<1>1. IInv => TypeOK
  BY DEF IInv, Typed
<1> QED BY InitIInv, NextIInv, <1>1, PTL DEF Spec

(* state.rs:648: generations retire without losing queued work, whatever the  *)
(* interleaving of senders, time-outs, delete_db and the tasks.               *)
THEOREM QueuedWorkKept == Spec => []NothingLost
<1>1. IInv => NothingLost
  BY DEF IInv
<1> QED BY InitIInv, NextIInv, <1>1, PTL DEF Spec
------------------------------------------------------------------------------
(* AppliedOnce: a write is in one place at a time, in one channel, with one   *)
(* task or applied, and in none before it is sent or after it failed.         *)

Holding(r, g) == worker[g].pc \in {"prepare", "apply"} /\ worker[g].item = r
Queued(r, g) == r \in ToSet(queue[g])
Fresh(r) == pc[r] \in {"new", "again", "send", "direct"} \/ answer[r] = "error"
Distinct(s) == \A i, j \in DOMAIN s : i # j => s[i] # s[j]

OncePlaced ==
  /\ \A r \in Requests :
       /\ Fresh(r) => r \notin ToSet(applied)
       /\ Fresh(r) \/ r \in ToSet(applied) =>
            \A g \in Gens : ~Queued(r, g) /\ ~Holding(r, g)
       /\ answer[r] = "error" => pc[r] = "done"
       /\ \A g, h \in Gens :
            /\ Holding(r, g) => ~Queued(r, h) /\ (Holding(r, h) => g = h)
            /\ Queued(r, g) /\ Queued(r, h) => g = h
  /\ \A g \in Gens : Distinct(queue[g])
  /\ Distinct(applied)

(* Sequences without repetitions. *)
LEMMA DistinctAppend ==
  ASSUME NEW S, NEW s \in Seq(S), Distinct(s), NEW e \in S, e \notin ToSet(s)
  PROVE  Distinct(Append(s, e))
<1>1. /\ DOMAIN Append(s, e) = 1..(Len(s) + 1) /\ DOMAIN s = 1..Len(s) /\ Len(s) \in Nat
      /\ \A i \in 1..Len(s) : Append(s, e)[i] = s[i]
      /\ Append(s, e)[Len(s) + 1] = e
  BY AppendProperties, LenProperties
<1>2. \A i \in 1..Len(s) : s[i] # e
  BY <1>1 DEF ToSet
<1>3. \A i \in 1..(Len(s) + 1) : i \in 1..Len(s) \/ i = Len(s) + 1
  BY <1>1
<1> QED BY <1>1, <1>2, <1>3 DEF Distinct

LEMMA DistinctTail ==
  ASSUME NEW S, NEW s \in Seq(S), s # <<>>, Distinct(s)
  PROVE  /\ Distinct(Tail(s)) /\ Head(s) \in ToSet(s)
         /\ Head(s) \notin ToSet(Tail(s)) /\ ToSet(Tail(s)) \subseteq ToSet(s)
<1>1. /\ Len(Tail(s)) = Len(s) - 1 /\ DOMAIN Tail(s) = 1..(Len(s) - 1)
      /\ \A i \in 1..(Len(s) - 1) : Tail(s)[i] = s[i + 1]
      /\ Len(s) \in Nat \ {0} /\ Head(s) = s[1] /\ DOMAIN s = 1..Len(s)
  BY HeadTailProperties, EmptySeq, LenProperties
<1>2. \A i \in 1..(Len(s) - 1) : i + 1 \in 1..Len(s) /\ i + 1 # 1
  BY <1>1
<1>3. Distinct(Tail(s))
  <2> SUFFICES ASSUME NEW i \in 1..(Len(s) - 1), NEW j \in 1..(Len(s) - 1), i # j
               PROVE  Tail(s)[i] # Tail(s)[j]
    BY <1>1 DEF Distinct
  <2>1. i + 1 # j + 1
    BY <1>1
  <2> QED BY <1>1, <1>2, <2>1 DEF Distinct
<1>4. ASSUME NEW i \in 1..(Len(s) - 1) PROVE Tail(s)[i] # Head(s) /\ Tail(s)[i] \in ToSet(s)
  <2>1. 1 \in DOMAIN s /\ i + 1 \in DOMAIN s /\ i + 1 # 1
    BY <1>1, <1>2
  <2> QED BY <1>1, <2>1 DEF Distinct, ToSet
<1>5. 1 \in 1..Len(s)
  BY <1>1
<1> QED BY <1>1, <1>3, <1>4, <1>5 DEF ToSet

(* A step that moves no write, but may let go of one that failed. *)
LEMMA NothingMoves ==
  ASSUME OncePlaced, UNCHANGED <<queue, applied>>,
         \A s \in Requests, g \in Gens : Holding(s, g)' => Holding(s, g),
         \A s \in Requests :
           /\ answer'[s] = "error" => pc'[s] = "done"
           /\ Fresh(s)' => Fresh(s) \/ \E g \in Gens : Holding(s, g) /\ ~Holding(s, g)'
  PROVE  OncePlaced'
<1>1. \A s \in Requests, g \in Gens : Queued(s, g)' <=> Queued(s, g)
  BY DEF Queued
<1>2. ASSUME NEW s \in Requests, Fresh(s)'
      PROVE  s \notin ToSet(applied') /\ \A g \in Gens : ~Queued(s, g)' /\ ~Holding(s, g)'
  BY <1>1, <1>2 DEF OncePlaced
<1>3. ASSUME NEW s \in Requests, s \in ToSet(applied')
      PROVE  \A g \in Gens : ~Queued(s, g)' /\ ~Holding(s, g)'
  BY <1>1, <1>3 DEF OncePlaced
<1>4. \A s \in Requests : \A g, h \in Gens :
        /\ Holding(s, g)' => ~Queued(s, h)' /\ (Holding(s, h)' => g = h)
        /\ Queued(s, g)' /\ Queued(s, h)' => g = h
  BY <1>1 DEF OncePlaced
<1>5. Distinct(applied') /\ \A g \in Gens : Distinct(queue'[g])
  BY DEF OncePlaced
<1>6. /\ Distinct(applied)' /\ \A g \in Gens : Distinct(queue[g])'
      /\ \A s \in Requests : (s \notin ToSet(applied))' <=> s \notin ToSet(applied')
  BY <1>5 DEF Distinct, ToSet
<1> QED BY <1>2, <1>3, <1>4, <1>6 DEF OncePlaced

(* A write no channel holds takes effect; its task, if any, lets go of it. *)
LEMMA TakesEffect ==
  ASSUME TypeOK, OncePlaced, NEW r \in Requests, UNCHANGED queue, applied' = Append(applied, r),
         r \notin ToSet(applied), \A g \in Gens : ~Queued(r, g) /\ ~Holding(r, g)',
         \A s \in Requests, g \in Gens : Holding(s, g)' => Holding(s, g),
         \A s \in Requests : /\ answer'[s] = "error" => pc'[s] = "done"
                             /\ Fresh(s)' => Fresh(s) /\ s # r
  PROVE  OncePlaced'
<1>1. \A s \in Requests, g \in Gens : Queued(s, g)' <=> Queued(s, g)
  BY DEF Queued
<1>2. applied \in Seq(Requests) /\ ToSet(applied') = ToSet(applied) \cup {r}
  BY SentElements DEF TypeOK
<1>3. Distinct(applied')
  BY <1>2, DistinctAppend DEF OncePlaced
<1>4. ASSUME NEW s \in Requests, Fresh(s)'
      PROVE  s \notin ToSet(applied') /\ \A g \in Gens : ~Queued(s, g)' /\ ~Holding(s, g)'
  BY <1>1, <1>2, <1>4 DEF OncePlaced
<1>5. ASSUME NEW s \in Requests, s \in ToSet(applied')
      PROVE  \A g \in Gens : ~Queued(s, g)' /\ ~Holding(s, g)'
  BY <1>1, <1>2, <1>5 DEF OncePlaced
<1>6. \A s \in Requests : \A g, h \in Gens :
        /\ Holding(s, g)' => ~Queued(s, h)' /\ (Holding(s, h)' => g = h)
        /\ Queued(s, g)' /\ Queued(s, h)' => g = h
  BY <1>1 DEF OncePlaced
<1>7. /\ Distinct(applied)' /\ \A g \in Gens : Distinct(queue[g])'
      /\ \A s \in Requests : (s \notin ToSet(applied))' <=> s \notin ToSet(applied')
  BY <1>3 DEF Distinct, ToSet, OncePlaced
<1> QED BY <1>4, <1>5, <1>6, <1>7 DEF OncePlaced

(* A write that is sent joins one channel. *)
LEMMA JoinsChannel ==
  ASSUME TypeOK, OncePlaced, NEW r \in Requests, NEW g \in Gens,
         queue' = [queue EXCEPT ![g] = Append(@, r)], UNCHANGED <<worker, applied>>,
         pc[r] = "send",
         \A s \in Requests : /\ answer'[s] = "error" => pc'[s] = "done"
                             /\ Fresh(s)' => Fresh(s) /\ s # r
  PROVE  OncePlaced'
<1>1. \A s \in Requests, h \in Gens : Holding(s, h)' <=> Holding(s, h)
  BY DEF Holding
<1>2. /\ Fresh(r) /\ r \notin ToSet(applied)
      /\ \A h \in Gens : ~Queued(r, h) /\ ~Holding(r, h)
  BY DEF OncePlaced, Fresh
<1>3. /\ queue[g] \in Seq(Requests) /\ queue'[g] = Append(queue[g], r)
      /\ \A h \in Gens : h # g => queue'[h] = queue[h]
  BY DEF TypeOK
<1>4. \A s \in Requests, h \in Gens : Queued(s, h)' <=> Queued(s, h) \/ (s = r /\ h = g)
  <2>1. ToSet(queue'[g]) = ToSet(queue[g]) \cup {r}
    BY <1>3, SentElements
  <2>2. ASSUME NEW s, NEW h \in Gens PROVE Queued(s, h)' <=> s \in ToSet(queue'[h])
    BY DEF Queued, ToSet
  <2> QED BY <1>3, <2>1, <2>2 DEF Queued
<1>5. \A h \in Gens : Distinct(queue'[h])
  BY <1>2, <1>3, DistinctAppend DEF OncePlaced, Queued
<1>6. ASSUME NEW s \in Requests, Fresh(s)'
      PROVE  s \notin ToSet(applied') /\ \A h \in Gens : ~Queued(s, h)' /\ ~Holding(s, h)'
  BY <1>1, <1>4, <1>6 DEF OncePlaced
<1>7. ASSUME NEW s \in Requests, s \in ToSet(applied')
      PROVE  \A h \in Gens : ~Queued(s, h)' /\ ~Holding(s, h)'
  BY <1>1, <1>2, <1>4, <1>7 DEF OncePlaced
<1>8. \A s \in Requests : \A k, h \in Gens :
        /\ Holding(s, k)' => ~Queued(s, h)' /\ (Holding(s, h)' => k = h)
        /\ Queued(s, k)' /\ Queued(s, h)' => k = h
  BY <1>1, <1>2, <1>4 DEF OncePlaced
<1>9. /\ Distinct(applied)' /\ \A h \in Gens : Distinct(queue[h])'
      /\ \A s \in Requests : (s \notin ToSet(applied))' <=> s \notin ToSet(applied')
  BY <1>5 DEF Distinct, ToSet, OncePlaced
<1> QED BY <1>6, <1>7, <1>8, <1>9 DEF OncePlaced

LEMMA RequestOnce ==
  ASSUME Typed, OncePlaced, NEW r \in Requests, Request(r) \/ GiveUp(r)
  PROVE  OncePlaced'
<1>1. /\ TypeOK /\ \A s \in Requests : answer[s] = "error" => pc[s] = "done"
      /\ pc \in [Requests -> {"new", "again", "send", "wait", "direct", "done"}]
      /\ answer \in [Requests -> Acked \cup {None, "error", "timeout"}]
  BY DEF Typed, TypeOK, OncePlaced
<1>2. CASE Acquire(r)
  <2>1. UNCHANGED <<queue, applied, worker, answer>> /\ pc[r] \in {"new", "again"}
        /\ pc' = [pc EXCEPT ![r] = "send"]
    BY <1>2 DEF Acquire, data
  <2>2. \A s \in Requests : (answer'[s] = "error" => pc'[s] = "done") /\ (Fresh(s)' => Fresh(s))
    BY <1>1, <2>1 DEF Fresh
  <2>3. \A s \in Requests, g \in Gens : Holding(s, g)' => Holding(s, g)
    BY <2>1 DEF Holding
  <2> QED BY <2>1, <2>2, <2>3, NothingMoves
<1>3. CASE TrySend(r) \/ Send(r)
  <2>1. /\ UNCHANGED <<worker, applied>> /\ pc[r] = "send" /\ sender[r] \in Gens
        /\ \A s \in Requests : s # r => pc'[s] = pc[s] /\ answer'[s] = answer[s]
        /\ answer'[r] = "error" => answer[r] = "error"
    BY <1>1, <1>3 DEF TrySend, Send, Sent, Answer, Fallback, data, Typed, HasSender
  <2>2. \A s \in Requests : (answer'[s] = "error" => pc'[s] = "done")
    BY <1>1, <2>1
  <2>3. CASE queue' = [queue EXCEPT ![sender[r]] = Append(@, r)] /\ pc'[r] \in {"wait", "done"}
    <3>1. \A s \in Requests : Fresh(s)' => Fresh(s) /\ s # r
      BY <1>1, <2>1, <2>3 DEF Fresh
    <3> QED BY <1>1, <2>1, <2>2, <2>3, <3>1, JoinsChannel
  <2>4. CASE queue' = queue
    <3>1. \A s \in Requests : Fresh(s)' => Fresh(s)
      BY <2>1 DEF Fresh
    <3>2. \A s \in Requests, g \in Gens : Holding(s, g)' => Holding(s, g)
      BY <2>1 DEF Holding
    <3> QED BY <2>1, <2>2, <2>4, <3>1, <3>2, NothingMoves
  <2> QED BY <1>1, <1>3, <2>3, <2>4 DEF TrySend, Send, Sent, Answer
<1>4. CASE Direct(r) \/ GiveUp(r)
  <2>1. /\ UNCHANGED <<queue, worker>> /\ pc[r] \in {"again", "send", "wait", "direct"}
        /\ \A s \in Requests : s # r => pc'[s] = pc[s] /\ answer'[s] = answer[s]
        /\ pc'[r] = "done"
    BY <1>1, <1>4 DEF Direct, GiveUp, Answer, AfterTimeout
  <2>2. \A s \in Requests : (answer'[s] = "error" => pc'[s] = "done")
    BY <1>1, <2>1
  <2>3. \A s \in Requests, g \in Gens : Holding(s, g)' => Holding(s, g)
    BY <2>1 DEF Holding
  <2>4. CASE pc[r] = "direct" /\ Effect(r) /\ answer'[r] # "error"
    <3>1. /\ applied' = Append(applied, r) /\ r \notin ToSet(applied)
          /\ \A g \in Gens : ~Queued(r, g) /\ ~Holding(r, g)'
      BY <2>1, <2>3, <2>4 DEF Effect, OncePlaced, Fresh
    <3>2. \A s \in Requests : Fresh(s)' => Fresh(s) /\ s # r
      BY <2>1, <2>4 DEF Fresh
    <3> QED BY <1>1, <2>1, <2>2, <2>3, <3>1, <3>2, TakesEffect
  <2>5. CASE applied' = applied /\ (pc[r] = "direct" \/ answer'[r] # "error")
    <3>1. \A s \in Requests : Fresh(s)' => Fresh(s)
      BY <2>1, <2>5 DEF Fresh
    <3> QED BY <2>1, <2>2, <2>3, <2>5, <3>1, NothingMoves
  <2>6. /\ Direct(r) /\ Effect(r) => answer'[r] # "error"
        /\ GiveUp(r) => answer'[r] # "error"
    <3>1. None \notin {"committed", "error", "timeout"} /\ answer[r] # "error"
      BY <1>1, <2>1, WriteQueueAssumption
    <3>2. CASE Direct(r) /\ Effect(r)
      <4>1. pc[r] = "direct" /\ (Answer(r, "committed") \/ NoEffect(r))
        BY <3>2 DEF Direct
      <4>2. ~NoEffect(r)
        <5>1. applied \in Seq(Requests) /\ applied' = Append(applied, r)
          BY <1>1, <3>2 DEF Effect, TypeOK
        <5>2. Len(applied') = Len(applied) + 1 /\ Len(applied) \in Nat
          BY <5>1, AppendProperties
        <5> QED BY <5>2 DEF NoEffect
      <4> QED BY <1>1, <3>1, <4>1, <4>2 DEF Answer
    <3>3. CASE GiveUp(r)
      BY <1>1, <3>3 DEF GiveUp
    <3> QED BY <3>2, <3>3
  <2>7. \/ pc[r] = "direct" /\ Effect(r)
        \/ applied' = applied /\ (pc[r] = "direct" \/ GiveUp(r))
    BY <1>4 DEF Direct, GiveUp, NoEffect, data
  <2> QED BY <1>4, <2>4, <2>5, <2>6, <2>7
<1> QED BY <1>2, <1>3, <1>4 DEF Request

LEMMA RecvOnce ==
  ASSUME Typed, OncePlaced, NEW g \in Gens, Recv(g)
  PROVE  OncePlaced'
<1>0. PICK r : r = Head(queue[g])
  OBVIOUS
<1>1. /\ queue \in [Gens -> Seq(Requests)] /\ worker \in [Gens -> TaskState]
      /\ queue[g] # <<>> /\ queue' = [queue EXCEPT ![g] = Tail(@)] /\ worker[g].pc = "recv"
      /\ UNCHANGED <<pc, answer, applied>>
  BY DEF Recv, Gone, Typed, TypeOK, requests, data
<1>2. /\ r \in Requests /\ r \in ToSet(queue[g]) /\ r \notin ToSet(Tail(queue[g]))
      /\ ToSet(Tail(queue[g])) \subseteq ToSet(queue[g]) /\ Distinct(Tail(queue[g]))
  BY <1>0, <1>1, DistinctTail, ReceivedElements DEF OncePlaced
<1>3. \/ worker' = worker
      \/ /\ worker'[g].item = r
         /\ \A h \in Gens : h # g => worker'[h] = worker[h]
  <2>1. \A l : [NoTask EXCEPT !.pc = l, !.item = r].item = r
    BY DEF NoTask
  <2> QED BY <1>0, <1>1, <2>1 DEF Recv, Gone
<1>4. \A s \in Requests, h \in Gens :
        /\ Queued(s, h)' => Queued(s, h) /\ (h = g => s # r)
        /\ Holding(s, h)' => Holding(s, h) \/ (s = r /\ h = g)
  <2>1. ASSUME NEW s \in Requests, NEW h \in Gens, Queued(s, h)'
        PROVE  Queued(s, h) /\ (h = g => s # r)
    <3>1. s \in ToSet(queue'[h])
      BY <2>1 DEF Queued, ToSet
    <3>2. CASE h = g
      BY <1>1, <1>2, <3>1, <3>2 DEF Queued
    <3>3. CASE h # g
      BY <1>1, <3>1, <3>3 DEF Queued
    <3> QED BY <3>2, <3>3
  <2>2. ASSUME NEW s \in Requests, NEW h \in Gens, Holding(s, h)'
        PROVE  Holding(s, h) \/ (s = r /\ h = g)
    BY <1>3, <2>2 DEF Holding
  <2> QED BY <2>1, <2>2
<1>5. /\ Queued(r, g) /\ ~Fresh(r) /\ r \notin ToSet(applied)
      /\ \A h \in Gens : ~Queued(r, h)' /\ ~Holding(r, h) /\ (Queued(r, h) => h = g)
  <2>1. Queued(r, g)
    BY <1>2 DEF Queued
  <2>2. \A h \in Gens : ~Holding(r, h) /\ (Queued(r, h) => h = g)
    BY <1>2, <2>1 DEF OncePlaced
  <2>3. ~Fresh(r) /\ r \notin ToSet(applied)
    BY <1>2, <2>1 DEF OncePlaced
  <2> QED BY <1>2, <1>4, <2>1, <2>2, <2>3
<1>6. \A s \in Requests : /\ Fresh(s)' <=> Fresh(s)
                          /\ (s \in ToSet(applied))' <=> s \in ToSet(applied)
  BY <1>1 DEF Fresh, ToSet
<1>7. \A s \in Requests : Fresh(s) \/ s \in ToSet(applied) =>
        \A h \in Gens : ~Queued(s, h)' /\ ~Holding(s, h)'
  BY <1>4, <1>5 DEF OncePlaced
<1>8. \A s \in Requests : \A k, h \in Gens :
        /\ Holding(s, k)' => ~Queued(s, h)' /\ (Holding(s, h)' => k = h)
        /\ Queued(s, k)' /\ Queued(s, h)' => k = h
  BY <1>4, <1>5 DEF OncePlaced
<1>9. Distinct(applied)' /\ \A h \in Gens : Distinct(queue[h])'
  BY <1>1, <1>2 DEF Distinct, OncePlaced
<1> QED BY <1>1, <1>6, <1>7, <1>8, <1>9 DEF OncePlaced

LEMMA TaskOnce ==
  ASSUME Typed, OncePlaced, NEW g \in Gens, Task(g) \/ IdleTimeout(g)
  PROVE  OncePlaced'
<1>0. PICK r : r = worker[g].item
  OBVIOUS
<1>1. /\ TypeOK /\ \A s \in Requests : answer[s] = "error" => pc[s] = "done"
      /\ pc \in [Requests -> {"new", "again", "send", "wait", "direct", "done"}]
      /\ answer \in [Requests -> Acked \cup {None, "error", "timeout"}]
      /\ worker \in [Gens -> TaskState]
      /\ None \notin {"queued", "committed", "error", "timeout"}
  BY WriteQueueAssumption DEF Typed, TypeOK, OncePlaced
<1>2. CASE Recv(g)
  BY <1>2, RecvOnce
<1>3. CASE Prepare(g)
  <2>1. /\ UNCHANGED <<queue, applied>> /\ worker[g].pc = "prepare" /\ r \in Requests
        /\ Holding(r, g)
    BY <1>0, <1>3 DEF Prepare, Typed, Held, Busy, channels, Holding
  <2>2. CASE Answer(r, "queued") /\ worker' = [worker EXCEPT ![g].pc = "apply", ![g].rev = revision]
    <3>1. \A s \in Requests : (answer'[s] = "error" => pc'[s] = "done") /\ (Fresh(s)' => Fresh(s))
      BY <1>1, <2>1, <2>2 DEF Fresh, Answer
    <3>2. /\ worker'[g].item = r
          /\ \A h \in Gens : h # g => worker'[h] = worker[h]
      BY <1>0, <1>1, <2>2 DEF TaskState
    <3>3. \A s \in Requests, h \in Gens : Holding(s, h)' => Holding(s, h)
      BY <2>1, <3>2 DEF Holding
    <3> QED BY <2>1, <3>1, <3>3, NothingMoves
  <2>3. CASE Answer(r, "error") /\ worker' = [worker EXCEPT ![g] = NoTask]
    <3>1. worker'[g].pc = "recv" /\ \A h \in Gens : h # g => worker'[h] = worker[h]
      BY <1>1, <2>3, NoTaskTyped
    <3>2. ~Holding(r, g)' /\ \A s \in Requests, h \in Gens : Holding(s, h)' => Holding(s, h)
      BY <3>1 DEF Holding
    <3>3. \A s \in Requests : /\ answer'[s] = "error" => pc'[s] = "done"
                              /\ Fresh(s)' => Fresh(s) \/ s = r
      BY <1>1, <2>1, <2>3 DEF Fresh, Answer
    <3> QED BY <2>1, <3>2, <3>3, NothingMoves
  <2> QED BY <1>0, <1>3, <2>2, <2>3 DEF Prepare
<1>4. CASE Apply(g)
  <2>1. UNCHANGED queue /\ worker[g].pc = "apply" /\ r \in Requests /\ Holding(r, g)
    BY <1>0, <1>4 DEF Apply, Typed, Held, Busy, Holding
  <2>2. worker'[g].pc \in {"check", "recv"} /\ \A h \in Gens : h # g => worker'[h] = worker[h]
    <3>1. CASE worker' = Work(g, "check")
      BY <1>1, <3>1 DEF Work, TaskState
    <3>2. CASE worker' = [worker EXCEPT ![g] = NoTask]
      BY <1>1, <3>2, NoTaskTyped
    <3> QED BY <1>4, <3>1, <3>2 DEF Apply
  <2>3. ~Holding(r, g)' /\ \A s \in Requests, h \in Gens : Holding(s, h)' => Holding(s, h)
    BY <2>2 DEF Holding
  <2>4. CASE Effect(r) /\ (Answer(r, "committed") \/ UNCHANGED <<answer, pc>>)
    <3>1. \A s \in Requests : (answer'[s] = "error" => pc'[s] = "done") /\ (Fresh(s)' => Fresh(s))
      BY <1>1, <2>1, <2>4 DEF Fresh, Answer
    <3>2. ~Fresh(r) /\ r \notin ToSet(applied)
      BY <2>1 DEF OncePlaced
    <3>3. \A h \in Gens : ~Queued(r, h) /\ ~Holding(r, h)'
      BY <2>1, <2>3 DEF OncePlaced
    <3>4. applied' = Append(applied, r)
      BY <2>4 DEF Effect
    <3>5. \A s \in Requests : Fresh(s)' => Fresh(s) /\ s # r
      BY <3>1, <3>2
    <3> QED BY <1>1, <2>1, <2>3, <3>1, <3>2, <3>3, <3>4, <3>5, TakesEffect
  <2>5. CASE NoEffect(r) /\ (Answer(r, "error") \/ UNCHANGED <<answer, pc>>)
    <3>1. \A s \in Requests : /\ answer'[s] = "error" => pc'[s] = "done"
                              /\ Fresh(s)' => Fresh(s) \/ s = r
      BY <1>1, <2>1, <2>5 DEF Fresh, Answer
    <3>2. UNCHANGED applied
      BY <2>5 DEF NoEffect
    <3> QED BY <2>1, <2>3, <3>1, <3>2, NothingMoves
  <2> QED BY <1>0, <1>4, <2>4, <2>5 DEF Apply
<1>5. CASE ClearCheck(g) \/ ClearRemove(g) \/ IdleTimeout(g) \/ Close(g) \/ Retire(g) \/ Exit(g)
  <2>1. /\ UNCHANGED <<queue, applied, answer, pc>>
        /\ \/ \E l \in {"clear", "idle", "retire", "recv", "gone"} : worker' = Work(g, l)
           \/ worker' = [worker EXCEPT ![g] = NoTask]
    BY <1>5 DEF ClearCheck, ClearRemove, IdleTimeout, Close, Retire, Exit, AfterRetire,
                channels, data, requests
  <2>2. /\ worker'[g].pc \notin {"prepare", "apply"}
        /\ \A h \in Gens : h # g => worker'[h] = worker[h]
    <3>1. ASSUME NEW l \in {"clear", "idle", "retire", "recv", "gone"}, worker' = Work(g, l)
          PROVE  worker'[g].pc = l
      BY <1>1, <3>1 DEF Work, TaskState
    <3>2. CASE worker' = [worker EXCEPT ![g] = NoTask]
      BY <1>1, <3>2, NoTaskTyped
    <3>3. \A h \in Gens : h # g => worker'[h] = worker[h]
      BY <1>1, <2>1 DEF Work
    <3> QED BY <2>1, <3>1, <3>2, <3>3
  <2>3. \A s \in Requests, h \in Gens : Holding(s, h)' => Holding(s, h)
    BY <2>2 DEF Holding
  <2>4. \A s \in Requests : (answer'[s] = "error" => pc'[s] = "done") /\ (Fresh(s)' => Fresh(s))
    BY <1>1, <2>1 DEF Fresh
  <2> QED BY <2>1, <2>3, <2>4, NothingMoves
<1> QED BY <1>2, <1>3, <1>4, <1>5 DEF Task

LEMMA InitOnce == Init => OncePlaced
<1> SUFFICES ASSUME Init PROVE OncePlaced
  OBVIOUS
<1>1. applied = <<>> /\ \A g \in Gens : queue[g] = <<>> /\ worker[g].pc = "recv"
  BY DEF Init, NoTask
<1>2. ToSet(applied) = {} /\ \A g \in Gens : ToSet(queue[g]) = {}
  BY <1>1 DEF ToSet
<1>3. Distinct(applied) /\ \A g \in Gens : Distinct(queue[g])
  BY <1>1 DEF Distinct
<1>4. \A r \in Requests : answer[r] # "error"
  BY WriteQueueAssumption DEF Init
<1> QED BY <1>1, <1>2, <1>3, <1>4 DEF OncePlaced, Holding, Queued

LEMMA NextOnce == IInv /\ OncePlaced /\ [Next]_vars => OncePlaced'
<1> SUFFICES ASSUME IInv, OncePlaced, [Next]_vars PROVE OncePlaced'
  OBVIOUS
<1>1. ASSUME NEW r \in Requests, Request(r) \/ GiveUp(r) PROVE OncePlaced'
  BY <1>1, RequestOnce DEF IInv
<1>2. ASSUME NEW g \in Gens, Task(g) \/ IdleTimeout(g) PROVE OncePlaced'
  BY <1>2, TaskOnce DEF IInv
<1>3. ASSUME UNCHANGED <<queue, worker, applied, pc, answer>> PROVE OncePlaced'
  <2>1. \A s \in Requests : (answer'[s] = "error" => pc'[s] = "done") /\ (Fresh(s)' => Fresh(s))
    BY <1>3 DEF Fresh, OncePlaced
  <2>2. \A s \in Requests, h \in Gens : Holding(s, h)' => Holding(s, h)
    BY <1>3 DEF Holding
  <2> QED BY <1>3, <2>1, <2>2, NothingMoves
<1>4. ASSUME NEW q \in Readers, ReadRows(q) \/ ReadOverlay(q) PROVE OncePlaced'
  BY <1>3, <1>4 DEF ReadRows, ReadOverlay, channels, data, requests
<1>5. CASE UNCHANGED vars
  BY <1>3, <1>5 DEF vars, channels, data, requests
<1> QED BY <1>1, <1>2, <1>4, <1>5 DEF Next

LEMMA PlacedOnce == IInv /\ OncePlaced => AppliedOnce
<1> SUFFICES ASSUME IInv, OncePlaced PROVE AppliedOnce
  OBVIOUS
<1>1. \A i \in DOMAIN applied : applied[i] \in Requests /\ applied[i] \in ToSet(applied)
  BY DEF IInv, Typed, TypeOK, ToSet
<1>2. \A i \in DOMAIN applied : answer[applied[i]] # "error"
  BY <1>1 DEF OncePlaced, Fresh
<1> QED BY <1>2 DEF AppliedOnce, OncePlaced, Distinct

(* state.rs, dispatcher.rs: retries on a full or closed channel, fallbacks to *)
(* direct execution, time-outs and retirement never make a write take effect  *)
(* twice, and an error answer never hides an effect.                          *)
THEOREM WritesAppliedOnce == Spec => []AppliedOnce
<1> QED BY InitIInv, NextIInv, InitOnce, NextOnce, PlacedOnce, PTL DEF Spec
------------------------------------------------------------------------------
(* The current generation alone, step by step. *)
LEMMA InitSteady == Init => SteadyInv
<1> SUFFICES ASSUME Init PROVE SteadyInv
  OBVIOUS
<1>1. None \notin Acked /\ Deletes \subseteq Requests
  BY WriteQueueAssumption DEF Acked
<1>2. OneTask
  BY <1>1 DEF Init, OneTask, NoTask, Busy
<1> QED BY <1>1, <1>2, InitIInv DEF Init, SteadyInv, Covered, Unanswered

LEMMA RequestSteady ==
  ASSUME NoStale, SteadyInv, NEW r \in Requests, Request(r) \/ GiveUp(r)
  PROVE  OneTask' /\ \A s \in Requests : Covered(s)' /\ Unanswered(s)'
<1>1. /\ IInv /\ Typed /\ TypeOK /\ OneTask
      /\ \A s \in Requests : Covered(s) /\ Unanswered(s)
      /\ None \notin Gens /\ pc[r] # "direct" /\ Deletes \subseteq Requests
      /\ None \notin Acked /\ "timeout" \notin Acked
  BY WriteQueueAssumption DEF SteadyInv, IInv, Typed, OneTask, Acked, Gens
<1>2. CASE Acquire(r)
  <2>1. /\ UNCHANGED <<queue, closed, worker, overlay, data, mode, answer, reader>>
        /\ pc' = [pc EXCEPT ![r] = "send"] /\ pc[r] \in {"new", "again"}
        /\ current' = current \/ current = None
    BY <1>1, <1>2 DEF Acquire
  <2>2. OneTask'
    BY <1>1, <2>1 DEF OneTask, TypeOK, data, ToSet
  <2>3. \A s \in Requests : Covered(s)' /\ Unanswered(s)'
    BY <1>1, <2>1 DEF Covered, Unanswered, TypeOK, overlay, data
  <2> QED BY <2>2, <2>3
<1>3. CASE TrySend(r) \/ Send(r)
  <2>1. /\ sender[r] \in Gens /\ ~closed[sender[r]] /\ pc[r] = "send"
        /\ answer[r] \notin Acked
    BY <1>1, <1>3 DEF TrySend, Send, NoStale, Stale, Typed, HasSender, Unanswered
  <2>2. /\ UNCHANGED <<current, made, closed, worker, overlay, data, sender, after, reader>>
        /\ \E l \in {"again", "wait", "done"} :
             pc' = [pc EXCEPT ![r] = l] /\ (answer' # answer => l = "done")
        /\ \A s \in Requests : s # r => answer'[s] = answer[s]
        /\ \/ answer' = answer
           \/ mode[r] = "accepted" /\ mode' = mode
        /\ \A s \in Requests : s # r => mode'[s] = mode[s]
        /\ mode'[r] \in {mode[r], "committed"}
    BY <1>1, <1>3, <2>1 DEF TrySend, Send, Sent, Answer, Fallback, AfterFull, TypeOK
  <2>3. OneTask'
    BY <1>1, <2>2 DEF OneTask, TypeOK, data, ToSet
  <2>4. \A s \in Requests : Covered(s)'
    BY <1>1, <2>1, <2>2 DEF Covered, TypeOK, overlay, data
  <2>5. \A s \in Requests : Unanswered(s)'
    BY <1>1, <2>1, <2>2 DEF Unanswered, TypeOK
  <2> QED BY <2>3, <2>4, <2>5
<1>4. CASE Direct(r)
  BY <1>1, <1>4 DEF Direct
<1>5. CASE GiveUp(r)
  <2>1. /\ UNCHANGED <<channels, worker, overlay, data, mode, sender, after, reader>>
        /\ pc' = [pc EXCEPT ![r] = "done"]
        /\ answer' = [answer EXCEPT ![r] = "timeout"]
    BY <1>1, <1>5 DEF GiveUp, AfterTimeout, channels, overlay
  <2>2. OneTask'
    BY <1>1, <2>1 DEF OneTask, TypeOK, channels, data, ToSet
  <2>3. \A s \in Requests : Covered(s)' /\ Unanswered(s)'
    BY <1>1, <2>1 DEF Covered, Unanswered, TypeOK, overlay, data
  <2> QED BY <2>2, <2>3
<1> QED BY <1>2, <1>3, <1>4, <1>5 DEF Request

(* What a handler of the current task leaves covered. *)
LEMMA EffectSteady ==
  ASSUME SteadyInv, NEW g \in Gens, Apply(g)
  PROVE  OneTask' /\ \A s \in Requests : Covered(s)' /\ Unanswered(s)'
<1> DEFINE r == worker[g].item
           d == DocOf[r]
<1>1. /\ Typed /\ TypeOK /\ OneTask /\ worker \in [Gens -> TaskState]
      /\ \A s \in Requests : Covered(s) /\ Unanswered(s)
      /\ g = current /\ Deletes \subseteq Requests
      /\ r \in Requests /\ d \in Docs /\ worker[g].pc = "apply"
      /\ UNCHANGED <<made, queue, closed, revision, mode, sender, after, reader>>
  BY WriteQueueAssumption DEF SteadyInv, IInv, Typed, TypeOK, Held, OneTask, Apply, Busy
<1>2. /\ \A h \in Gens : h # g => worker'[h] = worker[h] /\ worker[h].pc \notin Busy
      /\ worker'[g].pc \in {"recv", "check"}
      /\ worker'[g].pc = "check" => r \notin Deletes
  <2>1. \A h \in Gens : h # g => worker[h].pc \notin Busy
    BY <1>1 DEF OneTask
  <2>2. CASE worker' = Work(g, "check") /\ mode[r] = "prepared"
    BY <1>1, <2>1, <2>2 DEF Work, TaskState, OneTask
  <2>3. CASE worker' = [worker EXCEPT ![g] = NoTask]
    BY <1>1, <2>1, <2>3, NoTaskTyped
  <2> QED BY <2>2, <2>3 DEF Apply
<1>3. /\ \A s \in Requests : s # r => answer'[s] = answer[s] /\ pc'[s] = pc[s]
      /\ (UNCHANGED <<answer, pc>>) \/ pc'[r] = "done"
  <2>1. Answer(r, "committed") \/ Answer(r, "error") \/ UNCHANGED <<answer, pc>>
    BY DEF Apply
  <2> QED BY <1>1, <2>1 DEF Answer, TypeOK
<1>4. \A s \in Requests : Unanswered(s)' /\ pc'[s] # "direct"
  BY <1>1, <1>3 DEF Unanswered, OneTask, TypeOK
<1>5. \A s \in Requests : s # r /\ s \notin Deletes /\ mode'[s] # "accepted" /\ answer'[s] \in Acked
                          /\ s \notin void => s \in durable[DocOf[s]]
  BY <1>1, <1>2, <1>3 DEF Covered, Busy
<1>6. CASE Effect(r) /\ r \in Deletes
  <2>1. /\ durable' = [e \in Docs |-> {}] /\ current' = None
        /\ void' = void \cup ToSet(applied)
    BY <1>6 DEF Effect
  <2>2. OneTask'
    BY <1>1, <1>2, <1>4, <1>6, <2>1 DEF OneTask, Busy
  <2>3. ASSUME NEW s \in Requests PROVE Covered(s)'
    <3>1. DocOf[s] \in Docs
      BY WriteQueueAssumption
    <3> QED BY <1>1, <1>5, <1>6, <2>1, <3>1 DEF Covered, OneTask
  <2> QED BY <1>4, <2>2, <2>3
<1>7. CASE (Effect(r) /\ r \notin Deletes) \/ NoEffect(r)
  <2>1. /\ UNCHANGED current
        /\ r \in durable'[d] \/ r \in void'
        /\ \A e \in Docs : durable[e] \subseteq durable'[e]
        /\ void \subseteq void'
    <3>1. CASE Effect(r) /\ r \notin Deletes
      <4>1. /\ UNCHANGED <<current, void>> /\ durable' = [durable EXCEPT ![d] = @ \cup {r}]
        BY <3>1 DEF Effect
      <4> HIDE DEF r, d
      <4> QED BY <1>1, <4>1 DEF TypeOK
    <3>2. CASE NoEffect(r)
      BY <3>2 DEF NoEffect
    <3> QED BY <1>7, <3>1, <3>2
  <2>2. \A e \in Docs : durable'[e] \subseteq ToSet(applied')
    <3>1. CASE Effect(r) /\ r \notin Deletes
      <4>1. ToSet(applied') = ToSet(applied) \cup {r}
        BY <1>1, <3>1, SentElements DEF Effect, TypeOK
      <4>2. durable' = [durable EXCEPT ![d] = @ \cup {r}]
        BY <3>1 DEF Effect
      <4> QED BY <1>1, <4>1, <4>2 DEF OneTask, TypeOK
    <3>2. CASE NoEffect(r)
      BY <1>1, <3>2 DEF NoEffect, OneTask, ToSet
    <3> QED BY <1>7, <3>1, <3>2
  <2>3. (\A e \in Docs : durable[e] \subseteq ToSet(applied))'
    BY <2>2 DEF ToSet
  <2>4. OneTask'
    BY <1>1, <1>2, <1>4, <2>1, <2>3 DEF OneTask, Busy
  <2>5. ASSUME NEW s \in Requests PROVE Covered(s)'
    <3>1. DocOf[s] \in Docs
      BY WriteQueueAssumption
    <3> QED BY <1>1, <1>5, <2>1, <3>1 DEF Covered
  <2> QED BY <1>4, <2>4, <2>5
<1> QED BY <1>6, <1>7 DEF Apply

LEMMA TaskSteady ==
  ASSUME NoStale, SteadyInv, NEW g \in Gens, Task(g) \/ IdleTimeout(g)
  PROVE  OneTask' /\ \A s \in Requests : Covered(s)' /\ Unanswered(s)'
<1> DEFINE r == worker[g].item
           d == DocOf[r]
<1>1. /\ Typed /\ TypeOK /\ OneTask /\ worker \in [Gens -> TaskState]
      /\ \A s \in Requests : Covered(s) /\ Unanswered(s)
      /\ None \notin Acked /\ "error" \notin Acked /\ Deletes \subseteq Requests
      /\ worker[g].pc \in Busy => r \in Requests /\ d \in Docs /\ g = current
      /\ \A h \in Gens : h # current => worker[h].pc \notin Busy
  BY WriteQueueAssumption DEF SteadyInv, IInv, Typed, TypeOK, Held, OneTask, Acked
<1>2. CASE Recv(g)
  <2>1. /\ UNCHANGED <<current, made, closed, overlay, data, requests, reader>>
        /\ worker[g].pc = "recv" /\ g = current
        /\ \A h \in Gens : h # g => worker'[h] = worker[h]
    BY <1>1, <1>2 DEF Recv, NoStale, Stale
  <2>2. OneTask'
    BY <1>1, <2>1 DEF OneTask, requests, data, Busy, ToSet
  <2>3. \A s \in Requests : Covered(s)' /\ Unanswered(s)'
    BY <1>1, <2>1 DEF Covered, Unanswered, overlay, data, requests, Busy
  <2> QED BY <2>2, <2>3
<1>3. CASE Prepare(g)
  <2> DEFINE base == IF pending[d] # None THEN pending[d].content ELSE durable[d]
  <2>1. /\ r \in Requests /\ d \in Docs /\ g = current
        /\ UNCHANGED <<channels, durable, applied, mode, sender, after, reader>>
        /\ pc' = [pc EXCEPT ![r] = "done"] /\ worker[g].pc = "prepare"
        /\ \A h \in Gens : h # g => worker'[h] = worker[h]
    BY <1>1, <1>3 DEF Prepare, Busy, Answer
  <2>2. OneTask'
    BY <1>1, <2>1 DEF OneTask, channels, TypeOK, ToSet, Busy
  <2>3. CASE /\ pending' = [pending EXCEPT ![d] = [rev |-> revision, content |-> base \cup {r}]]
             /\ worker' = [worker EXCEPT ![g].pc = "apply", ![g].rev = revision]
             /\ Answer(r, "queued") /\ UNCHANGED void
    <3>1. worker'[g].pc = "apply" /\ worker'[g].item = r
      BY <1>1, <2>3 DEF TaskState
    <3>2. pending'[d] = [rev |-> revision, content |-> base \cup {r}]
      BY <1>1, <2>1, <2>3 DEF TypeOK
    <3>3. pending'[d] # None /\ r \in pending'[d].content
      <4>1. pending'[d] \in [rev : Nat, content : SUBSET Requests]
        BY <1>1, <2>1, <3>2 DEF TypeOK
      <4> HIDE DEF base
      <4> QED BY <3>2, <4>1, WriteQueueAssumption
    <3>4. ASSUME NEW s \in Requests PROVE Covered(s)'
      <4>1. CASE s = r
        BY <3>1, <3>3, <4>1 DEF Covered
      <4>2. CASE s # r
        <5>1. answer'[s] = answer[s]
          BY <1>1, <2>1, <2>3, <4>2 DEF Answer, TypeOK
        <5>2. Covered(s) /\ \A h \in Gens : ~(worker[h].pc = "apply" /\ worker[h].item = s)
          BY <1>1, <2>1 DEF Busy
        <5> QED BY <2>1, <2>3, <5>1, <5>2 DEF Covered
      <4> QED BY <4>1, <4>2
    <3>5. \A s \in Requests : Unanswered(s)'
      BY <1>1, <2>1, <2>3 DEF Unanswered, Answer, TypeOK
    <3> QED BY <2>2, <3>4, <3>5
  <2>4. CASE /\ Answer(r, "error") /\ void' = void \cup {r}
             /\ worker' = [worker EXCEPT ![g] = NoTask] /\ UNCHANGED overlay
    <3>1. \A h \in Gens : worker[h].pc = "apply" => worker'[h] = worker[h]
      BY <2>1
    <3>2. \A s \in Requests : s # r => answer'[s] = answer[s]
      BY <1>1, <2>1, <2>4 DEF Answer, TypeOK
    <3>3. \A s \in Requests : Covered(s)'
      BY <1>1, <2>1, <2>4, <3>1, <3>2 DEF Covered, overlay
    <3>4. \A s \in Requests : Unanswered(s)'
      BY <1>1, <2>1, <2>4 DEF Unanswered, Answer, TypeOK
    <3> QED BY <2>2, <3>3, <3>4
  <2> QED BY <1>3, <2>3, <2>4 DEF Prepare
<1>4. CASE Apply(g)
  BY <1>4, EffectSteady
<1>5. CASE ClearCheck(g) \/ ClearRemove(g)
  <2>1. /\ UNCHANGED <<channels, data, requests, reader>> /\ g = current
        /\ worker[g].pc \in {"check", "clear"}
        /\ \A h \in Gens : h # g => worker'[h] = worker[h]
        /\ worker' = Work(g, "clear") \/ worker' = [worker EXCEPT ![g] = NoTask]
    BY <1>1, <1>5 DEF ClearCheck, ClearRemove, overlay, Busy, Work
  <2>2. OneTask'
    BY <1>1, <2>1 DEF OneTask, channels, data, requests, Busy, ToSet
  <2>3. \A h \in Gens : worker[h].pc # "apply"
    BY <1>1, <2>1 DEF Busy
  <2>4. \A s \in Requests : Covered(s)' /\ Unanswered(s)'
    BY <1>1, <2>1, <2>3 DEF Covered, Unanswered, data, requests
  <2> QED BY <2>2, <2>4
<1>6. CASE IdleTimeout(g) \/ Close(g) \/ Retire(g) \/ Exit(g)
  <2>1. /\ UNCHANGED <<overlay, data, requests, reader>> /\ worker[g].pc \notin Busy
        /\ current' = current \/ current = g
        /\ \A h \in Gens : h # g => worker'[h] = worker[h]
        /\ worker'[g].pc \notin Busy
    <3>1. \A l : Work(g, l)[g].pc = l /\ \A h \in Gens : h # g => Work(g, l)[h] = worker[h]
      BY <1>1 DEF Work, TaskState
    <3> QED BY <1>6, <3>1 DEF IdleTimeout, Close, Retire, AfterRetire, Exit, channels, Busy
  <2>2. OneTask'
    BY <1>1, <2>1 DEF OneTask, data, requests, ToSet
  <2>3. \A s \in Requests : Covered(s)' /\ Unanswered(s)'
    BY <1>1, <2>1 DEF Covered, Unanswered, overlay, data, requests, Busy
  <2> QED BY <2>2, <2>3
<1> QED BY <1>2, <1>3, <1>4, <1>5, <1>6 DEF Task

LEMMA NextSteady == SteadyInv /\ NoStale /\ [Next]_vars => SteadyInv'
<1> SUFFICES ASSUME SteadyInv, NoStale, [Next]_vars PROVE SteadyInv'
  OBVIOUS
<1>0. IInv'
  BY NextIInv DEF SteadyInv
<1>1. ASSUME NEW r \in Requests, Request(r) \/ GiveUp(r) PROVE SteadyInv'
  BY <1>0, <1>1, RequestSteady DEF SteadyInv
<1>2. ASSUME NEW g \in Gens, Task(g) \/ IdleTimeout(g) PROVE SteadyInv'
  BY <1>0, <1>2, TaskSteady DEF SteadyInv
<1>3. ASSUME UNCHANGED <<channels, worker, overlay, data, requests>> PROVE SteadyInv'
  BY <1>0, <1>3 DEF SteadyInv, OneTask, Covered, Unanswered, channels, overlay, data, requests, ToSet
<1>4. ASSUME NEW q \in Readers, ReadRows(q) \/ ReadOverlay(q) PROVE SteadyInv'
  BY <1>3, <1>4 DEF ReadRows, ReadOverlay
<1>5. CASE UNCHANGED vars
  BY <1>3, <1>5 DEF vars
<1> QED BY <1>1, <1>2, <1>4, <1>5 DEF Next

LEMMA SteadySerialized == SteadyInv => Serialized
<1> SUFFICES ASSUME SteadyInv PROVE Serialized
  OBVIOUS
<1>1. Executing \subseteq {worker[current].item}
  BY DEF SteadyInv, OneTask, Executing, Busy
<1>2. IsFiniteSet({worker[current].item}) /\ Cardinality({worker[current].item}) = 1
  BY FS_Singleton
<1>3. IsFiniteSet(Executing) /\ Cardinality(Executing) <= 1
  BY <1>1, <1>2, FS_Subset
<1> QED BY <1>3 DEF Serialized

LEMMA SteadyCovers == SteadyInv => OverlayCovers
<1> SUFFICES ASSUME SteadyInv, NEW d \in Docs, NEW r \in Due(d)
             PROVE  r \in durable[d] \cup (IF pending[d] # None THEN pending[d].content ELSE {})
  BY DEF OverlayCovers
<1>1. r \in Requests /\ DocOf[r] = d /\ Covered(r)
  BY DEF Due, SteadyInv
<1> QED BY <1>1 DEF Covered, Due

(* DOCUMENTATION.md:320, :385: as long as nothing is left with a stale        *)
(* generation, at most one handler runs at a time, through full channels,     *)
(* retries, errors, time-outs, retirements and delete_db.                     *)
THEOREM WritesSerialized == Spec /\ []NoStale => []Serialized
<1> QED BY InitSteady, NextSteady, SteadySerialized, PTL DEF Spec

(* DOCUMENTATION.md:334: under the same hypothesis a write by id that was     *)
(* acknowledged is durable or in the overlay at every moment, unless a        *)
(* delete_db applied after it removed it: clearing an entry never uncovers a  *)
(* write.                                                                     *)
THEOREM PendingCovers == Spec /\ []NoStale => []OverlayCovers
<1> QED BY InitSteady, NextSteady, SteadyCovers, PTL DEF Spec

------------------------------------------------------------------------------
(* AppliedInOrder: r arrived after s had been acknowledged, so r never        *)
(* overtakes s on its way through the channels.                               *)
Follows(r, s) ==
  /\ answer[s] \in Acked /\ s # r
  /\ r \in ToSet(applied) => \A g \in Gens : ~Queued(s, g) /\ ~Holding(s, g)
  /\ \A g \in Gens : Holding(r, g) => ~Queued(s, g)
  /\ \A g \in Gens : \A i, j \in DOMAIN queue[g] : queue[g][i] = r /\ queue[g][j] = s => j < i

Ordered ==
  /\ \A r \in Requests : answer[r] \in Acked => pc[r] = "done"
  /\ \A r \in Requests : \A s \in after[r] : Follows(r, s)
  /\ AppliedInOrder

OrderInv == SteadyInv /\ OncePlaced /\ Ordered

(* An acknowledgment is final. *)
AnswersKept ==
  \A s \in Requests : /\ answer[s] \in Acked => answer'[s] = answer[s]
                      /\ answer'[s] \in Acked => pc'[s] = "done"

LEMMA InitOrdered == Init => Ordered
<1> SUFFICES ASSUME Init PROVE Ordered
  OBVIOUS
<1>1. /\ \A r \in Requests : answer[r] \notin Acked /\ after[r] = {}
      /\ DOMAIN applied = {}
  BY WriteQueueAssumption DEF Init, Acked
<1> QED BY <1>1 DEF Ordered, AppliedInOrder

LEMMA StaysOrdered ==
  ASSUME TypeOK, Ordered, UNCHANGED <<queue, applied, after>>, AnswersKept,
         \A s \in Requests, g \in Gens : Holding(s, g)' => Holding(s, g)
  PROVE  Ordered'
<1>1. \A s \in Requests, g \in Gens : Queued(s, g)' <=> Queued(s, g)
  BY DEF Queued
<1>2. after \in [Requests -> SUBSET Requests]
  BY DEF TypeOK
<1>3. ASSUME NEW r \in Requests, NEW s \in after[r] PROVE Follows(r, s)'
  <2>1. s \in Requests /\ Follows(r, s)
    BY <1>2 DEF Ordered
  <2>2. (r \in ToSet(applied))' <=> r \in ToSet(applied)
    BY DEF ToSet
  <2> QED BY <1>1, <2>1, <2>2 DEF Follows, AnswersKept
<1>4. AppliedInOrder'
  BY DEF Ordered, AppliedInOrder
<1> QED BY <1>3, <1>4 DEF Ordered, AnswersKept

LEMMA AcquireOrdered ==
  ASSUME TypeOK, OncePlaced, Ordered, NEW r \in Requests, Acquire(r)
  PROVE  Ordered'
<1>1. /\ UNCHANGED <<queue, worker, applied, answer>> /\ pc[r] \in {"new", "again"}
      /\ pc' = [pc EXCEPT ![r] = "send"]
      /\ \A t \in Requests : after'[t] = after[t] \/ (t = r /\ pc[r] = "new")
      /\ pc[r] = "new" => after'[r] = {s \in Requests : answer[s] \in Acked}
      /\ answer \in [Requests -> Acked \cup {None, "error", "timeout"}]
      /\ after \in [Requests -> SUBSET Requests]
  BY DEF Acquire, data, TypeOK
<1>2. /\ Fresh(r) /\ r \notin ToSet(applied)
      /\ \A g \in Gens : ~Queued(r, g) /\ ~Holding(r, g)
  BY <1>1 DEF OncePlaced, Fresh
<1>3. \A s, t \in Requests : Follows(t, s)' <=> Follows(t, s)
  BY <1>1 DEF Follows, Queued, Holding, ToSet
<1>4. ASSUME NEW t \in Requests, NEW s \in after'[t] PROVE Follows(t, s)'
  <2>1. CASE t = r /\ pc[r] = "new"
    <3>1. s \in Requests /\ answer[s] \in Acked /\ s # r
      BY <1>1, <1>4, <2>1 DEF Ordered
    <3>2. Follows(r, s)
      BY <1>2, <3>1 DEF Follows, Queued, ToSet
    <3> QED BY <1>3, <2>1, <3>1, <3>2
  <2>2. CASE after'[t] = after[t]
    BY <1>1, <1>3, <1>4, <2>2 DEF Ordered
  <2> QED BY <1>1, <2>1, <2>2
<1>5. AppliedInOrder'
  <2>1. \A i \in DOMAIN applied : applied[i] \in Requests /\ applied[i] # r
    BY <1>2 DEF TypeOK, ToSet
  <2>2. \A i \in DOMAIN applied : after'[applied[i]] = after[applied[i]]
    BY <1>1, <2>1
  <2> QED BY <1>1, <2>2 DEF Ordered, AppliedInOrder
<1>6. \A s \in Requests : answer'[s] \in Acked => pc'[s] = "done"
  BY <1>1 DEF Ordered
<1> QED BY <1>4, <1>5, <1>6 DEF Ordered

(* A write that is sent joins the end of the channel. *)
LEMMA SentOrdered ==
  ASSUME TypeOK, OncePlaced, Ordered, NEW r \in Requests, NEW g \in Gens, pc[r] = "send",
         queue' = [queue EXCEPT ![g] = Append(@, r)], UNCHANGED <<worker, applied, after>>,
         AnswersKept
  PROVE  Ordered'
<1>1. /\ queue[g] \in Seq(Requests) /\ queue'[g] = Append(queue[g], r)
      /\ \A h \in Gens : h # g => queue'[h] = queue[h]
      /\ after \in [Requests -> SUBSET Requests]
  BY DEF TypeOK
<1>2. /\ DOMAIN queue'[g] = 1..(Len(queue[g]) + 1) /\ DOMAIN queue[g] = 1..Len(queue[g])
      /\ Len(queue[g]) \in Nat
      /\ \A i \in 1..Len(queue[g]) : queue'[g][i] = queue[g][i]
      /\ queue'[g][Len(queue[g]) + 1] = r
  BY <1>1, AppendProperties, LenProperties
<1>3. /\ r \notin ToSet(applied) /\ \A h \in Gens : ~Queued(r, h) /\ ~Holding(r, h)
  BY DEF OncePlaced, Fresh
<1>4. \A s \in Requests, h \in Gens : s # r => (Queued(s, h)' <=> Queued(s, h))
  <2>1. ToSet(queue'[g]) = ToSet(queue[g]) \cup {r}
    BY <1>1, SentElements
  <2>2. ASSUME NEW s, NEW h \in Gens PROVE Queued(s, h)' <=> s \in ToSet(queue'[h])
    BY DEF Queued, ToSet
  <2> QED BY <1>1, <2>1, <2>2 DEF Queued
<1>5. \A s \in Requests, h \in Gens : Holding(s, h)' <=> Holding(s, h)
  BY DEF Holding
<1>6. ASSUME NEW t \in Requests, NEW s \in after[t] PROVE Follows(t, s)'
  <2>1. s \in Requests /\ Follows(t, s) /\ s # r
    BY <1>1 DEF Ordered, Follows
  <2>2. (t \in ToSet(applied))' <=> t \in ToSet(applied)
    BY DEF ToSet
  <2>3. ASSUME NEW h \in Gens, NEW i \in DOMAIN queue'[h], NEW j \in DOMAIN queue'[h],
               queue'[h][i] = t, queue'[h][j] = s
        PROVE  j < i
    <3>1. CASE h # g
      BY <1>1, <2>1, <2>3, <3>1 DEF Follows
    <3>2. CASE h = g
      <4>1. i \in 1..(Len(queue[g]) + 1) /\ j \in 1..Len(queue[g]) /\ queue[g][j] = s
        BY <1>2, <2>1, <2>3, <3>2
      <4>2. CASE i = Len(queue[g]) + 1
        BY <1>2, <4>1, <4>2
      <4>3. CASE i \in 1..Len(queue[g])
        <5>1. queue[g][i] = t
          BY <1>2, <2>3, <3>2, <4>3
        <5> QED BY <1>2, <2>1, <4>1, <4>3, <5>1 DEF Follows
      <4> QED BY <1>2, <4>1, <4>2, <4>3
    <3> QED BY <3>1, <3>2
  <2> QED BY <1>4, <1>5, <2>1, <2>2, <2>3 DEF Follows, AnswersKept
<1>7. AppliedInOrder'
  BY DEF Ordered, AppliedInOrder
<1> QED BY <1>6, <1>7 DEF Ordered, AnswersKept

(* The task takes the first write of the channel. *)
LEMMA RecvOrdered ==
  ASSUME Typed, NoStale, OncePlaced, Ordered, NEW g \in Gens, Recv(g)
  PROVE  Ordered'
<1>0. PICK r : r = Head(queue[g])
  OBVIOUS
<1>1. /\ queue[g] \in Seq(Requests) /\ queue[g] # <<>> /\ queue' = [queue EXCEPT ![g] = Tail(@)]
      /\ UNCHANGED <<pc, answer, applied, after>>
      /\ worker \in [Gens -> TaskState] /\ after \in [Requests -> SUBSET Requests]
      /\ queue'[g] = Tail(queue[g]) /\ worker[g].pc = "recv"
  BY DEF Recv, Gone, Typed, TypeOK, requests, data
<1>2. /\ DOMAIN queue'[g] = 1..(Len(queue[g]) - 1) /\ DOMAIN queue[g] = 1..Len(queue[g])
      /\ Len(queue[g]) \in Nat \ {0} /\ r = queue[g][1]
      /\ \A i \in 1..(Len(queue[g]) - 1) : queue'[g][i] = queue[g][i + 1]
  <2> DEFINE q == queue[g]
  <2>1. q \in Seq(Requests) /\ q # <<>> /\ queue'[g] = Tail(q) /\ r = Head(q)
    BY <1>0, <1>1
  <2> HIDE DEF q
  <2>2. /\ Len(Tail(q)) = Len(q) - 1 /\ Tail(q) \in Seq(Requests) /\ Head(q) = q[1]
        /\ \A i \in 1..Len(Tail(q)) : Tail(q)[i] = q[i + 1]
        /\ Len(q) \in Nat \ {0}
    BY <2>1, HeadTailProperties, EmptySeq, LenProperties
  <2>3. /\ DOMAIN queue'[g] = 1..(Len(q) - 1) /\ DOMAIN q = 1..Len(q)
        /\ Len(q) \in Nat \ {0} /\ r = q[1]
        /\ \A i \in 1..(Len(q) - 1) : queue'[g][i] = q[i + 1]
    BY <2>1, <2>2, LenProperties
  <2> QED BY <2>3 DEF q
<1>3. /\ Queued(r, g) /\ \A h \in Gens : h # g => queue'[h] = queue[h] /\ queue[h] = <<>>
  <2>1. g = current
    BY <1>1 DEF NoStale, Stale
  <2>2. 1 \in 1..Len(queue[g])
    BY <1>2
  <2>3. \A h \in Gens : h # g => queue[h] = <<>>
    BY <2>1 DEF NoStale, Stale
  <2> QED BY <1>1, <1>2, <2>2, <2>3 DEF Queued, ToSet, Typed, TypeOK
<1>4. \A s \in Requests, h \in Gens : /\ Queued(s, h)' => Queued(s, h)
                                      /\ Queued(s, h) => h = g
  <2>1. ASSUME NEW s, NEW h \in Gens PROVE Queued(s, h)' <=> s \in ToSet(queue'[h])
    BY DEF Queued, ToSet
  <2>2. ToSet(Tail(queue[g])) \subseteq ToSet(queue[g])
    BY <1>1, DistinctTail DEF OncePlaced
  <2> QED BY <1>1, <1>3, <2>1, <2>2 DEF Queued, ToSet
<1>5. \A s \in Requests, h \in Gens : Holding(s, h)' => Holding(s, h) \/ (s = r /\ h = g)
  <2>1. \/ worker' = worker
        \/ worker'[g].item = r /\ \A h \in Gens : h # g => worker'[h] = worker[h]
    <3>1. \A l : [NoTask EXCEPT !.pc = l, !.item = r].item = r
      BY DEF NoTask
    <3> QED BY <1>0, <1>1, <3>1 DEF Recv, Gone
  <2> QED BY <2>1 DEF Holding
<1>6. ASSUME NEW t \in Requests, NEW s \in after[t] PROVE Follows(t, s)'
  <2>1. s \in Requests /\ Follows(t, s)
    BY <1>1 DEF Ordered
  <2>2. (t \in ToSet(applied))' <=> t \in ToSet(applied)
    BY <1>1 DEF ToSet
  <2>3. t \in ToSet(applied) => \A h \in Gens : ~Queued(s, h)' /\ ~Holding(s, h)'
    BY <1>3, <1>4, <1>5, <2>1 DEF Follows
  <2>4. ASSUME t = r PROVE ~Queued(s, g)
    <3>1. ASSUME NEW j \in DOMAIN queue[g], queue[g][j] = s PROVE FALSE
      <4>1. 1 \in DOMAIN queue[g] /\ queue[g][1] = t
        BY <1>2, <2>4
      <4>2. j < 1
        BY <2>1, <3>1, <4>1 DEF Follows
      <4> QED BY <1>2, <3>1, <4>2
    <3> QED BY <3>1 DEF Queued, ToSet
  <2>5. \A h \in Gens : Holding(t, h)' => ~Queued(s, h)'
    BY <1>4, <1>5, <2>1, <2>4 DEF Follows
  <2>6. ASSUME NEW h \in Gens, NEW i \in DOMAIN queue'[h], NEW j \in DOMAIN queue'[h],
               queue'[h][i] = t, queue'[h][j] = s
        PROVE  j < i
    <3>1. CASE h # g
      BY <1>3, <2>1, <2>6, <3>1 DEF Follows
    <3>2. CASE h = g
      <4>1. /\ i \in 1..(Len(queue[g]) - 1) /\ j \in 1..(Len(queue[g]) - 1)
            /\ i + 1 \in DOMAIN queue[g] /\ j + 1 \in DOMAIN queue[g]
        BY <1>2, <2>6, <3>2
      <4>2. queue[g][i + 1] = t /\ queue[g][j + 1] = s
        BY <1>2, <2>6, <3>2, <4>1
      <4>3. j + 1 < i + 1
        BY <2>1, <4>1, <4>2 DEF Follows
      <4> QED BY <1>2, <4>1, <4>3
    <3> QED BY <3>1, <3>2
  <2> QED BY <1>1, <2>1, <2>2, <2>3, <2>5, <2>6 DEF Follows
<1>7. AppliedInOrder'
  BY <1>1 DEF Ordered, AppliedInOrder
<1> QED BY <1>1, <1>6, <1>7 DEF Ordered

(* The write the task holds takes effect. *)
LEMMA EffectOrdered ==
  ASSUME TypeOK, NoStale, OneTask, OncePlaced, Ordered, NEW r \in Requests, NEW g \in Gens, Holding(r, g),
         UNCHANGED <<queue, after>>, applied' = Append(applied, r), AnswersKept,
         \A s \in Requests, h \in Gens : ~Holding(s, h)'
  PROVE  Ordered'
<1>1. \A s \in Requests, h \in Gens : Queued(s, h)' <=> Queued(s, h)
  BY DEF Queued
<1>2. /\ applied \in Seq(Requests) /\ ToSet(applied') = ToSet(applied) \cup {r}
      /\ after \in [Requests -> SUBSET Requests]
  BY SentElements DEF TypeOK
<1>3. \A s \in Requests, h \in Gens : Queued(s, h) => h = g
  <2>1. g = current
    BY DEF OneTask, Holding, Busy
  <2>2. ToSet(<<>>) = {}
    BY DEF ToSet
  <2> QED BY <2>1, <2>2 DEF NoStale, Stale, Queued
<1>4. ASSUME NEW t \in Requests, NEW s \in after[t] PROVE Follows(t, s)'
  <2>1. s \in Requests /\ Follows(t, s)
    BY <1>2 DEF Ordered
  <2>2. t \in ToSet(applied') => \A h \in Gens : ~Queued(s, h)' /\ ~Holding(s, h)'
    BY <1>1, <1>2, <1>3, <2>1 DEF Follows
  <2>3. (t \in ToSet(applied))' <=> t \in ToSet(applied')
    BY DEF ToSet
  <2> QED BY <1>1, <2>1, <2>2, <2>3 DEF Follows, AnswersKept
<1>5. AppliedInOrder'
  <2>1. /\ DOMAIN applied' = 1..(Len(applied) + 1) /\ DOMAIN applied = 1..Len(applied)
        /\ Len(applied) \in Nat /\ applied'[Len(applied) + 1] = r
        /\ \A i \in 1..Len(applied) : applied'[i] = applied[i]
    BY <1>2, AppendProperties, LenProperties
  <2>2. ASSUME NEW i \in 1..Len(applied) PROVE r \notin after[applied[i]]
    <3>1. applied[i] \in ToSet(applied) /\ applied[i] \in Requests
      BY <1>2, <2>1 DEF ToSet
    <3> QED BY <3>1 DEF Ordered, Follows
  <2>3. ASSUME NEW i \in DOMAIN applied', NEW j \in DOMAIN applied', i < j
        PROVE  applied'[j] \notin after[applied'[i]]
    <3>1. i \in 1..Len(applied) /\ (j \in 1..Len(applied) \/ j = Len(applied) + 1)
      BY <2>1, <2>3
    <3>2. CASE j = Len(applied) + 1
      BY <2>1, <2>2, <3>1, <3>2
    <3>3. CASE j \in 1..Len(applied)
      BY <2>1, <2>3, <3>1, <3>3 DEF Ordered, AppliedInOrder
    <3> QED BY <3>1, <3>2, <3>3
  <2> QED BY <2>3 DEF AppliedInOrder
<1> QED BY <1>4, <1>5 DEF Ordered, AnswersKept

LEMMA RequestOrdered ==
  ASSUME NoStale, OrderInv, NEW r \in Requests, Request(r) \/ GiveUp(r)
  PROVE  Ordered'
<1>1. /\ TypeOK /\ OneTask /\ OncePlaced /\ Ordered
      /\ \A s \in Requests : (answer[s] \in Acked => pc[s] = "done") /\ Unanswered(s)
      /\ answer \in [Requests -> Acked \cup {None, "error", "timeout"}]
      /\ pc \in [Requests -> {"new", "again", "send", "wait", "direct", "done"}]
      /\ {None, "error", "timeout"} \cap Acked = {} /\ pc[r] # "direct"
  BY WriteQueueAssumption DEF OrderInv, SteadyInv, IInv, Typed, TypeOK, OneTask, Ordered, Acked
<1>2. CASE Acquire(r)
  BY <1>1, <1>2, AcquireOrdered
<1>3. CASE TrySend(r) \/ Send(r)
  <2>1. /\ UNCHANGED <<worker, applied, after>> /\ pc[r] = "send" /\ sender[r] \in Gens
        /\ \A s \in Requests : s # r => answer'[s] = answer[s] /\ pc'[s] = pc[s]
        /\ answer'[r] = answer[r] \/ pc'[r] = "done"
    BY <1>1, <1>3 DEF TrySend, Send, Sent, Answer, Fallback, data, OrderInv, SteadyInv, IInv,
                      Typed, HasSender
  <2>2. AnswersKept
    BY <1>1, <2>1 DEF AnswersKept
  <2>3. queue' = queue \/ queue' = [queue EXCEPT ![sender[r]] = Append(@, r)]
    BY <1>3 DEF TrySend, Send
  <2>4. \A s \in Requests, h \in Gens : Holding(s, h)' => Holding(s, h)
    BY <2>1 DEF Holding
  <2> QED BY <1>1, <2>1, <2>2, <2>3, <2>4, StaysOrdered, SentOrdered
<1>4. CASE Direct(r) \/ GiveUp(r)
  <2>1. /\ UNCHANGED <<queue, worker, applied, after>> /\ pc[r] \in {"again", "send", "wait"}
        /\ answer' = [answer EXCEPT ![r] = "timeout"] /\ pc' = [pc EXCEPT ![r] = "done"]
    BY <1>1, <1>4 DEF Direct, GiveUp, AfterTimeout, data
  <2>2. AnswersKept
    BY <1>1, <2>1 DEF AnswersKept
  <2>3. \A s \in Requests, h \in Gens : Holding(s, h)' => Holding(s, h)
    BY <2>1 DEF Holding
  <2> QED BY <1>1, <2>1, <2>2, <2>3, StaysOrdered
<1> QED BY <1>2, <1>3, <1>4 DEF Request

LEMMA TaskOrdered ==
  ASSUME NoStale, OrderInv, NEW g \in Gens, Task(g) \/ IdleTimeout(g)
  PROVE  Ordered'
<1>0. PICK r : r = worker[g].item
  OBVIOUS
<1>1. /\ Typed /\ TypeOK /\ OneTask /\ OncePlaced /\ Ordered
      /\ \A s \in Requests : answer[s] \in Acked => pc[s] = "done"
      /\ answer \in [Requests -> Acked \cup {None, "error", "timeout"}]
      /\ pc \in [Requests -> {"new", "again", "send", "wait", "direct", "done"}]
      /\ worker \in [Gens -> TaskState] /\ None \notin Acked
      /\ worker[g].pc \in Busy => r \in Requests
  BY <1>0, WriteQueueAssumption DEF OrderInv, SteadyInv, IInv, Typed, TypeOK, Held, OneTask,
                                    Ordered, Acked
<1>2. CASE Recv(g)
  BY <1>1, <1>2, RecvOrdered
<1>3. CASE Prepare(g)
  <2>1. /\ UNCHANGED <<queue, applied, after>> /\ worker[g].pc = "prepare" /\ r \in Requests
        /\ Answer(r, "queued") \/ Answer(r, "error")
        /\ worker' = [worker EXCEPT ![g].pc = "apply", ![g].rev = revision]
           \/ worker' = [worker EXCEPT ![g] = NoTask]
    BY <1>0, <1>1, <1>3 DEF Prepare, Busy, channels
  <2>2. AnswersKept
    BY <1>1, <2>1 DEF AnswersKept, Answer
  <2>3. \A s \in Requests, h \in Gens : Holding(s, h)' => Holding(s, h)
    <3>1. /\ worker'[g].item = worker[g].item \/ worker'[g].pc = "recv"
          /\ \A h \in Gens : h # g => worker'[h] = worker[h]
      BY <1>1, <2>1, NoTaskTyped DEF TaskState
    <3> QED BY <2>1, <3>1 DEF Holding
  <2> QED BY <1>1, <2>1, <2>2, <2>3, StaysOrdered
<1>4. CASE Apply(g)
  <2>1. /\ UNCHANGED <<queue, after>> /\ worker[g].pc = "apply" /\ r \in Requests /\ Holding(r, g)
        /\ Answer(r, "committed") \/ Answer(r, "error") \/ UNCHANGED <<answer, pc>>
        /\ applied' = applied \/ applied' = Append(applied, r)
    BY <1>0, <1>1, <1>4 DEF Apply, Effect, NoEffect, Busy, Holding
  <2>2. AnswersKept
    BY <1>1, <2>1 DEF AnswersKept, Answer
  <2>3. worker'[g].pc \in {"check", "recv"} /\ \A h \in Gens : h # g => worker'[h] = worker[h]
    <3>1. CASE worker' = Work(g, "check")
      BY <1>1, <3>1 DEF Work, TaskState
    <3>2. CASE worker' = [worker EXCEPT ![g] = NoTask]
      BY <1>1, <3>2, NoTaskTyped
    <3> QED BY <1>4, <3>1, <3>2 DEF Apply
  <2>4. \A s \in Requests, h \in Gens : ~Holding(s, h)'
    <3>1. g = current
      BY <1>1, <2>1 DEF OneTask, Busy
    <3> QED BY <1>1, <2>3, <3>1 DEF Holding, OneTask, Busy
  <2> QED BY <1>1, <2>1, <2>2, <2>4, StaysOrdered, EffectOrdered
<1>5. CASE ClearCheck(g) \/ ClearRemove(g)
  <2>1. /\ UNCHANGED <<queue, applied, after, answer, pc>>
        /\ worker' = Work(g, "clear") \/ worker' = [worker EXCEPT ![g] = NoTask]
    BY <1>5 DEF ClearCheck, ClearRemove, channels, data, requests
  <2>2. \A s \in Requests, h \in Gens : Holding(s, h)' => Holding(s, h)
    <3>1. CASE worker' = Work(g, "clear")
      BY <1>1, <3>1 DEF Work, TaskState, Holding
    <3>2. CASE worker' = [worker EXCEPT ![g] = NoTask]
      BY <1>1, <3>2, NoTaskTyped DEF Holding
    <3> QED BY <2>1, <3>1, <3>2
  <2>3. AnswersKept
    BY <1>1, <2>1 DEF AnswersKept
  <2> QED BY <1>1, <2>1, <2>2, <2>3, StaysOrdered
<1>6. CASE IdleTimeout(g) \/ Close(g) \/ Retire(g) \/ Exit(g)
  <2>1. /\ UNCHANGED <<queue, applied, after, answer, pc>>
        /\ \E l \in {"idle", "retire", "recv", "gone"} : worker' = Work(g, l)
    BY <1>6 DEF IdleTimeout, Close, Retire, AfterRetire, Exit, channels, data, requests
  <2>2. \A s \in Requests, h \in Gens : Holding(s, h)' => Holding(s, h)
    BY <1>1, <2>1 DEF Work, TaskState, Holding
  <2>3. AnswersKept
    BY <1>1, <2>1 DEF AnswersKept
  <2> QED BY <1>1, <2>1, <2>2, <2>3, StaysOrdered
<1> QED BY <1>2, <1>3, <1>4, <1>5, <1>6 DEF Task

LEMMA NextOrdered == OrderInv /\ NoStale /\ [Next]_vars => OrderInv'
<1> SUFFICES ASSUME OrderInv, NoStale, [Next]_vars PROVE OrderInv'
  OBVIOUS
<1>0. SteadyInv' /\ OncePlaced'
  BY NextSteady, NextOnce DEF OrderInv, SteadyInv
<1> SUFFICES Ordered'
  BY <1>0 DEF OrderInv
<1>1. ASSUME NEW r \in Requests, Request(r) \/ GiveUp(r) PROVE Ordered'
  BY <1>1, RequestOrdered
<1>2. ASSUME NEW g \in Gens, Task(g) \/ IdleTimeout(g) PROVE Ordered'
  BY <1>2, TaskOrdered
<1>3. ASSUME UNCHANGED <<queue, worker, applied, after, pc, answer>> PROVE Ordered'
  <2>1. TypeOK /\ Ordered
    BY DEF OrderInv, SteadyInv, IInv, Typed
  <2>2. \A s \in Requests, h \in Gens : Holding(s, h)' => Holding(s, h)
    BY <1>3 DEF Holding
  <2>3. AnswersKept
    BY <1>3, <2>1 DEF AnswersKept, Ordered
  <2> QED BY <1>3, <2>1, <2>2, <2>3, StaysOrdered
<1>4. ASSUME NEW q \in Readers, ReadRows(q) \/ ReadOverlay(q) PROVE Ordered'
  BY <1>3, <1>4 DEF ReadRows, ReadOverlay, channels, data, requests
<1>5. CASE UNCHANGED vars
  BY <1>3, <1>5 DEF vars, channels, data, requests
<1> QED BY <1>1, <1>2, <1>4, <1>5 DEF Next

(* state.rs: under the same hypothesis a write that arrived after another had *)
(* been acknowledged takes effect after it, however full channels, retries,   *)
(* time-outs and new generations interleave.                                  *)
THEOREM WritesAppliedInOrder == Spec /\ []NoStale => []AppliedInOrder
<1>1. Init => OrderInv
  BY InitSteady, InitOnce, InitOrdered DEF OrderInv
<1>2. OrderInv => AppliedInOrder
  BY DEF OrderInv, Ordered
<1> QED BY <1>1, <1>2, NextOrdered, PTL DEF Spec
===============================================================================
