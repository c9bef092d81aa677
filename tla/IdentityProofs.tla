---------------------------- MODULE IdentityProofs ----------------------------
(****************************************************************************)
(* Proofs about Identity, for any users, requests at a time, statuses and     *)
(* kinds of token, with or without foreign keys, failing statements and       *)
(* stops: what is promised of tokens.                                        *)
(****************************************************************************)
EXTENDS Identity, TLAPS, FiniteSetTheorems, SequenceTheorems, WellFoundedInduction

------------------------------------------------------------------------------
(* Where a task stands: how many of its statements are left.                 *)

ScriptOf(op) == IF op = "reaper" THEN ReaperScript ELSE Script[op]
Requests ==
  {"user_create", "user_update", "user_update_password", "user_update_status", "soft_delete",
   "purge", "user_link_provider", "user_unlink_provider", "user_create_token",
   "user_consume_token", "user_revoke_token"}
Stage(op, l) == ScriptOf(op)[Len(ScriptOf(op)) - l + 1]
(* What is left of a script is its end. *)
Follows(todo, op) ==
  /\ Len(todo) <= Len(ScriptOf(op))
  /\ \A j \in 1..Len(todo) : todo[j] = Stage(op, Len(todo) - j + 1)

Left(k) == Len(task[k].todo)
Runs(k, op) == task[k] # None /\ task[k].op = op

(* The statements between BEGIN and COMMIT. *)
Within(op, l) ==
  \/ op \in {"user_create", "user_update_password"} /\ l \in 1..2
  \/ op \in {"user_consume_token", "user_revoke_token", "reaper"} /\ l \in 1..3
  \/ op \in {"soft_delete", "user_create_token"} /\ l \in 2..4
  \/ op = "purge" /\ l \in 1..5

Creation == [user : Users, kind : Kinds, multi : BOOLEAN, expires : (1..MaxNow) \cup {None}]

Control ==
  /\ task \in [Tasks -> Pending \cup {None}] /\ made \in 0..MaxRequests
  /\ owner \in Tasks \cup {None}
  /\ \A k \in Tasks : task[k] # None =>
       /\ task[k].op \in Requests \cup {"reaper"} /\ Follows(task[k].todo, task[k].op)
       /\ (k = "reaper") <=> (task[k].op = "reaper")
       /\ k # "reaper" => task[k].n \in 1..made
       /\ task[k].op = "user_create_token" => task[k].arg \in Creation
       /\ task[k].op = "user_consume_token" => task[k].arg \in [token : Tokens]
  /\ \A j, k \in Slots : (j # k /\ task[j] # None /\ task[k] # None) => task[j].n # task[k].n
  (* Every statement of a transaction is its owner's. *)
  /\ \A k \in Tasks : owner = k <=> (task[k] # None /\ Within(task[k].op, Left(k)))

------------------------------------------------------------------------------
(* What the tables T of tokens and C of consumptions owe the tasks in K.     *)

Row == [user : Users, kind : Kinds, multi : BOOLEAN, expires : (1..MaxNow) \cup {None},
        created : Nat, used : BOOLEAN, revoked : BOOLEAN]
Gone(T, t) == T[t] # None => T[t].used
Dead(T, t) == T[t] # None => T[t].revoked

(* A token is made when its request has inserted it, or can no longer.       *)
Makes(k, t) == Runs(k, "user_create_token") /\ Left(k) >= 3 /\ task[k].n = t
Born == {t \in Tokens : t <= made /\ \A k \in Slots : ~Makes(k, t)}

Consumes(k, t) == Runs(k, "user_consume_token") /\ t \in task[k].hit
Revokes(k, t) == task[k] # None /\ task[k].op # "user_consume_token" /\ t \in task[k].hit
(* Used, and the event still to be written. *)
Logs(k, t) == Consumes(k, t) /\ Left(k) = 2
(* The user's tokens are gone, the events not yet. *)
Purges(k, u) == Runs(k, "purge") /\ Left(k) \in {3, 4} /\ task[k].arg.user = u
(* The tokens before the new one are revoked. *)
Replaces(k, u, i) ==
  /\ Runs(k, "user_create_token") /\ Left(k) = 3 /\ ~task[k].arg.multi
  /\ task[k].arg.user = u /\ task[k].arg.kind = i

Ordered(T) ==
  \A s, t \in Tokens :
    ( /\ T[s] # None /\ T[t] # None /\ Open(T[s]) /\ Open(T[t])
      /\ T[s].user = T[t].user /\ T[s].kind = T[t].kind /\ T[s].created < T[t].created )
    => T[t].multi

Owed(T, K) ==
  \A t \in Tokens :
    /\ (wins[t] > 0 \/ \E k \in K : Consumes(k, t)) => Gone(T, t)
    /\ (t \in dead \/ \E k \in K : Revokes(k, t)) => Dead(T, t)
Unborn(T, C) == \A t \in Tokens \ Born : T[t] = None /\ \A u \in Users : <<t, u>> \notin C
LoggedBut(T, C, K) ==
  \A t \in Tokens : T[t] # None =>
    \/ T[t].used <=> <<t, T[t].user>> \in C
    \/ \E k \in K : Logs(k, t)
Cleared(T, K) ==
  \A k \in K, t \in Tokens : T[t] # None =>
    /\ ~Purges(k, T[t].user)
    /\ Replaces(k, T[t].user, T[t].kind) => ~Open(T[t])

Good(T, C, K) ==
  /\ T \in [Tokens -> Row \cup {None}]
  /\ Owed(T, K) /\ Unborn(T, C) /\ LoggedBut(T, C, K) /\ Cleared(T, K) /\ Ordered(T)

(* No two answers are promised the same consumption. *)
Claims ==
  /\ wins \in [Tokens -> {0, 1}] /\ dead \subseteq Tokens
  /\ \A j, k \in Tasks, t \in Tokens : (Consumes(j, t) /\ Consumes(k, t)) => j = k
  /\ \A k \in Tasks, t \in Tokens : Consumes(k, t) => wins[t] = 0
  /\ \A t \in Tokens \ Born : wins[t] = 0 /\ t \notin dead
  /\ \A k \in Tasks : task[k] # None => task[k].hit \subseteq Born

IInv ==
  /\ Control /\ Claims
  /\ Good(view.tokens, view.consumed, Tasks)
  (* What is committed owes nothing to the transaction that is open. *)
  /\ owner # None => Good(saved.tokens, saved.consumed, Tasks \ {owner})
------------------------------------------------------------------------------
(* The scripts: which statement is how far from the end.                     *)

(* Where each statement that matters stands.                                 *)
Places(op, l, s) ==
  /\ s = "begin" => ~Within(op, l) /\ Within(op, l - 1)
  /\ s = "commit" => Within(op, l) /\ ~Within(op, l - 1)
  /\ s \notin {"begin", "commit"} => (Within(op, l) <=> Within(op, l - 1))
  /\ s = "use" <=> op = "user_consume_token" /\ l = 3
  /\ s = "consumed" <=> op = "user_consume_token" /\ l = 2
  /\ s = "token" <=> op = "user_create_token" /\ l = 3
  /\ s = "revoke_previous" <=> op = "user_create_token" /\ l = 4
  /\ s = "purge_tokens" <=> op = "purge" /\ l = 5
  /\ s = "purge_events" <=> op = "purge" /\ l = 3
  /\ s = "revoke_all" <=> op = "soft_delete" /\ l = 3
  /\ s = "revoke" <=> op = "user_revoke_token" /\ l = 3
  /\ s = "expired" <=> op = "reaper" /\ l = 2

LEMMA ScriptStages ==
  ASSUME NEW op \in Requests \cup {"reaper"}
  PROVE  /\ ScriptOf(op) \in Seq(Statements)
         /\ \A l \in 1..Len(ScriptOf(op)) : Places(op, l, Stage(op, l))
<1>1. CASE op = "user_create"
  <2>1. ScriptOf(op) = <<"begin", "items", "commit">>
    BY <1>1 DEF ScriptOf, Script, ConsumeScript, RevokeScript, ReaperScript
  <2>2. Len(ScriptOf(op)) = 3 /\ ScriptOf(op) \in Seq(Statements)
    BY <2>1 DEF Statements
  <2> QED
    BY <2>1, <2>2, <1>1 DEF Places, Within, Stage
<1>2. CASE op = "user_update"
  <2>1. ScriptOf(op) = <<"user", "update", "event">>
    BY <1>2 DEF ScriptOf, Script, ConsumeScript, RevokeScript, ReaperScript
  <2>2. Len(ScriptOf(op)) = 3 /\ ScriptOf(op) \in Seq(Statements)
    BY <2>1 DEF Statements
  <2> QED
    BY <2>1, <2>2, <1>2 DEF Places, Within, Stage
<1>3. CASE op = "user_update_password"
  <2>1. ScriptOf(op) = <<"begin", "password", "commit">>
    BY <1>3 DEF ScriptOf, Script, ConsumeScript, RevokeScript, ReaperScript
  <2>2. Len(ScriptOf(op)) = 3 /\ ScriptOf(op) \in Seq(Statements)
    BY <2>1 DEF Statements
  <2> QED
    BY <2>1, <2>2, <1>3 DEF Places, Within, Stage
<1>4. CASE op = "user_update_status"
  <2>1. ScriptOf(op) = <<"user", "status", "event">>
    BY <1>4 DEF ScriptOf, Script, ConsumeScript, RevokeScript, ReaperScript
  <2>2. Len(ScriptOf(op)) = 3 /\ ScriptOf(op) \in Seq(Statements)
    BY <2>1 DEF Statements
  <2> QED
    BY <2>1, <2>2, <1>4 DEF Places, Within, Stage
<1>5. CASE op = "soft_delete"
  <2>1. ScriptOf(op) = <<"begin", "delete", "revoke_all", "commit", "event">>
    BY <1>5 DEF ScriptOf, Script, ConsumeScript, RevokeScript, ReaperScript
  <2>2. Len(ScriptOf(op)) = 5 /\ ScriptOf(op) \in Seq(Statements)
    BY <2>1 DEF Statements
  <2> QED
    BY <2>1, <2>2, <1>5 DEF Places, Within, Stage
<1>6. CASE op = "purge"
  <2>1. ScriptOf(op) = <<"begin", "purge_tokens", "purge_links", "purge_events", "purge_user", "commit">>
    BY <1>6 DEF ScriptOf, Script, ConsumeScript, RevokeScript, ReaperScript
  <2>2. Len(ScriptOf(op)) = 6 /\ ScriptOf(op) \in Seq(Statements)
    BY <2>1 DEF Statements
  <2> QED
    BY <2>1, <2>2, <1>6 DEF Places, Within, Stage
<1>7. CASE op = "user_link_provider"
  <2>1. ScriptOf(op) = <<"user", "link", "event">>
    BY <1>7 DEF ScriptOf, Script, ConsumeScript, RevokeScript, ReaperScript
  <2>2. Len(ScriptOf(op)) = 3 /\ ScriptOf(op) \in Seq(Statements)
    BY <2>1 DEF Statements
  <2> QED
    BY <2>1, <2>2, <1>7 DEF Places, Within, Stage
<1>8. CASE op = "user_unlink_provider"
  <2>1. ScriptOf(op) = <<"unlink", "event">>
    BY <1>8 DEF ScriptOf, Script, ConsumeScript, RevokeScript, ReaperScript
  <2>2. Len(ScriptOf(op)) = 2 /\ ScriptOf(op) \in Seq(Statements)
    BY <2>1 DEF Statements
  <2> QED
    BY <2>1, <2>2, <1>8 DEF Places, Within, Stage
<1>9. CASE op = "user_create_token"
  <2>1. ScriptOf(op) = <<"begin", "revoke_previous", "token", "commit", "event">>
    BY <1>9 DEF ScriptOf, Script, ConsumeScript, RevokeScript, ReaperScript
  <2>2. Len(ScriptOf(op)) = 5 /\ ScriptOf(op) \in Seq(Statements)
    BY <2>1 DEF Statements
  <2> QED
    BY <2>1, <2>2, <1>9 DEF Places, Within, Stage
<1>10. CASE op = "user_consume_token"
  <2>1. ScriptOf(op) = <<"begin", "use", "consumed", "commit">>
    BY <1>10 DEF ScriptOf, Script, ConsumeScript, RevokeScript, ReaperScript
  <2>2. Len(ScriptOf(op)) = 4 /\ ScriptOf(op) \in Seq(Statements)
    BY <2>1 DEF Statements
  <2> QED
    BY <2>1, <2>2, <1>10 DEF Places, Within, Stage
<1>11. CASE op = "user_revoke_token"
  <2>1. ScriptOf(op) = <<"begin", "revoke", "event", "commit">>
    BY <1>11 DEF ScriptOf, Script, ConsumeScript, RevokeScript, ReaperScript
  <2>2. Len(ScriptOf(op)) = 4 /\ ScriptOf(op) \in Seq(Statements)
    BY <2>1 DEF Statements
  <2> QED
    BY <2>1, <2>2, <1>11 DEF Places, Within, Stage
<1>12. CASE op = "reaper"
  <2>1. ScriptOf(op) = <<"begin", "due", "expired", "commit">>
    BY <1>12 DEF ScriptOf, Script, ConsumeScript, RevokeScript, ReaperScript
  <2>2. Len(ScriptOf(op)) = 4 /\ ScriptOf(op) \in Seq(Statements)
    BY <2>1 DEF Statements
  <2> QED
    BY <2>1, <2>2, <1>12 DEF Places, Within, Stage
<1> QED
  BY <1>1, <1>2, <1>3, <1>4, <1>5, <1>6, <1>7, <1>8, <1>9, <1>10, <1>11, <1>12 DEF Requests

LEMMA Popped ==
  ASSUME NEW todo \in Seq(Statements), todo # <<>>, NEW op \in Requests \cup {"reaper"},
         Follows(todo, op)
  PROVE  /\ Len(todo) \in 1..Len(ScriptOf(op)) /\ Head(todo) = Stage(op, Len(todo))
         /\ Tail(todo) \in Seq(Statements) /\ Len(Tail(todo)) = Len(todo) - 1
         /\ Follows(Tail(todo), op)
<1> DEFINE n == Len(todo)
           m == Len(ScriptOf(op))
<1>1. n \in Nat \ {0} /\ m \in Nat /\ n <= m
  BY ScriptStages DEF Follows
<1>2. Tail(todo) \in Seq(Statements) /\ Len(Tail(todo)) = n - 1
      /\ \A j \in 1..(n - 1) : Tail(todo)[j] = todo[j + 1]
  OBVIOUS
<1>3. Head(todo) = todo[1]
  OBVIOUS
<1>4. \A j \in 1..n : todo[j] = Stage(op, n - j + 1)
  BY DEF Follows
<1>5. todo[1] = Stage(op, n)
  BY <1>1, <1>4
<1>6. ASSUME NEW j \in 1..(n - 1)
      PROVE  Tail(todo)[j] = Stage(op, (n - 1) - j + 1)
  <2>1. j + 1 \in 1..n /\ n - (j + 1) + 1 = (n - 1) - j + 1
    BY <1>1
  <2> QED
    BY <2>1, <1>2, <1>4
<1> HIDE DEF n, m
<1>7. Len(todo) = n /\ Len(ScriptOf(op)) = m
  BY DEF n, m
<1>8. Follows(Tail(todo), op)
  BY <1>1, <1>2, <1>6, <1>7 DEF Follows
<1> QED
  BY <1>1, <1>2, <1>3, <1>5, <1>7, <1>8

------------------------------------------------------------------------------
(* Control is inductive: a transaction's statements are its owner's.         *)

LEMMA TaskAt ==
  ASSUME Control, NEW k \in Tasks, task[k] # None, task[k].todo # <<>>
  PROVE  LET todo == task[k].todo
             op == task[k].op IN
         /\ task[k] \in Pending /\ op \in Requests \cup {"reaper"}
         /\ Left(k) \in Nat \ {0} /\ Places(op, Left(k), Head(todo))
         /\ Tail(todo) \in Seq(Statements) /\ Len(Tail(todo)) = Left(k) - 1
         /\ Follows(Tail(todo), op)
<1> DEFINE todo == task[k].todo
           op == task[k].op
<1>1. /\ task[k] \in Pending /\ op \in Requests \cup {"reaper"} /\ Follows(todo, op)
      /\ todo \in Seq(Statements)
  BY DEF Control, Pending
<1> HIDE DEF todo, op
<1>2. todo # <<>>
  BY DEF todo
<1>3. /\ Len(todo) \in 1..Len(ScriptOf(op)) /\ Head(todo) = Stage(op, Len(todo))
      /\ Tail(todo) \in Seq(Statements) /\ Len(Tail(todo)) = Len(todo) - 1
      /\ Follows(Tail(todo), op)
  BY <1>1, <1>2, Popped
<1>4. Places(op, Len(todo), Head(todo))
  BY <1>1, <1>3, ScriptStages
<1>5. Len(todo) \in Nat \ {0}
  BY <1>1, <1>3
<1> QED
  BY <1>1, <1>3, <1>4, <1>5 DEF todo, op, Left

(* A task goes on to its next statement, having hit h. *)
Moved(k, h) ==
  [task EXCEPT ![k] = [op |-> task[k].op, arg |-> task[k].arg, todo |-> Tail(task[k].todo),
                       n |-> task[k].n, hit |-> h]]

LEMMA RestMoved ==
  ASSUME Control, NEW k \in Tasks, task[k] # None, NEW h
  PROVE  /\ Rest(k) = Moved(k, task[k].hit)
         /\ [Rest(k) EXCEPT ![k].hit = h] = Moved(k, h)
<1>1. task[k] \in Pending /\ task \in [Tasks -> Pending \cup {None}]
  BY DEF Control
<1> DEFINE p == task[k]
           r == [op |-> p.op, arg |-> p.arg, todo |-> Tail(p.todo), n |-> p.n, hit |-> p.hit]
<1>2. [p EXCEPT !.todo = Tail(@)] = r
  <2>1. PICK o, a, d, n, g :
               p = [op |-> o, arg |-> a, todo |-> d, n |-> n, hit |-> g]
    BY <1>1 DEF Pending
  <2> HIDE DEF p
  <2>2. [p EXCEPT !.todo = Tail(d)] =
          [op |-> o, arg |-> a, todo |-> Tail(d), n |-> n, hit |-> g]
    <3>1. PICK x : x = Tail(d)
      OBVIOUS
    <3>2. [p EXCEPT !.todo = x] = [op |-> o, arg |-> a, todo |-> x, n |-> n, hit |-> g]
      BY <2>1
    <3> QED
      BY <3>1, <3>2
  <2>3. p.op = o /\ p.arg = a /\ p.todo = d /\ p.n = n /\ p.hit = g
    BY <2>1
  <2> QED
    BY <2>2, <2>3
<1>3. Rest(k) = Moved(k, task[k].hit)
  <2>1. Rest(k) = [task EXCEPT ![k] = [p EXCEPT !.todo = Tail(@)]]
    BY DEF Rest
  <2>2. Moved(k, task[k].hit) = [task EXCEPT ![k] = r]
    BY DEF Moved
  <2> QED
    BY <2>1, <2>2, <1>2
<1>4. [Moved(k, task[k].hit) EXCEPT ![k].hit = h] = Moved(k, h)
  <2>1. [r EXCEPT !.hit = h] =
          [op |-> p.op, arg |-> p.arg, todo |-> Tail(p.todo), n |-> p.n, hit |-> h]
    <3>1. PICK o, a, d, n, g : o = p.op /\ a = p.arg /\ d = Tail(p.todo) /\ n = p.n /\ g = p.hit
      OBVIOUS
    <3>2. r = [op |-> o, arg |-> a, todo |-> d, n |-> n, hit |-> g]
      BY <3>1
    <3> HIDE DEF r
    <3>3. [r EXCEPT !.hit = h] = [op |-> o, arg |-> a, todo |-> d, n |-> n, hit |-> h]
      BY <3>2
    <3> QED
      BY <3>1, <3>3
  <2>2. Moved(k, task[k].hit) = [task EXCEPT ![k] = r]
    BY DEF Moved
  <2> HIDE DEF r
  <2>3. [[task EXCEPT ![k] = r] EXCEPT ![k].hit = h] = [task EXCEPT ![k] = [r EXCEPT !.hit = h]]
    BY <1>1
  <2> QED
    BY <2>1, <2>2, <2>3 DEF Moved
<1> QED
  BY <1>3, <1>4

LEMMA MovedControl ==
  ASSUME Control, NEW k \in Tasks, task[k] # None, task[k].todo # <<>>, NEW h \in SUBSET Tokens,
         task' = Moved(k, h), made' = made,
         \/ Head(task[k].todo) = "begin" /\ owner = None /\ owner' = k
         \/ Head(task[k].todo) = "commit" /\ owner' = None
         \/ Head(task[k].todo) \notin {"begin", "commit"} /\ owner' = owner
  PROVE  Control'
<1> DEFINE r == [op |-> task[k].op, arg |-> task[k].arg, todo |-> Tail(task[k].todo),
                 n |-> task[k].n, hit |-> h]
           s == Head(task[k].todo)
           op == task[k].op
<1>1. /\ task[k] \in Pending /\ op \in Requests \cup {"reaper"}
      /\ Left(k) \in Nat \ {0} /\ Places(op, Left(k), s)
      /\ Tail(task[k].todo) \in Seq(Statements) /\ Len(Tail(task[k].todo)) = Left(k) - 1
      /\ Follows(Tail(task[k].todo), op)
  BY TaskAt
<1>2. task \in [Tasks -> Pending \cup {None}]
  BY DEF Control
<1>3. r \in Pending
  BY <1>1 DEF Pending
<1>4. r # None
  BY <1>3, IdentityAssumption
<1>5. task' \in [Tasks -> Pending \cup {None}] /\ task'[k] = r
      /\ \A j \in Tasks : j # k => task'[j] = task[j]
  BY <1>2, <1>3 DEF Moved
<1>6. r.op = op /\ r.todo = Tail(task[k].todo) /\ r.n = task[k].n /\ r.arg = task[k].arg
  OBVIOUS
<1> HIDE DEF r, s, op
<1>7. Left(k)' = Left(k) - 1 /\ \A j \in Tasks : j # k => Left(j)' = Left(j)
  BY <1>1, <1>5, <1>6 DEF Left
<1>8. owner' \in Tasks \cup {None}
  BY DEF Control, s
<1>9. \A j \in Tasks : task'[j] # None =>
       /\ task'[j].op \in Requests \cup {"reaper"} /\ Follows(task'[j].todo, task'[j].op)
       /\ (j = "reaper") <=> (task'[j].op = "reaper")
       /\ j # "reaper" => task'[j].n \in 1..made'
       /\ task'[j].op = "user_create_token" => task'[j].arg \in Creation
       /\ task'[j].op = "user_consume_token" => task'[j].arg \in [token : Tokens]
  BY <1>1, <1>5, <1>6 DEF Control, op
<1>10. \A i, j \in Slots :
         (i # j /\ task'[i] # None /\ task'[j] # None) => task'[i].n # task'[j].n
  BY <1>5, <1>6 DEF Control, Tasks
<1>11. ASSUME NEW j \in Tasks
       PROVE  owner' = j <=> (task'[j] # None /\ Within(task'[j].op, Left(j)'))
  <2>1. owner = j <=> (task[j] # None /\ Within(task[j].op, Left(j)))
    BY DEF Control
  <2>2. owner = k <=> Within(op, Left(k))
    BY DEF Control, op
  <2>3. None \notin Tasks
    BY IdentityAssumption DEF Tasks
  <2>4. /\ s = "begin" => ~Within(op, Left(k)) /\ Within(op, Left(k) - 1)
        /\ s = "commit" => Within(op, Left(k)) /\ ~Within(op, Left(k) - 1)
        /\ s \notin {"begin", "commit"} => (Within(op, Left(k)) <=> Within(op, Left(k) - 1))
    BY <1>1 DEF Places
  <2>5. CASE j = k
    <3>1. task'[k] # None /\ task'[k].op = op /\ Left(k)' = Left(k) - 1
      BY <1>4, <1>5, <1>6, <1>7
    <3>2. owner' = k <=> Within(op, Left(k) - 1)
      BY <2>2, <2>3, <2>4 DEF s
    <3> QED
      BY <2>5, <3>1, <3>2
  <2>6. CASE j # k
    <3>1. owner' = j <=> owner = j
      BY <2>2, <2>3, <2>4, <2>6 DEF s
    <3> QED
      BY <2>1, <2>6, <3>1, <1>5, <1>7
  <2> QED
    BY <2>5, <2>6
<1> QED
  BY <1>5, <1>8, <1>9, <1>10, <1>11 DEF Control

LEMMA DropControl ==
  ASSUME Control, NEW k \in Tasks, task' = [task EXCEPT ![k] = None], made' = made,
         owner' = IF owner = k THEN None ELSE owner
  PROVE  Control'
<1>1. /\ task' \in [Tasks -> Pending \cup {None}] /\ task'[k] = None
      /\ \A j \in Tasks : j # k => task'[j] = task[j] /\ Left(j)' = Left(j)
  BY DEF Control, Left
<1>2. owner' \in Tasks \cup {None}
  BY DEF Control
<1>3. \A j \in Tasks : task'[j] # None =>
       /\ task'[j].op \in Requests \cup {"reaper"} /\ Follows(task'[j].todo, task'[j].op)
       /\ (j = "reaper") <=> (task'[j].op = "reaper")
       /\ j # "reaper" => task'[j].n \in 1..made'
       /\ task'[j].op = "user_create_token" => task'[j].arg \in Creation
       /\ task'[j].op = "user_consume_token" => task'[j].arg \in [token : Tokens]
  BY <1>1 DEF Control
<1>4. \A i, j \in Slots :
         (i # j /\ task'[i] # None /\ task'[j] # None) => task'[i].n # task'[j].n
  BY <1>1 DEF Control, Tasks
<1>5. ASSUME NEW j \in Tasks
      PROVE  owner' = j <=> (task'[j] # None /\ Within(task'[j].op, Left(j)'))
  <2>1. owner = j <=> (task[j] # None /\ Within(task[j].op, Left(j)))
    BY DEF Control
  <2>2. None \notin Tasks
    BY IdentityAssumption DEF Tasks
  <2> QED
    BY <1>1, <2>1, <2>2
<1> QED
  BY <1>1, <1>2, <1>3, <1>4, <1>5 DEF Control

(* A transaction that is done or given up owes nothing.                      *)
LEMMA AnsweredOutside ==
  ASSUME Control, NEW k \in Tasks, task[k] # None, task[k].todo = <<>>
  PROVE  owner # k /\ Left(k) = 0
BY DEF Control, Left, Within

(* A task that starts has its whole script before it.                        *)
LEMMA FreshFollows ==
  ASSUME NEW op \in Requests \cup {"reaper"}
  PROVE  /\ Follows(ScriptOf(op), op) /\ ScriptOf(op) \in Seq(Statements)
         /\ ~Within(op, Len(ScriptOf(op)))
         /\ op = "user_create_token" => Len(ScriptOf(op)) = 5
         /\ op = "user_consume_token" => Len(ScriptOf(op)) = 4
         /\ op = "purge" => Len(ScriptOf(op)) = 6
<1>1. ScriptOf(op) \in Seq(Statements) /\ Len(ScriptOf(op)) \in Nat
  BY ScriptStages
<1>2. Follows(ScriptOf(op), op)
  <2>1. PICK m : m = Len(ScriptOf(op))
    OBVIOUS
  <2>2. \A j \in 1..m : m - (m - j + 1) + 1 = j
    BY <1>1, <2>1
  <2> QED
    BY <1>1, <2>1, <2>2 DEF Follows, Stage
<1>3. /\ ~Within(op, Len(ScriptOf(op)))
      /\ op = "user_create_token" => Len(ScriptOf(op)) = 5
      /\ op = "user_consume_token" => Len(ScriptOf(op)) = 4
      /\ op = "purge" => Len(ScriptOf(op)) = 6
  BY DEF Within, Requests, ScriptOf, Script, ConsumeScript, RevokeScript, ReaperScript
<1> QED
  BY <1>1, <1>2, <1>3

LEMMA StartControl ==
  ASSUME Control, NEW k \in Tasks, task[k] = None, owner' = owner,
         NEW op \in Operations \cup {"reaper"}, k = "reaper" <=> op = "reaper",
         NEW a \in Arguments, op = "user_create_token" => a \in Creation,
         op = "user_consume_token" => a \in [token : Tokens],
         NEW m \in Tokens, made' \in 0..MaxRequests,
         IF op = "reaper" THEN made' = made ELSE made' = made + 1 /\ m = made',
         task' = [task EXCEPT ![k] = [todo |-> ScriptOf(op), arg |-> a, n |-> m, hit |-> {},
                                      op |-> op]]
  PROVE  Control'
<1> DEFINE r == [todo |-> ScriptOf(op), arg |-> a, n |-> m, hit |-> {}, op |-> op]
<1>1. op \in Requests \cup {"reaper"}
  BY IdentityAssumption DEF Requests
<1>2. /\ Follows(ScriptOf(op), op) /\ ScriptOf(op) \in Seq(Statements)
      /\ ~Within(op, Len(ScriptOf(op)))
  BY <1>1, FreshFollows
<1>3. r \in Pending
  BY <1>2 DEF Pending
<1>4. r # None
  BY <1>3, IdentityAssumption
<1>5. r.op = op /\ r.todo = ScriptOf(op) /\ r.arg = a /\ r.n = m
  OBVIOUS
<1>6. /\ task' \in [Tasks -> Pending \cup {None}] /\ task'[k] = r
      /\ \A j \in Tasks : j # k => task'[j] = task[j] /\ Left(j)' = Left(j)
  BY <1>3 DEF Control, Left
<1> HIDE DEF r
<1>7. Left(k)' = Len(ScriptOf(op))
  BY <1>5, <1>6 DEF Left
<1>8. made \in 0..MaxRequests /\ MaxRequests \in Nat
  BY IdentityAssumption DEF Control
<1>9. \A j \in Tasks : j # k /\ j # "reaper" /\ task[j] # None =>
        task[j].n \in 1..made' /\ (k # "reaper" => task[j].n # m)
  BY <1>8 DEF Control
<1>10. \A j \in Tasks : task'[j] # None =>
       /\ task'[j].op \in Requests \cup {"reaper"} /\ Follows(task'[j].todo, task'[j].op)
       /\ (j = "reaper") <=> (task'[j].op = "reaper")
       /\ j # "reaper" => task'[j].n \in 1..made'
       /\ task'[j].op = "user_create_token" => task'[j].arg \in Creation
       /\ task'[j].op = "user_consume_token" => task'[j].arg \in [token : Tokens]
  <2>1. ASSUME NEW j \in Tasks, j # k, task[j] # None
        PROVE  /\ task[j].op \in Requests \cup {"reaper"} /\ Follows(task[j].todo, task[j].op)
               /\ (j = "reaper") <=> (task[j].op = "reaper")
               /\ task[j].op = "user_create_token" => task[j].arg \in Creation
               /\ task[j].op = "user_consume_token" => task[j].arg \in [token : Tokens]
    BY <2>1 DEF Control
  <2>2. k # "reaper" => m \in 1..made'
    BY <1>8
  <2> QED
    BY <1>1, <1>2, <1>5, <1>6, <1>9, <2>1, <2>2
<1>11. \A i, j \in Slots :
         (i # j /\ task'[i] # None /\ task'[j] # None) => task'[i].n # task'[j].n
  <2>1. \A i \in Slots : i \in Tasks /\ i # "reaper"
    BY IdentityAssumption DEF Tasks
  <2>2. \A i, j \in Slots : (i # j /\ task[i] # None /\ task[j] # None) => task[i].n # task[j].n
    BY DEF Control
  <2> QED
    BY <1>5, <1>6, <1>9, <2>1, <2>2
<1>12. ASSUME NEW j \in Tasks
       PROVE  owner' = j <=> (task'[j] # None /\ Within(task'[j].op, Left(j)'))
  <2>1. owner = j <=> (task[j] # None /\ Within(task[j].op, Left(j)))
    BY DEF Control
  <2> QED
    BY <1>2, <1>5, <1>6, <1>7, <2>1
<1>13. owner' \in Tasks \cup {None}
  BY DEF Control
<1> QED
  BY <1>6, <1>10, <1>11, <1>12, <1>13 DEF Control

------------------------------------------------------------------------------
(* When tables stay as good as they were.                                    *)

LEMMA ViewGood ==
  ASSUME NEW T, NEW C, view'.tokens = T, view'.consumed = C, Good(T, C, Tasks)'
  PROVE  Good(view.tokens, view.consumed, Tasks)'
BY DEF Good, Owed, Unborn, LoggedBut, Cleared, Ordered, Gone, Dead

LEMMA SavedGood ==
  ASSUME NEW T, NEW C, saved'.tokens = T, saved'.consumed = C, NEW o, owner' = o,
         Good(T, C, Tasks \ {o})'
  PROVE  Good(saved.tokens, saved.consumed, Tasks \ {owner})'
BY DEF Good, Owed, Unborn, LoggedBut, Cleared, Ordered, Gone, Dead

(* No task is owed more than it was, nor writes an event less.               *)
NoMore(K) ==
  \A j \in K : /\ \A t \in Tokens : /\ Consumes(j, t)' => Consumes(j, t)
                                    /\ Revokes(j, t)' => Revokes(j, t)
                                    /\ Logs(j, t) => Logs(j, t)'
               /\ \A u, i : /\ Purges(j, u)' => Purges(j, u)
                            /\ Replaces(j, u, i)' => Replaces(j, u, i)

LEMMA GoodKept ==
  ASSUME NEW T, NEW C, NEW K, Good(T, C, K), Born \subseteq Born', NoMore(K),
         \A t \in Tokens : wins'[t] > 0 => (wins[t] > 0 \/ \E k \in K : Consumes(k, t)),
         \A t \in dead' : t \in dead \/ \E k \in K : Revokes(k, t)
  PROVE  Good(T, C, K)'
<1>1. Owed(T, K)'
  BY DEF Good, Owed, NoMore, Gone, Dead
<1>2. Unborn(T, C)'
  BY DEF Good, Unborn, Tokens
<1>3. LoggedBut(T, C, K)'
  BY DEF Good, LoggedBut, NoMore
<1>4. Cleared(T, K)'
  BY DEF Good, Cleared, NoMore
<1>5. Ordered(T)'
  BY DEF Good, Ordered
<1> QED
  BY <1>1, <1>2, <1>3, <1>4, <1>5 DEF Good

(* The promises of a task that is left alone.                                *)
LEMMA Alone ==
  ASSUME NEW j \in Tasks, task'[j] = task[j]
  PROVE  /\ \A t : /\ Consumes(j, t)' <=> Consumes(j, t)
                   /\ Revokes(j, t)' <=> Revokes(j, t)
                   /\ Logs(j, t)' <=> Logs(j, t)
                   /\ Makes(j, t)' <=> Makes(j, t)
         /\ \A u, i : /\ Purges(j, u)' <=> Purges(j, u)
                      /\ Replaces(j, u, i)' <=> Replaces(j, u, i)
<1>1. Left(j)' = Left(j) /\ \A op : Runs(j, op)' <=> Runs(j, op)
  BY DEF Left, Runs
<1>2. ASSUME NEW t
      PROVE  /\ Consumes(j, t)' <=> Consumes(j, t)
             /\ Revokes(j, t)' <=> Revokes(j, t)
             /\ Logs(j, t)' <=> Logs(j, t)
             /\ Makes(j, t)' <=> Makes(j, t)
  BY <1>1 DEF Consumes, Revokes, Logs, Makes
<1>3. ASSUME NEW u, NEW i
      PROVE  /\ Purges(j, u)' <=> Purges(j, u)
             /\ Replaces(j, u, i)' <=> Replaces(j, u, i)
  BY <1>1 DEF Purges, Replaces
<1> QED
  BY <1>2, <1>3

LEMMA BornKept ==
  ASSUME made \in Nat, made' \in Nat, made <= made', 
         \A k \in Slots, t \in Tokens : (Makes(k, t)' /\ t <= made) => Makes(k, t)
  PROVE  Born \subseteq Born'
BY DEF Born, Tokens

(* The promises of a task that goes on.                                      *)
LEMMA MovedPromises ==
  ASSUME Control, NEW k \in Tasks, task[k] # None, task[k].todo # <<>>, NEW h \in SUBSET Tokens,
         task' = Moved(k, h)
  PROVE  LET s == Head(task[k].todo)
             op == task[k].op
             arg == task[k].arg IN
         /\ \A j \in Tasks : j # k => task'[j] = task[j]
         /\ task'[k] # None /\ task'[k].hit = h
         /\ \A t : /\ Consumes(k, t)' <=> (op = "user_consume_token" /\ t \in h)
                   /\ Revokes(k, t)' <=> (op # "user_consume_token" /\ t \in h)
                   /\ Logs(k, t)' <=> (s = "use" /\ t \in h)
                   /\ Logs(k, t) <=> (s = "consumed" /\ t \in task[k].hit)
                   /\ Makes(k, t)' => Makes(k, t)
                   /\ s = "token" => (Makes(k, t) <=> task[k].n = t)
                   /\ s = "token" => ~Makes(k, t)'
                   /\ (Makes(k, t) /\ s # "token") => Makes(k, t)'
         /\ \A u : /\ Purges(k, u)' => (Purges(k, u) \/ (s = "purge_tokens" /\ arg.user = u))
                   /\ s = "purge_events" => (Purges(k, u) <=> arg.user = u)
                   /\ s = "purge_events" => ~Purges(k, u)'
         /\ \A u, i : /\ Replaces(k, u, i)' =>
                           /\ s = "revoke_previous" /\ ~arg.multi
                           /\ arg.user = u /\ arg.kind = i
                      /\ Replaces(k, u, i) <=>
                           /\ s = "token" /\ ~arg.multi
                           /\ arg.user = u /\ arg.kind = i
<1> DEFINE s == Head(task[k].todo)
           op == task[k].op
           arg == task[k].arg
           l == Left(k)
           r == [op |-> op, arg |-> arg, todo |-> Tail(task[k].todo), n |-> task[k].n, hit |-> h]
<1>1. /\ task[k] \in Pending /\ op \in Requests \cup {"reaper"}
      /\ l \in Nat \ {0} /\ Places(op, l, s)
      /\ Tail(task[k].todo) \in Seq(Statements) /\ Len(Tail(task[k].todo)) = l - 1
  BY TaskAt
<1>2. task \in [Tasks -> Pending \cup {None}]
  BY DEF Control
<1>3. r \in Pending
  BY <1>1 DEF Pending
<1>4. r # None
  BY <1>3, IdentityAssumption
<1>5. task'[k] = r /\ \A j \in Tasks : j # k => task'[j] = task[j]
  BY <1>2 DEF Moved
<1>6. r.op = op /\ r.todo = Tail(task[k].todo) /\ r.n = task[k].n /\ r.arg = arg /\ r.hit = h
  OBVIOUS
<1> HIDE DEF r
<1>7. /\ task'[k] # None /\ task'[k].op = op /\ task'[k].arg = arg /\ task'[k].n = task[k].n
      /\ task'[k].hit = h /\ Left(k)' = l - 1
  BY <1>1, <1>4, <1>5, <1>6 DEF Left
<1>8. /\ s = "use" <=> (op = "user_consume_token" /\ l = 3)
      /\ s = "consumed" <=> (op = "user_consume_token" /\ l = 2)
      /\ s = "token" <=> (op = "user_create_token" /\ l = 3)
      /\ s = "revoke_previous" <=> (op = "user_create_token" /\ l = 4)
      /\ s = "purge_tokens" <=> (op = "purge" /\ l = 5)
      /\ s = "purge_events" <=> (op = "purge" /\ l = 3)
  BY <1>1 DEF Places
<1>9. Left(k) = l /\ task[k].op = op /\ task[k].arg = arg
  OBVIOUS
<1> HIDE DEF s, op, arg, l
<1>10. /\ \A o : Runs(k, o) <=> op = o
       /\ \A o : Runs(k, o)' <=> op = o
  BY <1>7, <1>9 DEF Runs
<1>11. ASSUME NEW t
       PROVE  /\ Consumes(k, t)' <=> (op = "user_consume_token" /\ t \in h)
              /\ Revokes(k, t)' <=> (op # "user_consume_token" /\ t \in h)
              /\ Logs(k, t)' <=> (s = "use" /\ t \in h)
              /\ Logs(k, t) <=> (s = "consumed" /\ t \in task[k].hit)
              /\ Makes(k, t)' => Makes(k, t)
              /\ s = "token" => (Makes(k, t) <=> task[k].n = t)
              /\ s = "token" => ~Makes(k, t)'
              /\ (Makes(k, t) /\ s # "token") => Makes(k, t)'
  <2>1. Consumes(k, t)' <=> (op = "user_consume_token" /\ t \in h)
    BY <1>7, <1>10 DEF Consumes
  <2>2. Consumes(k, t) <=> (op = "user_consume_token" /\ t \in task[k].hit)
    BY <1>10 DEF Consumes
  <2>3. Revokes(k, t)' <=> (op # "user_consume_token" /\ t \in h)
    BY <1>7 DEF Revokes
  <2>4. Logs(k, t)' <=> (op = "user_consume_token" /\ t \in h /\ l - 1 = 2)
    BY <2>1, <1>7 DEF Logs
  <2>5. Logs(k, t) <=> (op = "user_consume_token" /\ t \in task[k].hit /\ l = 2)
    BY <2>2, <1>9 DEF Logs
  <2>6. Makes(k, t)' <=> (op = "user_create_token" /\ l - 1 >= 3 /\ task[k].n = t)
    BY <1>7, <1>10 DEF Makes
  <2>7. Makes(k, t) <=> (op = "user_create_token" /\ l >= 3 /\ task[k].n = t)
    BY <1>9, <1>10 DEF Makes
  <2>8. l - 1 = 2 <=> l = 3
    BY <1>1
  <2>9. (l >= 3 /\ l # 3) <=> l - 1 >= 3
    BY <1>1
  <2>10. l = 3 => l >= 3
    BY <1>1
  <2> QED
    BY <2>1, <2>3, <2>4, <2>5, <2>6, <2>7, <2>8, <2>9, <2>10, <1>8
<1>12. ASSUME NEW u
       PROVE  /\ Purges(k, u)' => (Purges(k, u) \/ (s = "purge_tokens" /\ arg.user = u))
              /\ s = "purge_events" => (Purges(k, u) <=> arg.user = u)
              /\ s = "purge_events" => ~Purges(k, u)'
  <2>1. Purges(k, u)' <=> (op = "purge" /\ l - 1 \in {3, 4} /\ arg.user = u)
    BY <1>7, <1>10 DEF Purges
  <2>2. Purges(k, u) <=> (op = "purge" /\ l \in {3, 4} /\ arg.user = u)
    BY <1>9, <1>10 DEF Purges
  <2>3. l - 1 \in {3, 4} <=> (l = 4 \/ l = 5)
    BY <1>1
  <2> QED
    BY <2>1, <2>2, <2>3, <1>8
<1>13. ASSUME NEW u, NEW i
       PROVE  /\ Replaces(k, u, i)' =>
                    /\ s = "revoke_previous" /\ ~arg.multi
                    /\ arg.user = u /\ arg.kind = i
              /\ Replaces(k, u, i) <=>
                    /\ s = "token" /\ ~arg.multi
                    /\ arg.user = u /\ arg.kind = i
  <2>1. Replaces(k, u, i)' <=>
          (op = "user_create_token" /\ l - 1 = 3 /\ ~arg.multi /\ arg.user = u /\ arg.kind = i)
    BY <1>7, <1>10 DEF Replaces
  <2>2. Replaces(k, u, i) <=>
          (op = "user_create_token" /\ l = 3 /\ ~arg.multi /\ arg.user = u /\ arg.kind = i)
    BY <1>9, <1>10 DEF Replaces
  <2>3. l - 1 = 3 <=> l = 4
    BY <1>1
  <2> QED
    BY <2>1, <2>2, <2>3, <1>8
<1> QED
  BY <1>5, <1>7, <1>11, <1>12, <1>13 DEF s, op, arg

(* What only the owner of the transaction can be at.                         *)
LEMMA OwnersOnly ==
  ASSUME Control, NEW j \in Tasks, owner # j
  PROVE  /\ \A t : ~Logs(j, t)
         /\ \A u : ~Purges(j, u)
         /\ \A u, i : ~Replaces(j, u, i)
BY DEF Control, Logs, Consumes, Purges, Replaces, Runs, Within

LEMMA ClaimsKept ==
  ASSUME Claims, Born \subseteq Born', wins' = wins, dead' \subseteq dead \cup Born',
         \A j \in Tasks : \A t \in Tokens : Consumes(j, t)' => Consumes(j, t),
         \A j \in Tasks : task'[j] # None => task'[j].hit \subseteq Born'
  PROVE  Claims'
<1>1. \A t \in Tokens \ Born' : wins'[t] = 0 /\ t \notin dead'
  BY DEF Claims
<1>2. dead' \subseteq Tokens
  BY DEF Claims, Born, Tokens
<1> QED
  BY <1>1, <1>2 DEF Claims

(* A statement that no promise is about changes none.                        *)
Busy == {"use", "consumed", "token", "revoke_previous", "purge_tokens", "purge_events"}
LEMMA PlainMove ==
  ASSUME Control, Claims, NEW k \in Tasks, task[k] # None, task[k].todo # <<>>,
         task' = Moved(k, task[k].hit), made' = made, wins' = wins, dead' = dead,
         Head(task[k].todo) \notin Busy
  PROVE  /\ Claims' /\ Born \subseteq Born'
         /\ \A K \in SUBSET Tasks : NoMore(K)
<1> DEFINE s == Head(task[k].todo)
<1>1. task[k].hit \in SUBSET Tokens
  BY DEF Control, Pending
<1>2. /\ \A j \in Tasks : j # k => task'[j] = task[j]
      /\ task'[k] # None /\ task'[k].hit = task[k].hit
      /\ \A t : /\ Consumes(k, t)' => Consumes(k, t)
                /\ Revokes(k, t)' => Revokes(k, t)
                /\ ~Logs(k, t) /\ (Makes(k, t)' => Makes(k, t))
      /\ \A u : Purges(k, u)' => Purges(k, u)
      /\ \A u, i : ~Replaces(k, u, i)'
  <2>1. /\ s # "use" /\ s # "consumed" /\ s # "revoke_previous" /\ s # "purge_tokens"
    BY DEF Busy
  <2> HIDE DEF s
  <2>2. ASSUME NEW t
        PROVE  /\ Consumes(k, t)' => Consumes(k, t)
               /\ Revokes(k, t)' => Revokes(k, t)
               /\ ~Logs(k, t) /\ (Makes(k, t)' => Makes(k, t))
    BY <1>1, <2>1, MovedPromises DEF s, Consumes, Revokes, Runs
  <2>3. /\ \A j \in Tasks : j # k => task'[j] = task[j]
        /\ task'[k] # None /\ task'[k].hit = task[k].hit
        /\ \A u : Purges(k, u)' => Purges(k, u)
        /\ \A u, i : ~Replaces(k, u, i)'
    BY <1>1, <2>1, MovedPromises DEF s
  <2> QED
    BY <2>2, <2>3
<1>3. ASSUME NEW j \in Tasks
      PROVE  /\ \A t : /\ Consumes(j, t)' => Consumes(j, t)
                       /\ Revokes(j, t)' => Revokes(j, t)
                       /\ Logs(j, t) => Logs(j, t)'
                       /\ Makes(j, t)' => Makes(j, t)
             /\ \A u, i : /\ Purges(j, u)' => Purges(j, u)
                          /\ Replaces(j, u, i)' => Replaces(j, u, i)
  BY <1>2, Alone
<1>4. Born \subseteq Born'
  <2>1. made \in Nat /\ made' \in Nat /\ made <= made'
    BY IdentityAssumption DEF Control
  <2> QED
    BY <1>3, <2>1, BornKept DEF Tasks
<1>5. \A K \in SUBSET Tasks : NoMore(K)
  BY <1>3 DEF NoMore
<1>6. Claims'
  <2>1. \A j \in Tasks : task'[j] # None => task'[j].hit \subseteq Born'
    BY <1>2, <1>4 DEF Claims
  <2> QED
    BY <1>3, <1>4, <2>1, ClaimsKept
<1> QED
  BY <1>4, <1>5, <1>6

------------------------------------------------------------------------------
(* The steps, by what they do to tokens.                                     *)

LEMMA PlainStep ==
  ASSUME IInv, NEW k \in Tasks, task[k] # None, task[k].todo # <<>>,
         Head(task[k].todo) \notin Busy \cup {"begin", "commit"},
         task' = Rest(k), made' = made, wins' = wins, dead' = dead,
         view'.tokens = view.tokens, view'.consumed = view.consumed,
         saved' = saved, owner' = owner
  PROVE  IInv'
<1>1. Control /\ Claims
  BY DEF IInv
<1>2. task' = Moved(k, task[k].hit) /\ task[k].hit \in SUBSET Tokens
  BY <1>1, RestMoved DEF Control, Pending
<1>3. Control'
  BY <1>1, <1>2, MovedControl
<1>4. /\ Claims' /\ Born \subseteq Born' /\ \A K \in SUBSET Tasks : NoMore(K)
  BY <1>1, <1>2, PlainMove
<1>5. Good(view.tokens, view.consumed, Tasks)'
  <2>1. PICK T, C : T = view.tokens /\ C = view.consumed
    OBVIOUS
  <2>2. Good(T, C, Tasks)
    BY <2>1 DEF IInv
  <2>3. Good(T, C, Tasks)'
    BY <1>4, <2>2, GoodKept
  <2> QED
    BY <2>1, <2>3, ViewGood
<1>6. owner' # None => Good(saved.tokens, saved.consumed, Tasks \ {owner})'
  <2> SUFFICES ASSUME owner # None PROVE Good(saved.tokens, saved.consumed, Tasks \ {owner})'
    OBVIOUS
  <2>1. PICK T, C, o : T = saved.tokens /\ C = saved.consumed /\ o = owner
    OBVIOUS
  <2>2. Good(T, C, Tasks \ {o})
    BY <2>1 DEF IInv
  <2>3. Good(T, C, Tasks \ {o})'
    BY <1>4, <2>2, GoodKept
  <2> QED
    BY <2>1, <2>3, SavedGood
<1> QED
  BY <1>3, <1>4, <1>5, <1>6 DEF IInv

(* BEGIN: what is committed is what the connection sees, owed to the others.  *)
LEMMA BeginStep ==
  ASSUME IInv, NEW k \in Tasks, Begin(k)
  PROVE  IInv'
<1>1. Control /\ Claims
  BY DEF IInv
<1>2. /\ task[k] # None /\ task[k].todo # <<>> /\ Head(task[k].todo) = "begin"
      /\ owner = None /\ owner' = k /\ saved' = view /\ task' = Rest(k) /\ view' = view
      /\ made' = made /\ wins' = wins /\ dead' = dead
  BY DEF Begin, At, history
<1>3. task' = Moved(k, task[k].hit) /\ task[k].hit \in SUBSET Tokens
  BY <1>1, <1>2, RestMoved DEF Control, Pending
<1>4. Control'
  BY <1>1, <1>2, <1>3, MovedControl
<1>5. /\ Claims' /\ Born \subseteq Born' /\ \A K \in SUBSET Tasks : NoMore(K)
  BY <1>1, <1>2, <1>3, PlainMove DEF Busy
<1>6. PICK T, C : T = view.tokens /\ C = view.consumed
  OBVIOUS
<1>7. Good(T, C, Tasks)
  BY <1>6 DEF IInv
<1>8. Good(view.tokens, view.consumed, Tasks)'
  <2>1. Good(T, C, Tasks)'
    BY <1>2, <1>5, <1>7, GoodKept
  <2> QED
    BY <1>2, <1>6, <2>1, ViewGood
<1>9. Good(T, C, Tasks \ {k})
  <2>1. k # None
    BY IdentityAssumption DEF Tasks
  <2>2. \A j \in Tasks, t \in Tokens : ~Logs(j, t)
    <3>1. \A j \in Tasks : owner # j
      BY <1>2, IdentityAssumption DEF Tasks
    <3> QED
      BY <1>1, <3>1, OwnersOnly
  <2>3. LoggedBut(T, C, Tasks \ {k})
    BY <1>7, <2>2 DEF Good, LoggedBut
  <2>4. Owed(T, Tasks \ {k}) /\ Cleared(T, Tasks \ {k})
    BY <1>7 DEF Good, Owed, Cleared
  <2> QED
    BY <1>7, <2>3, <2>4 DEF Good
<1>10. Good(saved.tokens, saved.consumed, Tasks \ {owner})'
  <2>1. Good(T, C, Tasks \ {k})'
    BY <1>2, <1>5, <1>9, GoodKept
  <2> QED
    BY <1>2, <1>6, <2>1, SavedGood
<1> QED
  BY <1>4, <1>5, <1>8, <1>10 DEF IInv

LEMMA CommitStep ==
  ASSUME IInv, NEW k \in Tasks, Commit(k)
  PROVE  IInv'
<1>1. Control /\ Claims
  BY DEF IInv
<1>2. /\ task[k] # None /\ task[k].todo # <<>> /\ Head(task[k].todo) = "commit"
      /\ owner' = None /\ task' = Rest(k) /\ view' = view
      /\ made' = made /\ wins' = wins /\ dead' = dead
  BY DEF Commit, At
<1>3. task' = Moved(k, task[k].hit) /\ task[k].hit \in SUBSET Tokens
  BY <1>1, <1>2, RestMoved DEF Control, Pending
<1>4. Control'
  BY <1>1, <1>2, <1>3, MovedControl
<1>5. /\ Claims' /\ Born \subseteq Born' /\ \A K \in SUBSET Tasks : NoMore(K)
  BY <1>1, <1>2, <1>3, PlainMove DEF Busy
<1>6. PICK T, C : T = view.tokens /\ C = view.consumed
  OBVIOUS
<1>7. Good(T, C, Tasks)'
  <2>1. Good(T, C, Tasks)
    BY <1>6 DEF IInv
  <2> QED
    BY <1>2, <1>5, <2>1, GoodKept
<1>8. Good(view.tokens, view.consumed, Tasks)'
  BY <1>2, <1>6, <1>7, ViewGood
<1> QED
  BY <1>2, <1>4, <1>5, <1>8 DEF IInv

(* A task that is gone is owed nothing; what it inserted is not there, unless *)
(* it was committed.                                                         *)
LEMMA Dropped ==
  ASSUME Control, Claims, NEW k \in Tasks, task' = [task EXCEPT ![k] = None],
         made' = made, wins' = wins, dead' = dead
  PROVE  /\ Claims' /\ Born \subseteq Born'
         /\ \A j \in Tasks : j # k => task'[j] = task[j]
         /\ \A j \in Tasks : (\A t : ~Logs(j, t)) \/ j # k => NoMore({j})
         /\ \A t : ~Consumes(k, t)'  /\ ~Revokes(k, t)' /\ ~Logs(k, t)'
         /\ \A u : ~Purges(k, u)'
         /\ \A u, i : ~Replaces(k, u, i)'
<1>1. task'[k] = None /\ \A j \in Tasks : j # k => task'[j] = task[j]
  BY DEF Control
<1>2. /\ \A t : ~Consumes(k, t)' /\ ~Revokes(k, t)' /\ ~Logs(k, t)' /\ ~Makes(k, t)'
      /\ \A u : ~Purges(k, u)'
      /\ \A u, i : ~Replaces(k, u, i)'
  BY <1>1 DEF Consumes, Revokes, Logs, Makes, Purges, Replaces, Runs
<1>3. ASSUME NEW j \in Tasks
      PROVE  /\ \A t : /\ Consumes(j, t)' => Consumes(j, t)
                       /\ Revokes(j, t)' => Revokes(j, t)
                       /\ j # k => (Logs(j, t) => Logs(j, t)')
                       /\ Makes(j, t)' => Makes(j, t)
             /\ \A u, i : /\ Purges(j, u)' => Purges(j, u)
                          /\ Replaces(j, u, i)' => Replaces(j, u, i)
  BY <1>1, <1>2, Alone
<1>4. Born \subseteq Born'
  <2>1. made \in Nat /\ made' \in Nat /\ made <= made'
    BY IdentityAssumption DEF Control
  <2> QED
    BY <1>3, <2>1, BornKept DEF Tasks
<1>5. \A j \in Tasks : (\A t : ~Logs(j, t)) \/ j # k => NoMore({j})
  BY <1>3 DEF NoMore
<1>6. Claims'
  <2>1. \A j \in Tasks : task'[j] # None => task'[j].hit \subseteq Born'
    BY <1>1, <1>4 DEF Claims
  <2> QED
    BY <1>3, <1>4, <2>1, ClaimsKept
<1> QED
  BY <1>1, <1>2, <1>4, <1>5, <1>6

(* Tables owe nothing more to tasks that are owed nothing.                   *)
LEMMA Wider ==
  ASSUME NEW T, NEW C, NEW K, Good(T, C, K)', NEW L, K \subseteq L,
         \A j \in L \ K : /\ \A t : ~Consumes(j, t)' /\ ~Revokes(j, t)'
                          /\ \A u : ~Purges(j, u)'
                          /\ \A u, i : ~Replaces(j, u, i)'
  PROVE  Good(T, C, L)'
<1>1. Owed(T, L)'
  BY DEF Good, Owed
<1>2. LoggedBut(T, C, L)' /\ Cleared(T, L)'
  BY DEF Good, LoggedBut, Cleared
<1> QED
  BY <1>1, <1>2 DEF Good

(* A handler that fails, with ROLLBACK when the transaction is its own.       *)
LEMMA AbandonStep ==
  ASSUME IInv, NEW k \in Tasks, Abandon(k)
  PROVE  IInv'
<1>1. Control /\ Claims
  BY DEF IInv
<1>2. /\ task' = [task EXCEPT ![k] = None] /\ made' = made /\ wins' = wins /\ dead' = dead
      /\ owner = k => view' = saved /\ owner' = None
      /\ owner # k => view' = view /\ saved' = saved /\ owner' = owner
  BY DEF Abandon, Discard, db
<1>3. Control'
  BY <1>1, <1>2, DropControl
<1>4. /\ Claims' /\ Born \subseteq Born'
      /\ \A j \in Tasks : (\A t : ~Logs(j, t)) \/ j # k => NoMore({j})
      /\ \A t : ~Consumes(k, t)'  /\ ~Revokes(k, t)' /\ ~Logs(k, t)'
      /\ \A u : ~Purges(k, u)'
      /\ \A u, i : ~Replaces(k, u, i)'
  BY <1>1, <1>2, Dropped
<1>5. ASSUME NEW K \in SUBSET Tasks, k \notin K \/ owner # k
      PROVE  NoMore(K)
  <2>1. \A j \in K : (\A t : ~Logs(j, t)) \/ j # k
    BY <1>1, <1>5, OwnersOnly
  <2>2. \A j \in K : NoMore({j})
    BY <1>4, <2>1
  <2> QED
    BY <2>2 DEF NoMore
<1>6. k # None
  BY IdentityAssumption DEF Tasks
<1>7. CASE owner = k
  <2>1. PICK T, C : T = saved.tokens /\ C = saved.consumed
    OBVIOUS
  <2>2. Good(T, C, Tasks \ {k})
    BY <1>6, <1>7, <2>1 DEF IInv
  <2>3. Good(T, C, Tasks \ {k})'
    BY <1>2, <1>4, <1>5, <2>2, GoodKept
  <2>4. Good(T, C, Tasks)'
    BY <1>4, <2>3, Wider
  <2>5. Good(view.tokens, view.consumed, Tasks)'
    BY <1>2, <1>7, <2>1, <2>4, ViewGood
  <2> QED
    BY <1>2, <1>3, <1>4, <1>7, <2>5 DEF IInv
<1>8. CASE owner # k
  <2>1. Good(view.tokens, view.consumed, Tasks)'
    <3>1. PICK T, C : T = view.tokens /\ C = view.consumed
      OBVIOUS
    <3>2. Good(T, C, Tasks)
      BY <3>1 DEF IInv
    <3>3. Good(T, C, Tasks)'
      BY <1>2, <1>4, <1>5, <1>8, <3>2, GoodKept
    <3> QED
      BY <1>2, <1>8, <3>1, <3>3, ViewGood
  <2>2. ASSUME owner # None
        PROVE  Good(saved.tokens, saved.consumed, Tasks \ {owner})'
    <3>1. PICK T, C, o : T = saved.tokens /\ C = saved.consumed /\ o = owner
      OBVIOUS
    <3>2. Good(T, C, Tasks \ {o})
      BY <2>2, <3>1 DEF IInv
    <3>3. Good(T, C, Tasks \ {o})'
      BY <1>2, <1>4, <1>5, <1>8, <3>2, GoodKept
    <3> QED
      BY <1>2, <1>8, <3>1, <3>3, SavedGood
  <2> QED
    BY <1>2, <1>3, <1>4, <1>8, <2>1, <2>2 DEF IInv
<1> QED
  BY <1>7, <1>8

(* The process stops: of all tasks nothing is left.                          *)
LEMMA CrashStep ==
  ASSUME IInv, Crash
  PROVE  IInv'
<1>1. Control /\ Claims
  BY DEF IInv
<1>2. /\ task' = [k \in Tasks |-> None] /\ made' = made /\ wins' = wins /\ dead' = dead
      /\ owner' = None
      /\ view' = IF owner = None THEN view ELSE saved
  BY DEF Crash, Discard, db
<1>3. None \notin Tasks
  BY IdentityAssumption DEF Tasks
<1>4. Control'
  <2>1. \A k \in Tasks : task'[k] = None
    BY <1>2
  <2> QED
    BY <1>1, <1>2, <1>3, <2>1 DEF Control, Tasks
<1>5. ASSUME NEW j \in Tasks
      PROVE  /\ \A t : ~Consumes(j, t)' /\ ~Revokes(j, t)' /\ ~Logs(j, t)' /\ ~Makes(j, t)'
             /\ \A u : ~Purges(j, u)'
             /\ \A u, i : ~Replaces(j, u, i)'
  <2>1. task'[j] = None
    BY <1>2
  <2> QED
    BY <2>1 DEF Consumes, Revokes, Logs, Makes, Purges, Replaces, Runs
<1>6. Born \subseteq Born'
  <2>1. made \in Nat /\ made' \in Nat /\ made <= made'
    BY <1>1, <1>2, IdentityAssumption DEF Control
  <2> QED
    BY <1>5, <2>1, BornKept DEF Tasks
<1>7. Claims'
  <2>1. \A j \in Tasks : task'[j] # None => task'[j].hit \subseteq Born'
    BY <1>2
  <2> QED
    BY <1>1, <1>2, <1>5, <1>6, <2>1, ClaimsKept
<1>8. NoMore(Tasks \ {owner})
  <2>1. \A j \in Tasks \ {owner} : \A t : ~Logs(j, t)
    BY <1>1, OwnersOnly
  <2> QED
    BY <1>5, <2>1 DEF NoMore
<1>9. PICK T, C, o : /\ T = view'.tokens /\ C = view'.consumed /\ o = owner
  OBVIOUS
<1>10. Good(T, C, Tasks \ {o})
  <2>1. CASE owner = None
    <3>1. Tasks \ {o} = Tasks
      BY <1>3, <1>9, <2>1
    <3> QED
      BY <1>2, <1>9, <2>1, <3>1 DEF IInv
  <2>2. CASE owner # None
    BY <1>2, <1>9, <2>2 DEF IInv
  <2> QED
    BY <2>1, <2>2
<1>11. Good(T, C, Tasks \ {o})'
  BY <1>2, <1>6, <1>8, <1>9, <1>10, GoodKept
<1>12. Good(T, C, Tasks)'
  BY <1>5, <1>11, Wider
<1>13. Good(view.tokens, view.consumed, Tasks)'
  BY <1>9, <1>12, ViewGood
<1> QED
  BY <1>2, <1>4, <1>7, <1>13 DEF IInv

(* An answer: what the task hit is now the client's knowledge.                *)
LEMMA AnswerStep ==
  ASSUME IInv, NEW k \in Tasks, Answer(k)
  PROVE  IInv'
<1>1. Control /\ Claims
  BY DEF IInv
<1>2. /\ task[k] # None /\ task[k].todo = <<>>
      /\ task' = [task EXCEPT ![k] = None] /\ made' = made
      /\ wins' = IF task[k].op = "user_consume_token"
                 THEN [t \in Tokens |-> wins[t] + (IF t \in task[k].hit THEN 1 ELSE 0)] ELSE wins
      /\ dead' = IF task[k].op # "user_consume_token" THEN dead \cup task[k].hit ELSE dead
      /\ view' = view /\ saved' = saved /\ owner' = owner
  BY DEF Answer, db
<1>3. owner # k
  BY <1>1, <1>2, AnsweredOutside
<1>4. Control'
  BY <1>1, <1>2, <1>3, DropControl
<1>5. task'[k] = None /\ \A j \in Tasks : j # k => task'[j] = task[j]
  BY <1>1, <1>2 DEF Control
<1>6. /\ \A t : ~Consumes(k, t)' /\ ~Revokes(k, t)' /\ ~Logs(k, t)' /\ ~Makes(k, t)'
      /\ \A u : ~Purges(k, u)'
      /\ \A u, i : ~Replaces(k, u, i)'
  BY <1>5 DEF Consumes, Revokes, Logs, Makes, Purges, Replaces, Runs
<1>7. ASSUME NEW j \in Tasks
      PROVE  /\ \A t : /\ Consumes(j, t)' => Consumes(j, t)
                       /\ Revokes(j, t)' => Revokes(j, t)
                       /\ Logs(j, t) => Logs(j, t)'
                       /\ Makes(j, t)' => Makes(j, t)
             /\ \A u, i : /\ Purges(j, u)' => Purges(j, u)
                          /\ Replaces(j, u, i)' => Replaces(j, u, i)
  BY <1>1, <1>3, <1>5, <1>6, Alone, OwnersOnly
<1>8. Born \subseteq Born'
  <2>1. made \in Nat /\ made' \in Nat /\ made <= made'
    BY <1>1, <1>2, IdentityAssumption DEF Control
  <2> QED
    BY <1>7, <2>1, BornKept DEF Tasks
<1>9. \A K \in SUBSET Tasks : NoMore(K)
  BY <1>7 DEF NoMore
<1>10. \A t \in Tokens : /\ Consumes(k, t) => wins[t] = 0 /\ wins'[t] = 1
                         /\ ~Consumes(k, t) => wins'[t] = wins[t]
  BY <1>1, <1>2 DEF Claims, Consumes, Runs
<1>11. \A t \in dead' : t \in dead \/ Revokes(k, t)
  BY <1>2 DEF Revokes
<1>12. Claims'
  <2>1. wins' \in [Tokens -> {0, 1}]
    <3>1. \A t \in Tokens : wins'[t] \in {0, 1}
      BY <1>1, <1>10 DEF Claims
    <3>2. wins' = [t \in Tokens |-> wins'[t]]
      BY <1>1, <1>2 DEF Claims
    <3> QED
      BY <3>1, <3>2
  <2>2. \A i, j \in Tasks, t \in Tokens : (Consumes(i, t)' /\ Consumes(j, t)') => i = j
    BY <1>1, <1>7 DEF Claims
  <2>3. \A j \in Tasks, t \in Tokens : Consumes(j, t)' => wins'[t] = 0
    <3> SUFFICES ASSUME NEW j \in Tasks, NEW t \in Tokens, Consumes(j, t)'
                 PROVE  wins'[t] = 0
      OBVIOUS
    <3>1. j # k /\ Consumes(j, t)
      BY <1>6, <1>7
    <3>2. ~Consumes(k, t) /\ wins[t] = 0
      BY <1>1, <3>1 DEF Claims
    <3> QED
      BY <1>10, <3>2
  <2>4. \A t \in Tokens : (Consumes(k, t) \/ Revokes(k, t)) => t \in Born
    BY <1>1 DEF Claims, Consumes, Revokes, Runs
  <2>5. \A t \in Tokens \ Born' : wins'[t] = 0 /\ t \notin dead'
    BY <1>1, <1>8, <1>10, <1>11, <2>4 DEF Claims
  <2>6. \A j \in Tasks : task'[j] # None => task'[j].hit \subseteq Born'
    BY <1>1, <1>5, <1>8 DEF Claims
  <2>7. dead' \subseteq Tokens
    BY <1>1, <1>2, <1>11, <2>4 DEF Claims, Born
  <2> QED
    BY <2>1, <2>2, <2>3, <2>5, <2>6, <2>7 DEF Claims
<1>13. ASSUME NEW K \in SUBSET Tasks, k \in K, NEW T, NEW C, Good(T, C, K)
       PROVE  Good(T, C, K)'
  <2>1. \A t \in Tokens : wins'[t] > 0 => (wins[t] > 0 \/ \E j \in K : Consumes(j, t))
    BY <1>10, <1>13
  <2>2. \A t \in dead' : t \in dead \/ \E j \in K : Revokes(j, t)
    BY <1>11, <1>13
  <2> QED
    BY <1>8, <1>9, <1>13, <2>1, <2>2, GoodKept
<1>14. Good(view.tokens, view.consumed, Tasks)'
  <2>1. PICK T, C : T = view.tokens /\ C = view.consumed
    OBVIOUS
  <2>2. Good(T, C, Tasks)
    BY <2>1 DEF IInv
  <2>3. Good(T, C, Tasks)'
    BY <1>13, <2>2
  <2> QED
    BY <1>2, <2>1, <2>3, ViewGood
<1>15. owner' # None => Good(saved.tokens, saved.consumed, Tasks \ {owner})'
  <2> SUFFICES ASSUME owner # None PROVE Good(saved.tokens, saved.consumed, Tasks \ {owner})'
    BY <1>2
  <2>1. PICK T, C, o : T = saved.tokens /\ C = saved.consumed /\ o = owner
    OBVIOUS
  <2>2. Good(T, C, Tasks \ {o})
    BY <2>1 DEF IInv
  <2>3. Good(T, C, Tasks \ {o})'
    BY <1>3, <1>13, <2>1, <2>2
  <2> QED
    BY <1>2, <2>1, <2>3, SavedGood
<1> QED
  BY <1>4, <1>12, <1>14, <1>15 DEF IInv

(* A request that starts, or the reaper: nothing is hit yet.                 *)
LEMMA StartStep ==
  ASSUME IInv, NEW k \in Tasks, task[k] = None,
         NEW op \in Operations \cup {"reaper"}, k = "reaper" <=> op = "reaper",
         NEW a \in Arguments, op = "user_create_token" => a \in Creation,
         op = "user_consume_token" => a \in [token : Tokens],
         NEW m \in Tokens, made' \in 0..MaxRequests,
         IF op = "reaper" THEN made' = made ELSE made' = made + 1 /\ m = made',
         task' = [task EXCEPT ![k] = [todo |-> ScriptOf(op), arg |-> a, n |-> m, hit |-> {},
                                      op |-> op]],
         wins' = wins, dead' = dead, UNCHANGED <<view, saved, owner>>
  PROVE  IInv'
<1> DEFINE r == [todo |-> ScriptOf(op), arg |-> a, n |-> m, hit |-> {}, op |-> op]
<1>1. Control /\ Claims
  BY DEF IInv
<1>2. Control'
  BY <1>1, StartControl
<1>3. op \in Requests \cup {"reaper"}
  BY IdentityAssumption DEF Requests
<1>4. task'[k] = r /\ \A j \in Tasks : j # k => task'[j] = task[j]
  BY <1>1 DEF Control
<1>5. /\ r.todo = ScriptOf(op) /\ r.arg = a /\ r.n = m /\ r.hit = {} /\ r.op = op
  OBVIOUS
<1> HIDE DEF r
<1>6. Left(k)' = Len(ScriptOf(op))
  BY <1>4, <1>5 DEF Left
<1>7. /\ op = "user_create_token" => Len(ScriptOf(op)) = 5
      /\ op = "user_consume_token" => Len(ScriptOf(op)) = 4
      /\ op = "purge" => Len(ScriptOf(op)) = 6
  BY <1>3, FreshFollows
<1>8. /\ \A t : /\ ~Consumes(k, t)' /\ ~Revokes(k, t)'
                /\ ~Consumes(k, t) /\ ~Revokes(k, t) /\ ~Logs(k, t)
                /\ Makes(k, t)' => (op = "user_create_token" /\ t = m)
      /\ \A u : ~Purges(k, u)'
      /\ \A u, i : ~Replaces(k, u, i)'
  <2>1. \A t : /\ ~Consumes(k, t)' /\ ~Revokes(k, t)'
               /\ Makes(k, t)' => (op = "user_create_token" /\ t = m)
    BY <1>4, <1>5 DEF Consumes, Revokes, Makes, Runs
  <2>2. \A t : ~Consumes(k, t) /\ ~Revokes(k, t) /\ ~Logs(k, t)
    BY DEF Consumes, Revokes, Logs, Runs
  <2>5. \A o : Runs(k, o)' => op = o
    BY <1>4, <1>5 DEF Runs
  <2>6. /\ Runs(k, "purge")' => Left(k)' = 6
        /\ Runs(k, "user_create_token")' => Left(k)' = 5
    BY <2>5, <1>6, <1>7
  <2>3. \A u : ~Purges(k, u)'
    BY <2>6 DEF Purges
  <2>4. \A u, i : ~Replaces(k, u, i)'
    BY <2>6 DEF Replaces
  <2> QED
    BY <2>1, <2>2, <2>3, <2>4
<1>9. ASSUME NEW j \in Tasks
      PROVE  /\ \A t : /\ Consumes(j, t)' => Consumes(j, t)
                       /\ Revokes(j, t)' => Revokes(j, t)
                       /\ Logs(j, t) => Logs(j, t)'
             /\ \A u, i : /\ Purges(j, u)' => Purges(j, u)
                          /\ Replaces(j, u, i)' => Replaces(j, u, i)
  BY <1>4, <1>8, Alone
<1>10. \A K \in SUBSET Tasks : NoMore(K)
  BY <1>9 DEF NoMore
<1>11. Born \subseteq Born'
  <2>1. made \in Nat /\ made' \in Nat /\ made <= made'
    BY <1>1, IdentityAssumption DEF Control
  <2>2. \A j \in Slots, t \in Tokens : (Makes(j, t)' /\ t <= made) => Makes(j, t)
    <3> SUFFICES ASSUME NEW j \in Slots, NEW t \in Tokens, Makes(j, t)', t <= made
                 PROVE  Makes(j, t)
      OBVIOUS
    <3>1. j \in Tasks /\ j # "reaper"
      BY IdentityAssumption DEF Tasks
    <3>2. CASE j = k
      <4>1. op # "reaper" /\ t = m
        BY <1>8, <3>1, <3>2
      <4>2. m = made + 1
        BY <4>1
      <4> QED
        BY <2>1, <4>1, <4>2
    <3>3. CASE j # k
      BY <1>4, <3>1, <3>3, Alone
    <3> QED
      BY <3>2, <3>3
  <2> QED
    BY <2>1, <2>2, BornKept
<1>12. Claims'
  <2>1. \A j \in Tasks : task'[j] # None => task'[j].hit \subseteq Born'
    BY <1>1, <1>4, <1>5, <1>11 DEF Claims
  <2> QED
    BY <1>1, <1>9, <1>11, <2>1, ClaimsKept
<1>13. Good(view.tokens, view.consumed, Tasks)'
  <2>1. PICK T, C : T = view.tokens /\ C = view.consumed
    OBVIOUS
  <2>2. Good(T, C, Tasks)
    BY <2>1 DEF IInv
  <2>3. Good(T, C, Tasks)'
    BY <1>10, <1>11, <2>2, GoodKept
  <2> QED
    BY <2>1, <2>3, ViewGood
<1>14. owner' # None => Good(saved.tokens, saved.consumed, Tasks \ {owner})'
  <2> SUFFICES ASSUME owner # None PROVE Good(saved.tokens, saved.consumed, Tasks \ {owner})'
    OBVIOUS
  <2>1. PICK T, C, o : T = saved.tokens /\ C = saved.consumed /\ o = owner
    OBVIOUS
  <2>2. Good(T, C, Tasks \ {o})
    BY <2>1 DEF IInv
  <2>3. Good(T, C, Tasks \ {o})'
    BY <1>10, <1>11, <2>2, GoodKept
  <2> QED
    BY <2>1, <2>3, SavedGood
<1> QED
  BY <1>2, <1>12, <1>13, <1>14 DEF IInv

LEMMA RequestStep ==
  ASSUME IInv, NEW k \in Slots, Request(k)
  PROVE  IInv'
<1>1. PICK op \in Operations : \E p \in Payloads(op) :
         task' = [task EXCEPT ![k] = [todo |-> Script[op], arg |-> p, n |-> made + 1, hit |-> {},
                                      op |-> op]]
  BY DEF Request
<1>10. PICK p \in Payloads(op) :
         task' = [task EXCEPT ![k] = [todo |-> Script[op], arg |-> p, n |-> made + 1, hit |-> {},
                                      op |-> op]]
  BY <1>1
<1>2. /\ task[k] = None /\ made < MaxRequests /\ made' = made + 1
      /\ wins' = wins /\ dead' = dead /\ UNCHANGED <<view, saved, owner>>
  BY DEF Request, db, history
<1>3. k \in Tasks /\ k # "reaper"
  BY IdentityAssumption DEF Tasks
<1>4. op \in Requests /\ op # "reaper" /\ ScriptOf(op) = Script[op]
  BY IdentityAssumption DEF Requests, ScriptOf
<1>5. made \in Nat /\ made + 1 \in Tokens /\ made' \in 0..MaxRequests /\ 0..made \subseteq Tokens
  BY <1>2, IdentityAssumption DEF IInv, Control, Tokens
<1>6. Future \subseteq (1..MaxNow) \cup {None}
  BY DEF Future
<1>7. op = "user_create_token" => p \in Creation
  BY <1>6 DEF Payloads, Creation
<1>8. op = "user_consume_token" => p \in [token : Tokens]
  BY <1>5 DEF Payloads
<1>9. p \in Arguments
  <2>1. CASE op = "user_create"
    BY <2>1 DEF Payloads, Arguments
  <2>2. CASE op = "user_update_status"
    <3>1. p \in [user : Users, status : Statuses, next : Statuses \cup {None}, until : Future]
      BY <2>2 DEF Payloads
    <3>2. p \in [user : Users, status : Statuses, next : Statuses \cup {None},
                 until : (1..MaxNow) \cup {None}]
      BY <1>6, <3>1
    <3> QED
      BY <3>2 DEF Arguments
  <2>3. CASE op \in {"user_link_provider", "user_unlink_provider"}
    BY <2>3 DEF Payloads, Arguments
  <2>4. CASE op = "user_create_token"
    BY <1>7, <2>4 DEF Creation, Arguments
  <2>5. CASE op = "user_consume_token"
    BY <1>8, <2>5 DEF Arguments
  <2>6. CASE op = "user_revoke_token"
    <3>1. p \in [of : Tokens \cup Users]
      BY <1>5, <2>6 DEF Payloads
    <3> QED
      BY <3>1 DEF Arguments
  <2>7. CASE op \in {"user_update", "user_update_password", "soft_delete", "purge"}
    <3>1. p \in [user : Users]
      BY <2>7 DEF Payloads
    <3> QED
      BY <3>1 DEF Arguments
  <2> QED
    BY <1>4, <2>1, <2>2, <2>3, <2>4, <2>5, <2>6, <2>7 DEF Requests
<1> QED
  BY <1>10, <1>2, <1>3, <1>4, <1>5, <1>7, <1>8, <1>9, StartStep

LEMMA ReapStep ==
  ASSUME IInv, Reap
  PROVE  IInv'
<1>1. /\ task["reaper"] = None /\ made' = made
      /\ task' = [task EXCEPT !["reaper"] =
                    [todo |-> ScriptOf("reaper"), arg |-> None, n |-> 0, hit |-> {},
                     op |-> "reaper"]]
      /\ wins' = wins /\ dead' = dead /\ UNCHANGED <<view, saved, owner>>
  BY DEF Reap, db, history, ScriptOf
<1>2. "reaper" \in Tasks /\ None \in Arguments /\ 0 \in Tokens
  BY IdentityAssumption DEF Tasks, Arguments, Tokens
<1>3. made' \in 0..MaxRequests
  BY <1>1 DEF IInv, Control
<1> QED
  BY <1>1, <1>2, <1>3, StartStep

LEMMA IdleStep ==
  ASSUME IInv, UNCHANGED <<view, saved, owner, task, made, wins, dead>>
  PROVE  IInv'
BY DEF IInv, Control, Claims, Good, Owed, Unborn, LoggedBut, Cleared, Ordered, Gone, Dead, Born,
       Makes, Consumes, Revokes, Logs, Purges, Replaces, Runs, Left

------------------------------------------------------------------------------
(* The owner's statements about tokens.                                      *)

OwnersMove(k, h) ==
  /\ owner = k /\ task[k] # None /\ task[k].todo # <<>>
  /\ Head(task[k].todo) \notin {"begin", "commit"}
  /\ task' = Moved(k, h) /\ made' = made /\ wins' = wins /\ dead' = dead
  /\ saved' = saved /\ owner' = owner

LEMMA OwnerAt ==
  ASSUME Control, NEW k \in Tasks, NEW s, At(k, s),
         s \in {"use", "consumed", "token", "revoke_previous", "revoke_all", "revoke",
                "purge_tokens", "purge_events", "expired"}
  PROVE  /\ owner = k /\ task[k] # None /\ task[k].todo # <<>> /\ Head(task[k].todo) = s
         /\ s \notin {"begin", "commit"}
         /\ task[k].op = "user_consume_token" <=> s \in {"use", "consumed"}
<1> DEFINE op == task[k].op
           l == Left(k)
<1>1. /\ task[k] # None /\ task[k].todo # <<>> /\ Head(task[k].todo) = s
  BY DEF At
<1>2. Places(op, l, s)
  BY <1>1, TaskAt
<1>3. owner = k <=> Within(op, l)
  BY <1>1 DEF Control
<1> HIDE DEF op, l
<1>4. Within(op, l)
  BY <1>2 DEF Places, Within
<1>5. op = "user_consume_token" <=> s \in {"use", "consumed"}
  BY <1>2 DEF Places
<1> QED
  BY <1>1, <1>3, <1>4, <1>5 DEF op

LEMMA OwnerMoved ==
  ASSUME IInv, NEW k \in Tasks, NEW h \in SUBSET Tokens, OwnersMove(k, h)
  PROVE  /\ Control' /\ Born \subseteq Born'
         /\ owner' # None => Good(saved.tokens, saved.consumed, Tasks \ {owner})'
         /\ task'[k] # None /\ task'[k].hit = h
         /\ \A j \in Tasks : j # k =>
              /\ task'[j] = task[j]
              /\ \A t : /\ Consumes(j, t)' <=> Consumes(j, t)
                        /\ Revokes(j, t)' <=> Revokes(j, t)
                        /\ ~Logs(j, t)
              /\ \A u : ~Purges(j, u)'
              /\ \A u, i : ~Replaces(j, u, i)'
<1>1. Control /\ Claims
  BY DEF IInv
<1>2. Control'
  BY <1>1, MovedControl DEF OwnersMove
<1>3. /\ \A j \in Tasks : j # k => task'[j] = task[j]
      /\ task'[k] # None /\ task'[k].hit = h
      /\ \A t : Makes(k, t)' => Makes(k, t)
  BY <1>1, MovedPromises DEF OwnersMove
<1>4. ASSUME NEW j \in Tasks, j # k
      PROVE  /\ task'[j] = task[j]
             /\ \A t : /\ Consumes(j, t)' <=> Consumes(j, t)
                       /\ Revokes(j, t)' <=> Revokes(j, t)
                       /\ Logs(j, t)' <=> Logs(j, t)
                       /\ Makes(j, t)' <=> Makes(j, t)
                       /\ ~Logs(j, t)
             /\ \A u : ~Purges(j, u)' /\ (Purges(j, u)' <=> Purges(j, u))
             /\ \A u, i : ~Replaces(j, u, i)' /\ (Replaces(j, u, i)' <=> Replaces(j, u, i))
  <2>1. owner # j
    BY <1>4 DEF OwnersMove
  <2> QED
    BY <1>1, <1>3, <1>4, <2>1, Alone, OwnersOnly
<1>5. Born \subseteq Born'
  <2>1. made \in Nat /\ made' \in Nat /\ made <= made'
    BY <1>1, IdentityAssumption DEF Control, OwnersMove
  <2>2. \A j \in Slots, t \in Tokens : (Makes(j, t)' /\ t <= made) => Makes(j, t)
    BY <1>3, <1>4 DEF Tasks
  <2> QED
    BY <2>1, <2>2, BornKept
<1>6. NoMore(Tasks \ {k})
  BY <1>4 DEF NoMore
<1>7. ASSUME owner' # None
      PROVE  Good(saved.tokens, saved.consumed, Tasks \ {owner})'
  <2>1. PICK T, C, o : T = saved.tokens /\ C = saved.consumed /\ o = owner
    OBVIOUS
  <2>2. owner # None /\ o = k
    BY <1>7, <2>1 DEF OwnersMove
  <2>3. Good(T, C, Tasks \ {o})
    BY <2>1, <2>2 DEF IInv
  <2>4. Good(T, C, Tasks \ {o})'
    BY <1>5, <1>6, <2>2, <2>3, GoodKept DEF OwnersMove
  <2> QED
    BY <2>1, <2>4, SavedGood DEF OwnersMove
<1> QED
  BY <1>2, <1>3, <1>4, <1>5, <1>7

(* Tokens only go, and are only used or revoked.                             *)
Narrower(N, T) ==
  /\ N \in [Tokens -> Row \cup {None}]
  /\ \A t \in Tokens : N[t] # None =>
       /\ T[t] # None
       /\ N[t].user = T[t].user /\ N[t].kind = T[t].kind /\ N[t].multi = T[t].multi
       /\ N[t].created = T[t].created
       /\ T[t].used => N[t].used
       /\ T[t].revoked => N[t].revoked

LEMMA NarrowStep ==
  ASSUME IInv, NEW k \in Tasks, NEW h \in SUBSET Tokens, OwnersMove(k, h), Claims',
         NEW N, NEW D, view'.tokens = N, view'.consumed = D, Narrower(N, view.tokens),
         \A t \in Tokens : Consumes(k, t)' => (Consumes(k, t) \/ Gone(N, t)),
         \A t \in Tokens : Revokes(k, t)' => (Revokes(k, t) \/ Dead(N, t)),
         \A t \in Tokens : N[t] # None =>
            /\ (N[t].used <=> <<t, N[t].user>> \in D) \/ Logs(k, t)'
            /\ ~Purges(k, N[t].user)'
            /\ Replaces(k, N[t].user, N[t].kind)' => ~Open(N[t]),
         \A t \in Tokens \ Born, u \in Users : <<t, u>> \notin D
  PROVE  IInv'
<1>1. /\ Control' /\ Born \subseteq Born'
      /\ owner' # None => Good(saved.tokens, saved.consumed, Tasks \ {owner})'
  BY OwnerMoved
<1>2. \A j \in Tasks : j # k =>
              /\ \A t : /\ Consumes(j, t)' <=> Consumes(j, t)
                        /\ Revokes(j, t)' <=> Revokes(j, t)
              /\ \A u : ~Purges(j, u)'
              /\ \A u, i : ~Replaces(j, u, i)'
  BY OwnerMoved
<1>3. PICK T, C : T = view.tokens /\ C = view.consumed
  OBVIOUS
<1>4. Good(T, C, Tasks) /\ Narrower(N, T)
  BY <1>3 DEF IInv
<1>5. wins' = wins /\ dead' = dead
  BY DEF OwnersMove
<1>6. Owed(N, Tasks)'
  <2> SUFFICES ASSUME NEW t \in Tokens
               PROVE  /\ (wins'[t] > 0 \/ \E j \in Tasks : Consumes(j, t)') => Gone(N, t)
                      /\ (t \in dead' \/ \E j \in Tasks : Revokes(j, t)') => Dead(N, t)
    BY DEF Owed, Gone, Dead
  <2>1. Gone(T, t) => Gone(N, t)
    BY <1>4 DEF Narrower, Gone
  <2>2. Dead(T, t) => Dead(N, t)
    BY <1>4 DEF Narrower, Dead
  <2>3. /\ (wins[t] > 0 \/ \E j \in Tasks : Consumes(j, t)) => Gone(T, t)
        /\ (t \in dead \/ \E j \in Tasks : Revokes(j, t)) => Dead(T, t)
    BY <1>4 DEF Good, Owed
  <2> QED
    BY <1>2, <1>5, <2>1, <2>2, <2>3
<1>7. Unborn(N, D)'
  BY <1>1, <1>4 DEF Good, Unborn, Narrower
<1>8. LoggedBut(N, D, Tasks)'
  BY DEF LoggedBut
<1>9. Cleared(N, Tasks)'
  BY <1>2 DEF Cleared
<1>10. Ordered(N)'
  BY <1>4 DEF Good, Ordered, Narrower, Open
<1>11. Good(N, D, Tasks)'
  BY <1>4, <1>6, <1>7, <1>8, <1>9, <1>10 DEF Good, Narrower
<1>12. Good(view.tokens, view.consumed, Tasks)'
  BY <1>11, ViewGood
<1> QED
  BY <1>1, <1>12 DEF IInv

LEMMA OwnersClaims ==
  ASSUME IInv, NEW k \in Tasks, NEW h \in SUBSET Born, OwnersMove(k, h),
         task[k].op = "user_consume_token" => h = task[k].hit
  PROVE  Claims'
<1>1. h \in SUBSET Tokens
  BY DEF Born
<1>2. /\ Born \subseteq Born' /\ task'[k].hit = h
      /\ \A j \in Tasks : j # k =>
              /\ task'[j] = task[j]
              /\ \A t : Consumes(j, t)' <=> Consumes(j, t)
  BY <1>1, OwnerMoved
<1>3. \A t : Consumes(k, t)' => Consumes(k, t)
  BY <1>1, MovedPromises DEF OwnersMove, IInv, Consumes, Runs
<1>4. \A j \in Tasks : task'[j] # None => task'[j].hit \subseteq Born'
  BY <1>2 DEF IInv, Claims
<1> QED
  BY <1>2, <1>3, <1>4, ClaimsKept DEF IInv, OwnersMove

------------------------------------------------------------------------------
(* The tables a statement leaves.                                            *)

Shaped(v) ==
  v = [users |-> v.users, tokens |-> v.tokens, links |-> v.links, consumed |-> v.consumed]
Shapes == Shaped(view) /\ (owner # None => Shaped(saved))

WithUsers(v, x) == [v EXCEPT !.users = x]
WithTokens(v, x) == [v EXCEPT !.tokens = x]
WithLinks(v, x) == [v EXCEPT !.links = x]
WithConsumed(v, x) == [v EXCEPT !.consumed = x]

LEMMA TableSet ==
  ASSUME NEW v, Shaped(v), NEW x
  PROVE  /\ /\ Shaped(WithUsers(v, x)) /\ WithUsers(v, x).tokens = v.tokens
            /\ WithUsers(v, x).consumed = v.consumed
         /\ /\ Shaped(WithLinks(v, x)) /\ WithLinks(v, x).tokens = v.tokens
            /\ WithLinks(v, x).consumed = v.consumed
         /\ /\ Shaped(WithTokens(v, x)) /\ WithTokens(v, x).tokens = x
            /\ WithTokens(v, x).consumed = v.consumed
         /\ /\ Shaped(WithConsumed(v, x)) /\ WithConsumed(v, x).tokens = v.tokens
            /\ WithConsumed(v, x).consumed = x
<1>1. PICK us, T, ls, C : v = [users |-> us, tokens |-> T, links |-> ls, consumed |-> C]
  BY DEF Shaped
<1>2. WithUsers(v, x) = [users |-> x, tokens |-> T, links |-> ls, consumed |-> C]
  BY <1>1 DEF WithUsers
<1>3. WithLinks(v, x) = [users |-> us, tokens |-> T, links |-> x, consumed |-> C]
  BY <1>1 DEF WithLinks
<1>4. WithTokens(v, x) = [users |-> us, tokens |-> x, links |-> ls, consumed |-> C]
  BY <1>1 DEF WithTokens
<1>5. WithConsumed(v, x) = [users |-> us, tokens |-> T, links |-> ls, consumed |-> x]
  BY <1>1 DEF WithConsumed
<1>6. v.tokens = T /\ v.consumed = C
  BY <1>1
<1> QED
  BY <1>2, <1>3, <1>4, <1>5, <1>6 DEF Shaped

(* A row that is revoked or used is otherwise what it was.                   *)
Revoked(r) == [r EXCEPT !.revoked = TRUE]
Used(r) == [r EXCEPT !.used = TRUE]

LEMMA RowSet ==
  ASSUME NEW r \in Row
  PROVE  /\ Revoked(r) \in Row /\ Revoked(r).user = r.user /\ Revoked(r).kind = r.kind
         /\ Revoked(r).multi = r.multi /\ Revoked(r).created = r.created
         /\ Revoked(r).used = r.used /\ Revoked(r).revoked
         /\ Used(r) \in Row /\ Used(r).user = r.user /\ Used(r).kind = r.kind
         /\ Used(r).multi = r.multi /\ Used(r).created = r.created
         /\ Used(r).revoked = r.revoked /\ Used(r).used
BY DEF Row, Revoked, Used

LEMMA RevokeStep ==
  ASSUME IInv, Shapes, NEW k \in Tasks, NEW s, At(k, s),
         s \in {"revoke_previous", "revoke_all", "revoke"},
         NEW ts \in SUBSET Held(view), Revoke(k, ts),
         s = "revoke_previous" /\ ~Arg(k).multi =>
           \A t \in OpenOf(Arg(k).user) : view.tokens[t].kind = Arg(k).kind => t \in ts
  PROVE  IInv' /\ Shapes'
<1>0. PICK T, C, N : /\ T = view.tokens /\ C = view.consumed
                     /\ N = [t \in Tokens |->
                              IF t \in ts THEN Revoked(T[t]) ELSE T[t]]
  OBVIOUS
<1>1. Control /\ Claims /\ Good(T, C, Tasks)
  BY <1>0 DEF IInv
<1>2. /\ owner = k /\ task[k] # None /\ task[k].todo # <<>> /\ Head(task[k].todo) = s
      /\ s \notin {"begin", "commit"} /\ task[k].op # "user_consume_token"
  BY <1>1, OwnerAt
<1>3. /\ view' = RevokedIn(view, ts) /\ task' = [Rest(k) EXCEPT ![k].hit = ts]
      /\ UNCHANGED <<saved, owner, now, made, wins, dead>>
  BY DEF Revoke, Write
<1>4. ts \in SUBSET Tokens /\ \A t \in ts : T[t] # None
  BY <1>0 DEF Held
<1>5. OwnersMove(k, ts)
  BY <1>1, <1>2, <1>3, RestMoved DEF OwnersMove
<1>6. view' = WithTokens(view, N)
  BY <1>0, <1>3 DEF RevokedIn, WithTokens, Revoked
<1>7. Shaped(view') /\ view'.tokens = N /\ view'.consumed = C
  <2>1. Shaped(view)
    BY DEF Shapes
  <2> QED
    BY <1>0, <1>6, <2>1, TableSet
<1>8. Shapes'
  BY <1>3, <1>7 DEF Shapes
<1>9. \A t \in Tokens : T[t] \in Row \cup {None}
  BY <1>1 DEF Good
<1>10. ASSUME NEW t \in Tokens
       PROVE  /\ t \notin ts => N[t] = T[t]
              /\ t \in ts => /\ N[t] \in Row /\ T[t] # None
                             /\ N[t].user = T[t].user /\ N[t].kind = T[t].kind
                             /\ N[t].multi = T[t].multi /\ N[t].created = T[t].created
                             /\ N[t].used = T[t].used /\ N[t].revoked
  <2>1. N[t] = IF t \in ts THEN Revoked(T[t]) ELSE T[t]
    BY <1>0
  <2> QED
    BY <1>4, <1>9, <2>1, RowSet
<1>11. N \in [Tokens -> Row \cup {None}]
  <2>1. \A t \in Tokens : N[t] \in Row \cup {None}
    BY <1>9, <1>10
  <2>2. N = [t \in Tokens |-> N[t]]
    BY <1>0
  <2> QED
    BY <2>1, <2>2
<1>12. Narrower(N, T)
  BY <1>10, <1>11 DEF Narrower
<1>13. \A t \in ts : t \in Born
  BY <1>1, <1>4 DEF Good, Unborn
<1>14. Claims'
  BY <1>2, <1>5, <1>13, OwnersClaims
<1>15. /\ \A t : /\ Consumes(k, t)' <=> (task[k].op = "user_consume_token" /\ t \in ts)
                 /\ Revokes(k, t)' <=> (task[k].op # "user_consume_token" /\ t \in ts)
       /\ \A u : Purges(k, u)' => (Purges(k, u) \/ s = "purge_tokens")
       /\ \A u, i : Replaces(k, u, i)' =>
                           /\ s = "revoke_previous" /\ ~Arg(k).multi
                           /\ Arg(k).user = u /\ Arg(k).kind = i
       /\ \A t : Logs(k, t) => s = "consumed"
  <2>1. task' = Moved(k, ts)
    BY <1>5 DEF OwnersMove
  <2> QED
    BY <1>1, <1>2, <1>4, <2>1, MovedPromises DEF Arg
<1>16. ASSUME NEW t \in Tokens, N[t] # None
       PROVE  /\ N[t].used <=> <<t, N[t].user>> \in C
              /\ ~Purges(k, N[t].user)'
              /\ Replaces(k, N[t].user, N[t].kind)' => ~Open(N[t])
  <2>0. PICK u, i : u = T[t].user /\ i = T[t].kind
    OBVIOUS
  <2>1. /\ T[t] # None /\ N[t].user = T[t].user /\ N[t].kind = T[t].kind /\ N[t].used = T[t].used
        /\ T[t].revoked => N[t].revoked
    BY <1>10, <1>16
  <2>2. T[t].used <=> <<t, T[t].user>> \in C
    <3>1. \A j \in Tasks : ~Logs(j, t)
      <4>1. \A j \in Tasks : j # k => ~Logs(j, t)
        BY <1>4, <1>5, OwnerMoved
      <4> QED
        BY <1>15, <4>1
    <3> QED
      BY <1>1, <2>1, <3>1 DEF Good, LoggedBut
  <2>3. ~Purges(k, u)'
    <3>1. ~Purges(k, u)
      BY <1>1, <2>0, <2>1 DEF Good, Cleared
    <3> QED
      BY <1>15, <3>1
  <2>4. Replaces(k, u, i)' => ~Open(N[t])
    <3> SUFFICES ASSUME Replaces(k, u, i)', Open(N[t])
                 PROVE  FALSE
      OBVIOUS
    <3>1. /\ s = "revoke_previous" /\ ~Arg(k).multi
          /\ Arg(k).user = T[t].user /\ Arg(k).kind = T[t].kind
      BY <1>15, <2>0
    <3>2. t \notin ts
      BY <1>10 DEF Open
    <3>3. N[t] = T[t]
      BY <1>10, <3>2
    <3>4. t \in OpenOf(Arg(k).user)
      BY <1>0, <2>1, <3>1, <3>3 DEF OpenOf, Held
    <3> QED
      BY <1>0, <3>1, <3>2, <3>4
  <2> QED
    BY <2>0, <2>1, <2>2, <2>3, <2>4
<1>17. \A t \in Tokens : Revokes(k, t)' => Dead(N, t)
  BY <1>10, <1>15 DEF Dead
<1>18. \A t \in Tokens \ Born, u \in Users : <<t, u>> \notin C
  BY <1>1 DEF Good, Unborn
<1>19. \A t \in Tokens : ~Consumes(k, t)'
  BY <1>2, <1>15
<1>20. IInv'
  <2>1. view'.tokens = N /\ view'.consumed = C /\ Narrower(N, view.tokens)
    BY <1>0, <1>7, <1>12
  <2> QED
    BY <1>4, <1>5, <1>14, <1>16, <1>17, <1>18, <1>19, <2>1, NarrowStep
<1> QED
  BY <1>8, <1>20

(* What the owner's statement s changes of its own promises.                 *)
LEMMA OwnerFacts ==
  ASSUME IInv, NEW k \in Tasks, NEW s, At(k, s), NEW h \in SUBSET Tokens, OwnersMove(k, h)
  PROVE  /\ \A t : /\ Consumes(k, t)' <=> (task[k].op = "user_consume_token" /\ t \in h)
                   /\ Revokes(k, t)' <=> (task[k].op # "user_consume_token" /\ t \in h)
                   /\ Logs(k, t)' <=> (s = "use" /\ t \in h)
                   /\ Logs(k, t) <=> (s = "consumed" /\ t \in task[k].hit)
         /\ \A u : /\ Purges(k, u)' => (Purges(k, u) \/ (s = "purge_tokens" /\ Arg(k).user = u))
                   /\ s = "purge_events" => (Purges(k, u) <=> Arg(k).user = u)
                   /\ s = "purge_events" => ~Purges(k, u)'
         /\ \A u, i : /\ Replaces(k, u, i)' =>
                           /\ s = "revoke_previous" /\ ~Arg(k).multi
                           /\ Arg(k).user = u /\ Arg(k).kind = i
                      /\ Replaces(k, u, i) <=>
                           /\ s = "token" /\ ~Arg(k).multi
                           /\ Arg(k).user = u /\ Arg(k).kind = i
         /\ \A t \in Tokens : /\ view.tokens[t] # None
                              /\ s = "consumed" => t \notin task[k].hit
                => (view.tokens[t].used <=> <<t, view.tokens[t].user>> \in view.consumed)
<1>1. Head(task[k].todo) = s /\ task[k] # None /\ task[k].todo # <<>> /\ task' = Moved(k, h)
  BY DEF At, OwnersMove
<1>2. Control
  BY DEF IInv
<1>3. /\ \A t : /\ Consumes(k, t)' <=> (task[k].op = "user_consume_token" /\ t \in h)
                /\ Revokes(k, t)' <=> (task[k].op # "user_consume_token" /\ t \in h)
                /\ Logs(k, t)' <=> (s = "use" /\ t \in h)
                /\ Logs(k, t) <=> (s = "consumed" /\ t \in task[k].hit)
      /\ \A u : /\ Purges(k, u)' => (Purges(k, u) \/ (s = "purge_tokens" /\ Arg(k).user = u))
                /\ s = "purge_events" => (Purges(k, u) <=> Arg(k).user = u)
                /\ s = "purge_events" => ~Purges(k, u)'
      /\ \A u, i : /\ Replaces(k, u, i)' =>
                        /\ s = "revoke_previous" /\ ~Arg(k).multi
                        /\ Arg(k).user = u /\ Arg(k).kind = i
                   /\ Replaces(k, u, i) <=>
                        /\ s = "token" /\ ~Arg(k).multi
                        /\ Arg(k).user = u /\ Arg(k).kind = i
  BY <1>1, <1>2, MovedPromises DEF Arg
<1>4. ASSUME NEW t \in Tokens, view.tokens[t] # None, s = "consumed" => t \notin task[k].hit
      PROVE  view.tokens[t].used <=> <<t, view.tokens[t].user>> \in view.consumed
  <2>1. \A j \in Tasks : j # k => ~Logs(j, t)
    BY OwnerMoved
  <2>2. ~Logs(k, t)
    BY <1>3, <1>4
  <2>3. LoggedBut(view.tokens, view.consumed, Tasks)
    BY DEF IInv, Good
  <2> QED
    BY <1>4, <2>1, <2>2, <2>3 DEF LoggedBut
<1> QED
  BY <1>3, <1>4

(* Tokens that are purged with their user, or have expired.                  *)
LEMMA RemoveStep ==
  ASSUME IInv, Shapes, NEW k \in Tasks, NEW s, At(k, s), s \in {"purge_tokens", "expired"},
         NEW ts, task' = Rest(k), UNCHANGED <<saved, owner, now, made, wins, dead>>,
         view' = WithTokens(view, [t \in Tokens |-> IF t \in ts THEN None ELSE view.tokens[t]]),
         s = "purge_tokens" =>
           \A t \in Held(view) : view.tokens[t].user = Arg(k).user => t \in ts
  PROVE  IInv' /\ Shapes'
<1>0. PICK T, C, N : /\ T = view.tokens /\ C = view.consumed
                     /\ N = [t \in Tokens |-> IF t \in ts THEN None ELSE T[t]]
  OBVIOUS
<1>1. Control /\ Claims /\ Good(T, C, Tasks)
  BY <1>0 DEF IInv
<1>2. /\ owner = k /\ task[k] # None /\ task[k].todo # <<>> /\ Head(task[k].todo) = s
      /\ s \notin {"begin", "commit"} /\ task[k].op # "user_consume_token"
  BY <1>1, OwnerAt
<1>3. task[k].hit \in SUBSET Tokens /\ task[k].hit \in SUBSET Born
  BY <1>1, <1>2 DEF Control, Pending, Claims
<1>4. OwnersMove(k, task[k].hit)
  BY <1>1, <1>2, RestMoved DEF OwnersMove
<1>5. Shaped(view') /\ view'.tokens = N /\ view'.consumed = C
  <2>1. Shaped(view)
    BY DEF Shapes
  <2>2. view' = WithTokens(view, N)
    BY <1>0
  <2> QED
    BY <1>0, <2>1, <2>2, TableSet
<1>6. Shapes'
  BY <1>5 DEF Shapes
<1>7. \A t \in Tokens : T[t] \in Row \cup {None}
  BY <1>1 DEF Good
<1>8. ASSUME NEW t \in Tokens
      PROVE  /\ t \notin ts => N[t] = T[t]
             /\ t \in ts => N[t] = None
  BY <1>0
<1>9. N \in [Tokens -> Row \cup {None}]
  BY <1>0, <1>7
<1>10. Narrower(N, T)
  BY <1>8, <1>9 DEF Narrower
<1>11. Claims'
  BY <1>2, <1>3, <1>4, OwnersClaims
<1>12. /\ \A t : /\ Consumes(k, t)' => Consumes(k, t)
                 /\ Revokes(k, t)' => Revokes(k, t)
       /\ \A u : Purges(k, u)' => (Purges(k, u) \/ (s = "purge_tokens" /\ Arg(k).user = u))
       /\ \A u, i : ~Replaces(k, u, i)'
       /\ \A t \in Tokens : T[t] # None => (T[t].used <=> <<t, T[t].user>> \in C)
  BY <1>0, <1>2, <1>3, <1>4, OwnerFacts DEF Consumes, Revokes, Runs
<1>13. ASSUME NEW t \in Tokens, N[t] # None
       PROVE  /\ N[t].used <=> <<t, N[t].user>> \in C
              /\ ~Purges(k, N[t].user)'
              /\ Replaces(k, N[t].user, N[t].kind)' => ~Open(N[t])
  <2>0. PICK u, i : u = T[t].user /\ i = T[t].kind
    OBVIOUS
  <2>1. N[t] = T[t] /\ t \notin ts
    BY <1>8, <1>13
  <2>2. T[t].used <=> <<t, T[t].user>> \in C
    BY <1>12, <1>13, <2>1
  <2>3. ~Purges(k, u)'
    <3>1. ~Purges(k, u)
      BY <1>1, <1>13, <2>0, <2>1 DEF Good, Cleared
    <3>2. ~(s = "purge_tokens" /\ Arg(k).user = u)
      BY <1>0, <1>13, <2>0, <2>1 DEF Held
    <3> QED
      BY <1>12, <3>1, <3>2
  <2>4. ~Replaces(k, u, i)'
    BY <1>12
  <2> QED
    BY <2>0, <2>1, <2>2, <2>3, <2>4
<1>14. \A t \in Tokens \ Born, u \in Users : <<t, u>> \notin C
  BY <1>1 DEF Good, Unborn
<1>15. IInv'
  <2>1. view'.tokens = N /\ view'.consumed = C /\ Narrower(N, view.tokens)
    BY <1>0, <1>5, <1>10
  <2> QED
    BY <1>3, <1>4, <1>11, <1>12, <1>13, <1>14, <2>1, NarrowStep
<1> QED
  BY <1>6, <1>15

(* The events of a user whose tokens are gone.                               *)
LEMMA PurgeEventsStep ==
  ASSUME IInv, Shapes, NEW k \in Tasks, PurgeEvents(k)
  PROVE  IInv' /\ Shapes'
<1> DEFINE s == "purge_events"
<1>0. PICK T, C, D : /\ T = view.tokens /\ C = view.consumed
                     /\ D = {e \in C : e[2] # Arg(k).user}
  OBVIOUS
<1>1. Control /\ Claims /\ Good(T, C, Tasks)
  BY <1>0 DEF IInv
<1>2. /\ At(k, s) /\ task' = Rest(k) /\ UNCHANGED <<saved, owner, now, made, wins, dead>>
      /\ view' = WithConsumed(view, D)
  BY <1>0 DEF PurgeEvents, Exec, Write, WithConsumed
<1>3. /\ owner = k /\ task[k] # None /\ task[k].todo # <<>> /\ Head(task[k].todo) = s
      /\ s \notin {"begin", "commit"} /\ task[k].op # "user_consume_token"
  BY <1>1, <1>2, OwnerAt
<1>4. task[k].hit \in SUBSET Tokens /\ task[k].hit \in SUBSET Born
  BY <1>1, <1>3 DEF Control, Pending, Claims
<1>5. OwnersMove(k, task[k].hit)
  BY <1>1, <1>2, <1>3, RestMoved DEF OwnersMove
<1>6. Shaped(view') /\ view'.tokens = T /\ view'.consumed = D
  <2>1. Shaped(view)
    BY DEF Shapes
  <2> QED
    BY <1>0, <1>2, <2>1, TableSet
<1>7. Shapes'
  BY <1>2, <1>6 DEF Shapes
<1>8. Narrower(T, T)
  BY <1>1 DEF Narrower, Good
<1>9. Claims'
  BY <1>3, <1>4, <1>5, OwnersClaims
<1>10. /\ \A t : /\ Consumes(k, t)' => Consumes(k, t)
                 /\ Revokes(k, t)' => Revokes(k, t)
       /\ \A u : (Purges(k, u) <=> Arg(k).user = u) /\ ~Purges(k, u)'
       /\ \A u, i : ~Replaces(k, u, i)'
       /\ \A t \in Tokens : T[t] # None => (T[t].used <=> <<t, T[t].user>> \in C)
  BY <1>0, <1>2, <1>3, <1>4, <1>5, OwnerFacts DEF Consumes, Revokes, Runs
<1>11. ASSUME NEW t \in Tokens, T[t] # None
       PROVE  /\ T[t].used <=> <<t, T[t].user>> \in D
              /\ ~Purges(k, T[t].user)'
              /\ Replaces(k, T[t].user, T[t].kind)' => ~Open(T[t])
  <2>0. PICK u, i : u = T[t].user /\ i = T[t].kind
    OBVIOUS
  <2>1. ~Purges(k, u)
    BY <1>1, <1>11, <2>0 DEF Good, Cleared
  <2>2. Arg(k).user # u
    BY <1>10, <2>1
  <2>3. <<t, u>> \in D <=> <<t, u>> \in C
    BY <1>0, <2>2
  <2>4. ~Purges(k, u)' /\ ~Replaces(k, u, i)'
    BY <1>10
  <2> QED
    BY <1>10, <1>11, <2>0, <2>3, <2>4
<1>12. \A t \in Tokens \ Born, u \in Users : <<t, u>> \notin D
  BY <1>0, <1>1 DEF Good, Unborn
<1>13. IInv'
  <2>1. view'.tokens = T /\ view'.consumed = D /\ Narrower(T, view.tokens)
    BY <1>0, <1>6, <1>8
  <2> QED
    BY <1>4, <1>5, <1>9, <1>10, <1>11, <1>12, <2>1, NarrowStep
<1> QED
  BY <1>7, <1>13

(* The event of a consumption.                                               *)
LEMMA LogStep ==
  ASSUME IInv, Shapes, NEW k \in Tasks, LogConsumed(k)
  PROVE  IInv' /\ Shapes'
<1> DEFINE s == "consumed"
<1>0. PICK T, C, D : /\ T = view.tokens /\ C = view.consumed
                     /\ D = C \cup {<<t, T[t].user>> : t \in task[k].hit \cap Held(view)}
  OBVIOUS
<1>1. Control /\ Claims /\ Good(T, C, Tasks)
  BY <1>0 DEF IInv
<1>2. /\ At(k, s) /\ task' = Rest(k) /\ UNCHANGED <<saved, owner, now, made, wins, dead>>
      /\ view' = WithConsumed(view, D)
  BY <1>0 DEF LogConsumed, Exec, Write, WithConsumed
<1>3. /\ owner = k /\ task[k] # None /\ task[k].todo # <<>> /\ Head(task[k].todo) = s
      /\ s \notin {"begin", "commit"} /\ task[k].op = "user_consume_token"
  BY <1>1, <1>2, OwnerAt
<1>4. task[k].hit \in SUBSET Tokens /\ task[k].hit \in SUBSET Born
  BY <1>1, <1>3 DEF Control, Pending, Claims
<1>5. OwnersMove(k, task[k].hit)
  BY <1>1, <1>2, <1>3, RestMoved DEF OwnersMove
<1>6. Shaped(view') /\ view'.tokens = T /\ view'.consumed = D
  <2>1. Shaped(view)
    BY DEF Shapes
  <2> QED
    BY <1>0, <1>2, <2>1, TableSet
<1>7. Shapes'
  BY <1>2, <1>6 DEF Shapes
<1>8. Narrower(T, T)
  BY <1>1 DEF Narrower, Good
<1>9. Claims'
  BY <1>3, <1>4, <1>5, OwnersClaims
<1>10. /\ \A t : /\ Consumes(k, t)' => Consumes(k, t)
                 /\ Revokes(k, t)' => Revokes(k, t)
       /\ \A u : Purges(k, u)' => Purges(k, u)
       /\ \A u, i : ~Replaces(k, u, i)'
       /\ \A t \in Tokens : (T[t] # None /\ t \notin task[k].hit) =>
                               (T[t].used <=> <<t, T[t].user>> \in C)
  BY <1>0, <1>2, <1>3, <1>4, <1>5, OwnerFacts DEF Consumes, Revokes, Runs
<1>11. ASSUME NEW t \in Tokens, T[t] # None
       PROVE  /\ T[t].used <=> <<t, T[t].user>> \in D
              /\ ~Purges(k, T[t].user)'
              /\ Replaces(k, T[t].user, T[t].kind)' => ~Open(T[t])
  <2>0. PICK u, i : u = T[t].user /\ i = T[t].kind
    OBVIOUS
  <2>1. ~Purges(k, u)' /\ ~Replaces(k, u, i)'
    BY <1>1, <1>10, <1>11, <2>0 DEF Good, Cleared
  <2>2. CASE t \in task[k].hit
    <3>1. Consumes(k, t)
      BY <1>3, <2>2 DEF Consumes, Runs
    <3>2. T[t].used
      BY <1>1, <1>11, <3>1 DEF Good, Owed, Gone
    <3>3. <<t, T[t].user>> \in D
      BY <1>0, <1>11, <2>2 DEF Held
    <3> QED
      BY <2>0, <2>1, <3>2, <3>3
  <2>3. CASE t \notin task[k].hit
    <3>1. <<t, u>> \in D <=> <<t, u>> \in C
      BY <1>0, <2>3
    <3> QED
      BY <1>10, <1>11, <2>0, <2>1, <2>3, <3>1
  <2> QED
    BY <2>2, <2>3
<1>12. \A t \in Tokens \ Born, u \in Users : <<t, u>> \notin D
  BY <1>0, <1>1, <1>4 DEF Good, Unborn
<1>13. IInv'
  <2>1. view'.tokens = T /\ view'.consumed = D /\ Narrower(T, view.tokens)
    BY <1>0, <1>6, <1>8
  <2> QED
    BY <1>4, <1>5, <1>9, <1>10, <1>11, <1>12, <2>1, NarrowStep
<1> QED
  BY <1>7, <1>13

(* A token that is there and active is used.                                 *)
LEMMA UseHit ==
  ASSUME IInv, Shapes, NEW k \in Tasks, UseToken(k), MayUse(Arg(k).token)
  PROVE  IInv' /\ Shapes'
<1> DEFINE s == "use"
<1>0. PICK T, C, x, N : /\ T = view.tokens /\ C = view.consumed /\ x = Arg(k).token
                        /\ N = [T EXCEPT ![x] = Used(T[x])]
  OBVIOUS
<1>1. Control /\ Claims /\ Good(T, C, Tasks)
  BY <1>0 DEF IInv
<1>2. /\ At(k, s) /\ UNCHANGED <<saved, owner, now, made, wins, dead>>
      /\ task' = [Rest(k) EXCEPT ![k].hit = {x}]
      /\ view' = [view EXCEPT !.tokens[x].used = TRUE]
      /\ T[x] # None /\ Open(T[x])
  BY <1>0 DEF UseToken, Write, MayUse, Active
<1>3. /\ owner = k /\ task[k] # None /\ task[k].todo # <<>> /\ Head(task[k].todo) = s
      /\ s \notin {"begin", "commit"} /\ task[k].op = "user_consume_token"
  BY <1>1, <1>2, OwnerAt
<1>4. x \in Tokens
  <2>1. task[k].arg \in [token : Tokens]
    BY <1>1, <1>3 DEF Control
  <2> QED
    BY <1>0, <2>1 DEF Arg
<1>5. OwnersMove(k, {x})
  BY <1>1, <1>2, <1>3, RestMoved DEF OwnersMove
<1>6. Shaped(view') /\ view'.tokens = N /\ view'.consumed = C
  <2>1. Shaped(view)
    BY DEF Shapes
  <2>2. view' = WithTokens(view, N)
    BY <1>0, <1>2 DEF WithTokens, Used
  <2> QED
    BY <1>0, <2>1, <2>2, TableSet
<1>7. Shapes'
  BY <1>2, <1>6 DEF Shapes
<1>8. T \in [Tokens -> Row \cup {None}] /\ T[x] \in Row
  BY <1>1, <1>2, <1>4 DEF Good
<1>9. /\ N[x] \in Row /\ N[x].user = T[x].user /\ N[x].kind = T[x].kind
      /\ N[x].multi = T[x].multi /\ N[x].created = T[x].created
      /\ N[x].revoked = T[x].revoked /\ N[x].used
      /\ \A t \in Tokens : t # x => N[t] = T[t]
  <2>1. N[x] = Used(T[x]) /\ \A t \in Tokens : t # x => N[t] = T[t]
    BY <1>0, <1>4, <1>8
  <2> QED
    BY <1>8, <2>1, RowSet
<1>10. N \in [Tokens -> Row \cup {None}]
  <2>1. \A t \in Tokens : N[t] \in Row \cup {None}
    BY <1>8, <1>9
  <2>2. N = [t \in Tokens |-> N[t]]
    BY <1>0, <1>8
  <2> QED
    BY <2>1, <2>2
<1>11. Narrower(N, T)
  BY <1>2, <1>9, <1>10 DEF Narrower
<1>12. ~Gone(T, x) /\ x \in Born
  BY <1>1, <1>2, <1>4 DEF Gone, Open, Good, Unborn
<1>13. wins[x] = 0 /\ \A j \in Tasks : ~Consumes(j, x)
  <2>1. ~(wins[x] > 0) /\ \A j \in Tasks : ~Consumes(j, x)
    BY <1>1, <1>4, <1>12 DEF Good, Owed
  <2> QED
    BY <1>1, <1>4, <2>1 DEF Claims
<1>14. /\ \A t : /\ Consumes(k, t)' <=> t = x
                 /\ ~Revokes(k, t)'
                 /\ Logs(k, t)' <=> t = x
       /\ \A u : Purges(k, u)' => Purges(k, u)
       /\ \A u, i : ~Replaces(k, u, i)'
       /\ \A t \in Tokens : T[t] # None => (T[t].used <=> <<t, T[t].user>> \in C)
  BY <1>0, <1>2, <1>3, <1>4, <1>5, OwnerFacts
<1>15. /\ Born \subseteq Born' /\ task'[k].hit = {x}
       /\ \A j \in Tasks : j # k =>
              /\ task'[j] = task[j]
              /\ \A t : Consumes(j, t)' <=> Consumes(j, t)
  BY <1>4, <1>5, OwnerMoved
<1>16. Claims'
  <2>1. \A i, j \in Tasks, t \in Tokens : (Consumes(i, t)' /\ Consumes(j, t)') => i = j
    BY <1>1, <1>13, <1>14, <1>15 DEF Claims
  <2>2. \A j \in Tasks, t \in Tokens : Consumes(j, t)' => wins'[t] = 0
    BY <1>1, <1>2, <1>13, <1>14, <1>15 DEF Claims
  <2>3. \A t \in Tokens \ Born' : wins'[t] = 0 /\ t \notin dead'
    BY <1>1, <1>2, <1>15 DEF Claims
  <2>4. \A j \in Tasks : task'[j] # None => task'[j].hit \subseteq Born'
    BY <1>1, <1>12, <1>15 DEF Claims
  <2>5. wins' \in [Tokens -> {0, 1}] /\ dead' \subseteq Tokens
    BY <1>1, <1>2 DEF Claims
  <2> QED
    BY <2>1, <2>2, <2>3, <2>4, <2>5 DEF Claims
<1>17. ASSUME NEW t \in Tokens, N[t] # None
       PROVE  /\ (N[t].used <=> <<t, N[t].user>> \in C) \/ Logs(k, t)'
              /\ ~Purges(k, N[t].user)'
              /\ Replaces(k, N[t].user, N[t].kind)' => ~Open(N[t])
  <2>0. PICK u, i : u = N[t].user /\ i = N[t].kind
    OBVIOUS
  <2>1. T[t] # None /\ u = T[t].user
    BY <1>2, <1>9, <1>17, <2>0
  <2>2. ~Purges(k, u)' /\ ~Replaces(k, u, i)'
    BY <1>1, <1>14, <2>0, <2>1 DEF Good, Cleared
  <2>3. (N[t].used <=> <<t, N[t].user>> \in C) \/ Logs(k, t)'
    BY <1>9, <1>14, <2>1
  <2> QED
    BY <2>0, <2>2, <2>3
<1>18. \A t \in Tokens : Consumes(k, t)' => (Consumes(k, t) \/ Gone(N, t))
  BY <1>9, <1>14 DEF Gone
<1>19. ASSUME NEW t \in Tokens \ Born, NEW u \in Users
       PROVE  <<t, u>> \notin C
  BY <1>1 DEF Good, Unborn
<1>20. IInv'
  <2>1. view'.tokens = N /\ view'.consumed = C /\ Narrower(N, view.tokens)
    BY <1>0, <1>6, <1>11
  <2>2. {x} \in SUBSET Tokens
    BY <1>4
  <2> QED
    BY <1>5, <1>14, <1>16, <1>17, <1>18, <1>19, <2>1, <2>2, NarrowStep
<1> QED
  BY <1>7, <1>20

(* A token that is not: all that is left is COMMIT.                          *)
LEMMA UseMiss ==
  ASSUME IInv, Shapes, NEW k \in Tasks, UseToken(k), ~MayUse(Arg(k).token)
  PROVE  IInv' /\ Shapes'
<1> DEFINE s == "use"
           p == task[k]
           r == [op |-> p.op, arg |-> p.arg, todo |-> <<"commit">>, n |-> p.n, hit |-> p.hit]
<1>1. Control /\ Claims
  BY DEF IInv
<1>2. /\ At(k, s) /\ UNCHANGED <<view, saved, owner, now, made, wins, dead>>
      /\ task' = [task EXCEPT ![k].todo = <<"commit">>]
  BY DEF UseToken, Write
<1>3. /\ owner = k /\ p # None /\ p.todo # <<>> /\ Head(p.todo) = s
      /\ s \notin {"begin", "commit"} /\ p.op = "user_consume_token"
  BY <1>1, <1>2, OwnerAt
<1>4. p \in Pending /\ task \in [Tasks -> Pending \cup {None}]
  BY <1>1, <1>3 DEF Control
<1>5. Left(k) = 3
  <2>1. Places(p.op, Left(k), s)
    BY <1>1, <1>3, TaskAt
  <2> QED
    BY <2>1 DEF Places
<1>6. r \in Pending /\ r # None
  <2>1. <<"commit">> \in Seq(Statements)
    BY DEF Statements
  <2>2. r \in Pending
    BY <1>4, <2>1 DEF Pending
  <2> QED
    BY <2>2, IdentityAssumption
<1>7. [p EXCEPT !.todo = <<"commit">>] = r
  <2>1. PICK o, a, d, n, g : p = [op |-> o, arg |-> a, todo |-> d, n |-> n, hit |-> g]
    BY <1>4 DEF Pending
  <2> HIDE DEF p
  <2> QED
    BY <2>1
<1>8. task'[k] = r /\ \A j \in Tasks : j # k => task'[j] = task[j]
  <2>1. task' = [task EXCEPT ![k] = [p EXCEPT !.todo = <<"commit">>]]
    BY <1>2
  <2> QED
    BY <1>4, <1>7, <2>1
<1>9. task' \in [Tasks -> Pending \cup {None}]
  <2>1. task' = [task EXCEPT ![k] = r]
    BY <1>2, <1>7
  <2> QED
    BY <1>4, <1>6, <2>1
<1>10. /\ r.op = "user_consume_token" /\ r.arg = p.arg /\ r.todo = <<"commit">>
       /\ r.n = p.n /\ r.hit = p.hit
  BY <1>3
<1> HIDE DEF r
<1>11. Left(k)' = 1 /\ \A j \in Tasks : j # k => Left(j)' = Left(j)
  BY <1>8, <1>10 DEF Left
<1>12. Follows(r.todo, r.op)
  <2>1. ScriptOf("user_consume_token") = <<"begin", "use", "consumed", "commit">>
    BY DEF ScriptOf, Script, ConsumeScript, RevokeScript, ReaperScript
  <2>2. PICK m : m = Len(ScriptOf("user_consume_token"))
    OBVIOUS
  <2>3. m = 4 /\ ScriptOf("user_consume_token")[4] = "commit"
    BY <2>1, <2>2
  <2>4. m - 1 + 1 = 4
    BY <2>3
  <2>5. Stage("user_consume_token", 1) = "commit"
    BY <2>2, <2>3, <2>4 DEF Stage
  <2>6. Len(<<"commit">>) = 1 /\ <<"commit">>[1] = "commit"
    OBVIOUS
  <2>7. /\ Len(<<"commit">>) <= Len(ScriptOf("user_consume_token"))
        /\ \A j \in 1..1 : j = 1 /\ 1 - j + 1 = 1
    BY <2>2, <2>3, <2>6
  <2>8. Follows(<<"commit">>, "user_consume_token")
    BY <2>5, <2>6, <2>7 DEF Follows
  <2> QED
    BY <1>10, <2>8
<1>13. Control'
  <2>1. \A j \in Tasks : task'[j] # None =>
         /\ task'[j].op \in Requests \cup {"reaper"} /\ Follows(task'[j].todo, task'[j].op)
         /\ (j = "reaper") <=> (task'[j].op = "reaper")
         /\ j # "reaper" => task'[j].n \in 1..made'
         /\ task'[j].op = "user_create_token" => task'[j].arg \in Creation
         /\ task'[j].op = "user_consume_token" => task'[j].arg \in [token : Tokens]
    <3>1. made' = made
      BY <1>2
    <3> QED
      BY <1>1, <1>3, <1>8, <1>10, <1>12, <3>1 DEF Control
  <2>2. \A i, j \in Slots :
           (i # j /\ task'[i] # None /\ task'[j] # None) => task'[i].n # task'[j].n
    BY <1>1, <1>3, <1>8, <1>10 DEF Control, Tasks
  <2>3. ASSUME NEW j \in Tasks
        PROVE  owner' = j <=> (task'[j] # None /\ Within(task'[j].op, Left(j)'))
    <3>1. owner = j <=> (task[j] # None /\ Within(task[j].op, Left(j)))
      BY <1>1 DEF Control
    <3>2. CASE j = k
      <4>1. Within("user_consume_token", 1)
        BY DEF Within
      <4>2. owner' = k
        BY <1>2, <1>3
      <4> QED
        BY <1>6, <1>8, <1>10, <1>11, <3>2, <4>1, <4>2
    <3>3. CASE j # k
      <4>1. task'[j] = task[j] /\ Left(j)' = Left(j) /\ owner' = owner
        BY <1>2, <1>8, <1>11, <3>3
      <4> QED
        BY <3>1, <4>1
    <3> QED
      BY <3>2, <3>3
  <2>4. made' \in 0..MaxRequests /\ owner' \in Tasks \cup {None}
    BY <1>1, <1>2 DEF Control
  <2> QED
    BY <1>9, <2>1, <2>2, <2>3, <2>4 DEF Control
<1>14. /\ \A t : /\ Consumes(k, t)' <=> Consumes(k, t)
                 /\ ~Revokes(k, t)' /\ ~Logs(k, t) /\ ~Makes(k, t)'
       /\ \A u : ~Purges(k, u)'
       /\ \A u, i : ~Replaces(k, u, i)'
  <2>1. \A op : Runs(k, op)' <=> op = "user_consume_token"
    BY <1>6, <1>8, <1>10 DEF Runs
  <2>2. Runs(k, "user_consume_token") /\ task'[k].hit = task[k].hit
    BY <1>3, <1>8, <1>10 DEF Runs
  <2>3. \A t : ~Revokes(k, t)'
    BY <1>8, <1>10 DEF Revokes
  <2> QED
    BY <1>5, <2>1, <2>2, <2>3 DEF Consumes, Logs, Makes, Purges, Replaces
<1>15. ASSUME NEW j \in Tasks
       PROVE  /\ \A t : /\ Consumes(j, t)' => Consumes(j, t)
                        /\ Revokes(j, t)' => Revokes(j, t)
                        /\ Logs(j, t) => Logs(j, t)'
                        /\ Makes(j, t)' => Makes(j, t)
              /\ \A u, i : /\ Purges(j, u)' => Purges(j, u)
                           /\ Replaces(j, u, i)' => Replaces(j, u, i)
  BY <1>8, <1>14, Alone
<1>16. Born \subseteq Born'
  <2>1. made \in Nat /\ made' \in Nat /\ made <= made'
    BY <1>1, <1>2, IdentityAssumption DEF Control
  <2> QED
    BY <1>15, <2>1, BornKept DEF Tasks
<1>17. \A K \in SUBSET Tasks : NoMore(K)
  BY <1>15 DEF NoMore
<1>18. Claims'
  <2>1. \A j \in Tasks : task'[j] # None => task'[j].hit \subseteq Born'
    BY <1>1, <1>3, <1>8, <1>10, <1>16 DEF Claims
  <2> QED
    BY <1>1, <1>2, <1>15, <1>16, <2>1, ClaimsKept
<1>19. Good(view.tokens, view.consumed, Tasks)'
  <2>1. PICK T, C : T = view.tokens /\ C = view.consumed
    OBVIOUS
  <2>2. Good(T, C, Tasks)
    BY <2>1 DEF IInv
  <2>3. Good(T, C, Tasks)'
    BY <1>2, <1>16, <1>17, <2>2, GoodKept
  <2> QED
    BY <1>2, <2>1, <2>3, ViewGood
<1>20. owner' # None => Good(saved.tokens, saved.consumed, Tasks \ {owner})'
  <2> SUFFICES ASSUME owner # None PROVE Good(saved.tokens, saved.consumed, Tasks \ {owner})'
    BY <1>2
  <2>1. PICK T, C, o : T = saved.tokens /\ C = saved.consumed /\ o = owner
    OBVIOUS
  <2>2. Good(T, C, Tasks \ {o})
    BY <2>1 DEF IInv
  <2>3. Good(T, C, Tasks \ {o})'
    BY <1>2, <1>16, <1>17, <2>2, GoodKept
  <2> QED
    BY <1>2, <2>1, <2>3, SavedGood
<1>21. Shapes'
  BY <1>2 DEF Shapes
<1> QED
  BY <1>13, <1>18, <1>19, <1>20, <1>21 DEF IInv

------------------------------------------------------------------------------
(* A token that is inserted is newer than those that are there.              *)

(* A nonempty set of numbers has a least one.                                *)
LEMMA LeastNumber ==
  ASSUME NEW T \in SUBSET Nat, T # {}
  PROVE  \E m \in T : \A n \in T : m <= n
<1>1. PICK m \in T : \A n \in T : <<n, m>> \notin OpToRel(<, Nat)
  BY NatLessThanWellFounded, WFMin
<1>2. \A n \in T : ~(n < m)
  BY <1>1 DEF OpToRel
<1> QED
  BY <1>2

(* The rows up to number m are no newer than c.                              *)
UpTo(T, m, c) == \A t \in Tokens : (t <= m /\ T[t] # None) => T[t].created <= c

LEMMA Oldest ==
  ASSUME NEW T \in [Tokens -> Row \cup {None}]
  PROVE  \E c \in Nat : \A t \in Tokens : T[t] # None => T[t].created <= c
<1> DEFINE bad == {m \in Nat : ~\E c \in Nat : UpTo(T, m, c)}
<1>1. \A t \in Tokens : t \in Nat /\ t <= MaxRequests
  BY IdentityAssumption DEF Tokens
<1>2. \A t \in Tokens : T[t] # None => T[t].created \in Nat
  BY DEF Row
<1>3. bad = {}
  <2> SUFFICES ASSUME bad # {} PROVE FALSE
    OBVIOUS
  <2>1. PICK m \in bad : \A n \in bad : m <= n
    <3>1. bad \in SUBSET Nat
      OBVIOUS
    <3> HIDE DEF bad
    <3> QED
      BY <3>1, LeastNumber
  <2>2. m \in Nat
    OBVIOUS
  <2>3. PICK d \in Nat : m > 0 => UpTo(T, m - 1, d)
    <3>1. CASE m = 0
      BY <3>1
    <3>2. CASE m > 0
      <4>1. m - 1 \in Nat /\ ~(m <= m - 1)
        BY <2>2, <3>2
      <4>2. m - 1 \notin bad
        BY <2>1, <4>1
      <4> QED
        BY <4>1, <4>2
    <3> QED
      BY <2>2, <3>1, <3>2
  <2>4. PICK c \in Nat : d <= c /\ (m \in Tokens /\ T[m] # None => T[m].created <= c)
    <3>1. CASE m \in Tokens /\ T[m] # None
      <4>1. PICK e : e = T[m].created
        OBVIOUS
      <4>2. e \in Nat
        BY <1>2, <3>1, <4>1
      <4> QED
        BY <4>1, <4>2
    <3>2. CASE ~(m \in Tokens /\ T[m] # None)
      BY <3>2
    <3> QED
      BY <3>1, <3>2
  <2>5. UpTo(T, m, c)
    <3> SUFFICES ASSUME NEW t \in Tokens, t <= m, T[t] # None
                 PROVE  T[t].created <= c
      BY DEF UpTo
    <3>1. CASE t = m
      BY <2>4, <3>1
    <3>2. CASE t # m
      <4>1. m > 0 /\ t <= m - 1
        BY <1>1, <2>2, <3>2
      <4>2. PICK e : e = T[t].created
        OBVIOUS
      <4>3. e \in Nat /\ e <= d
        BY <1>2, <2>3, <4>1, <4>2 DEF UpTo
      <4> QED
        BY <2>4, <4>2, <4>3
    <3> QED
      BY <3>1, <3>2
  <2> QED
    BY <2>1, <2>5
<1>4. PICK c \in Nat : UpTo(T, MaxRequests, c)
  BY <1>3, IdentityAssumption
<1> QED
  BY <1>1, <1>4 DEF UpTo

LEMMA NewestIsLast ==
  ASSUME NEW T \in [Tokens -> Row \cup {None}], T = view.tokens
  PROVE  Newest \in Nat /\ \A t \in Tokens : T[t] # None => T[t].created <= Newest
<1> DEFINE S == {0} \cup {T[t].created : t \in Held(view)}
           tops == {c \in Nat : \A y \in S : y <= c}
<1>1. S \subseteq Nat /\ 0 \in S
  BY DEF Held, Row
<1>2. \A t \in Tokens : T[t] # None => T[t].created \in S
  BY DEF Held
<1>3. tops # {}
  <2>1. PICK c \in Nat : \A t \in Tokens : T[t] # None => T[t].created <= c
    BY Oldest
  <2>2. \A y \in S : y <= c
    BY <2>1 DEF Held
  <2> QED
    BY <2>2
<1>4. PICK c \in tops : \A d \in tops : c <= d
  <2>1. tops \in SUBSET Nat
    OBVIOUS
  <2> HIDE DEF tops
  <2> QED
    BY <1>3, <2>1, LeastNumber
<1>5. c \in Nat /\ \A y \in S : y <= c
  OBVIOUS
<1>6. Newest = Max(S)
  BY DEF Newest
<1> HIDE DEF S
<1>7. c \in S
  <2> SUFFICES ASSUME c \notin S PROVE FALSE
    OBVIOUS
  <2>1. c # 0 /\ \A y \in S : y \in Nat /\ y <= c /\ y # c
    BY <1>1, <1>5
  <2>2. c - 1 \in Nat /\ \A y \in S : y <= c - 1
    BY <1>5, <2>1
  <2>3. c - 1 \in tops
    BY <2>2
  <2> QED
    BY <1>4, <1>5, <2>3
<1>8. \E x \in S : \A y \in S : x >= y
  BY <1>1, <1>5, <1>7
<1>9. Max(S) \in S /\ \A y \in S : Max(S) >= y
  BY <1>8 DEF Max
<1>10. PICK x : x = Newest
  OBVIOUS
<1>11. x \in S /\ \A y \in S : x >= y
  BY <1>6, <1>9, <1>10
<1> QED
  BY <1>1, <1>2, <1>10, <1>11

(* A token that is inserted: those it replaces were revoked before it.       *)
LEMMA InsertStep ==
  ASSUME IInv, Shapes, NEW k \in Tasks, InsertToken(k)
  PROVE  IInv' /\ Shapes'
<1> DEFINE s == "token"
           a == Arg(k)
           h == task[k].hit
<1>0. PICK T, C, n, r, N :
        /\ T = view.tokens /\ C = view.consumed /\ n = task[k].n
        /\ r = [user |-> a.user, kind |-> a.kind, multi |-> a.multi, expires |-> a.expires,
                created |-> Newest + 1, used |-> FALSE, revoked |-> FALSE]
        /\ N = [T EXCEPT ![n] = r]
  OBVIOUS
<1>1. Control /\ Claims /\ Good(T, C, Tasks)
  BY <1>0 DEF IInv
<1>2. /\ At(k, s) /\ task' = Rest(k) /\ UNCHANGED <<saved, owner, now, made, wins, dead>>
      /\ view' = WithTokens(view, N)
  BY <1>0 DEF InsertToken, Exec, Write, WithTokens
<1>3. /\ owner = k /\ task[k] # None /\ task[k].todo # <<>> /\ Head(task[k].todo) = s
      /\ s \notin {"begin", "commit"} /\ task[k].op # "user_consume_token"
  BY <1>1, <1>2, OwnerAt
<1>4. h \in SUBSET Tokens /\ h \in SUBSET Born
  BY <1>1, <1>3 DEF Control, Pending, Claims
<1>5. OwnersMove(k, h)
  BY <1>1, <1>2, <1>3, RestMoved DEF OwnersMove
<1>6. Shaped(view') /\ view'.tokens = N /\ view'.consumed = C
  <2>1. Shaped(view)
    BY DEF Shapes
  <2> QED
    BY <1>0, <1>2, <2>1, TableSet
<1>7. Shapes'
  BY <1>2, <1>6 DEF Shapes
<1>8. /\ \A t : Makes(k, t) <=> n = t
      /\ \A t : ~Makes(k, t)'
  BY <1>0, <1>1, <1>3, <1>4, <1>5, MovedPromises DEF OwnersMove
<1>9. task[k].op = "user_create_token" /\ k \in Slots /\ n \in 1..made /\ n \in Tokens
      /\ a \in Creation
  <2>1. task[k].op = "user_create_token"
    <3>1. Makes(k, n)
      BY <1>8
    <3> QED
      BY <3>1 DEF Makes, Runs
  <2>2. k \in Slots
    BY <1>1, <1>3, <2>1 DEF Control, Tasks
  <2>3. k # "reaper"
    BY <2>2, IdentityAssumption
  <2>4. n \in 1..made /\ made \in 0..MaxRequests /\ a \in Creation
    BY <1>0, <1>1, <1>3, <2>1, <2>3 DEF Control, Arg
  <2> QED
    BY <2>1, <2>2, <2>4, IdentityAssumption DEF Tokens
<1>10. /\ n \notin Born /\ T[n] = None /\ \A u \in Users : <<n, u>> \notin C
       /\ wins[n] = 0 /\ n \notin dead
       /\ \A j \in Tasks : task[j] # None => n \notin task[j].hit
  <2>1. n \notin Born
    BY <1>8, <1>9 DEF Born
  <2>2. T[n] = None /\ \A u \in Users : <<n, u>> \notin C
    BY <1>1, <1>9, <2>1 DEF Good, Unborn
  <2> QED
    BY <1>1, <1>9, <2>1, <2>2 DEF Claims
<1>11. /\ Control' /\ Born \subseteq Born'
       /\ owner' # None => Good(saved.tokens, saved.consumed, Tasks \ {owner})'
       /\ \A j \in Tasks : j # k =>
              /\ task'[j] = task[j]
              /\ \A t : /\ Consumes(j, t)' <=> Consumes(j, t)
                        /\ Revokes(j, t)' <=> Revokes(j, t)
                        /\ ~Logs(j, t)
              /\ \A u : ~Purges(j, u)'
              /\ \A u, i : ~Replaces(j, u, i)'
  BY <1>4, <1>5, OwnerMoved
<1>12. n \in Born'
  <2>1. \A j \in Slots : ~Makes(j, n)'
    <3> SUFFICES ASSUME NEW j \in Slots, j # k PROVE ~Makes(j, n)'
      BY <1>8
    <3>1. task'[j] = task[j] /\ j \in Tasks
      BY <1>11 DEF Tasks
    <3>2. ~Makes(j, n)
      BY <1>0, <1>1, <1>3, <1>9 DEF Control, Makes, Runs
    <3> QED
      BY <3>1, <3>2, Alone
  <2>2. n <= made'
    BY <1>2, <1>9
  <2> QED
    BY <1>9, <2>1, <2>2 DEF Born
<1>13. /\ \A t : /\ ~Consumes(k, t)'
                 /\ Revokes(k, t)' <=> Revokes(k, t)
       /\ \A u : Purges(k, u)' => Purges(k, u)
       /\ \A u, i : /\ ~Replaces(k, u, i)'
                    /\ Replaces(k, u, i) <=> ~a.multi /\ a.user = u /\ a.kind = i
       /\ \A t \in Tokens : T[t] # None => (T[t].used <=> <<t, T[t].user>> \in C)
  BY <1>0, <1>2, <1>3, <1>4, <1>5, OwnerFacts DEF Revokes
<1>14. Claims'
  BY <1>3, <1>4, <1>5, OwnersClaims
<1>15. T \in [Tokens -> Row \cup {None}]
  BY <1>1 DEF Good
<1>16. Newest \in Nat /\ \A t \in Tokens : T[t] # None => T[t].created <= Newest
  BY <1>0, <1>15, NewestIsLast
<1>17. /\ r \in Row /\ r.user = a.user /\ r.kind = a.kind /\ r.multi = a.multi
       /\ r.created = Newest + 1 /\ ~r.used /\ ~r.revoked
  <2>1. PICK c : c = Newest + 1
    OBVIOUS
  <2>2. c \in Nat
    BY <1>16, <2>1
  <2> HIDE DEF a
  <2> QED
    BY <1>0, <1>9, <2>1, <2>2 DEF Row, Creation
<1>18. /\ N[n] = r
       /\ \A t \in Tokens : t # n => N[t] = T[t]
       /\ N \in [Tokens -> Row \cup {None}]
  BY <1>0, <1>9, <1>15, <1>17
<1>19. r # None => r.user \in Users
  BY <1>17 DEF Row
<1> HIDE DEF a, h
<1>20. Owed(N, Tasks)'
  <2>0. wins' = wins /\ dead' = dead
    BY <1>2
  <2> SUFFICES ASSUME NEW t \in Tokens
               PROVE  /\ (wins'[t] > 0 \/ \E j \in Tasks : Consumes(j, t)') => Gone(N, t)
                      /\ (t \in dead' \/ \E j \in Tasks : Revokes(j, t)') => Dead(N, t)
    BY DEF Owed, Gone, Dead
  <2>1. CASE t = n
    <3>1. ~(wins[n] > 0) /\ n \notin dead
      BY <1>10
    <3>2. \A j \in Tasks : ~Consumes(j, n) /\ ~Revokes(j, n)
      BY <1>10 DEF Consumes, Revokes, Runs
    <3> QED
      BY <1>11, <1>13, <2>0, <2>1, <3>1, <3>2
  <2>2. CASE t # n
    <3>1. N[t] = T[t]
      BY <1>18, <2>2
    <3>2. /\ (wins[t] > 0 \/ \E j \in Tasks : Consumes(j, t)) => Gone(T, t)
          /\ (t \in dead \/ \E j \in Tasks : Revokes(j, t)) => Dead(T, t)
      BY <1>1 DEF Good, Owed
    <3>3. (Gone(T, t) => Gone(N, t)) /\ (Dead(T, t) => Dead(N, t))
      BY <3>1 DEF Gone, Dead
    <3> QED
      BY <1>11, <1>13, <2>0, <3>2, <3>3
  <2> QED
    BY <2>1, <2>2
<1>21. Unborn(N, C)'
  <2>1. \A t \in Tokens \ Born' : t \in Tokens \ Born /\ t # n
    BY <1>11, <1>12
  <2>2. Unborn(T, C)
    BY <1>1 DEF Good
  <2> QED
    BY <1>18, <2>1, <2>2 DEF Unborn
<1>22. LoggedBut(N, C, Tasks)'
  <2> SUFFICES ASSUME NEW t \in Tokens, N[t] # None
               PROVE  N[t].used <=> <<t, N[t].user>> \in C
    BY DEF LoggedBut
  <2>1. CASE t = n
    BY <1>10, <1>17, <1>18, <1>19, <2>1
  <2>2. CASE t # n
    BY <1>13, <1>18, <2>2
  <2> QED
    BY <2>1, <2>2
<1>23. Cleared(N, Tasks)'
  <2>1. \A u : ~Purges(k, u)
    BY <1>9 DEF Purges, Runs
  <2>2. \A j \in Tasks : (\A u : ~Purges(j, u)') /\ (\A u, i : ~Replaces(j, u, i)')
    BY <1>11, <1>13, <2>1
  <2> QED
    BY <2>2 DEF Cleared
<1>24. Ordered(N)'
  <2> SUFFICES ASSUME NEW v \in Tokens, NEW t \in Tokens, N[v] # None, N[t] # None,
                      Open(N[v]), Open(N[t]), N[v].user = N[t].user, N[v].kind = N[t].kind,
                      N[v].created < N[t].created
               PROVE  N[t].multi
    BY DEF Ordered
  <2>1. CASE v # n /\ t # n
    <3>1. N[v] = T[v] /\ N[t] = T[t]
      BY <1>18, <2>1
    <3> QED
      BY <1>1, <3>1 DEF Good, Ordered
  <2>2. CASE v = n
    <3>1. PICK c, d, e : c = N[v].created /\ d = N[t].created /\ e = Newest
      OBVIOUS
    <3>2. c = e + 1 /\ e \in Nat
      BY <1>16, <1>17, <1>18, <2>2, <3>1
    <3>3. CASE t = n
      <4>1. c = d /\ c < d
        BY <2>2, <3>1, <3>3
      <4> QED
        BY <3>2, <4>1
    <3>4. CASE t # n
      <4>1. d = T[t].created /\ T[t] # None /\ T[t] \in Row
        BY <1>15, <1>18, <3>1, <3>4
      <4>2. d \in Nat /\ d <= e
        BY <1>16, <3>1, <4>1 DEF Row
      <4> QED
        BY <3>1, <3>2, <4>2
    <3> QED
      BY <3>3, <3>4
  <2>3. CASE v # n /\ t = n
    <3> SUFFICES ASSUME ~r.multi PROVE FALSE
      BY <1>18, <2>3
    <3>1. PICK u, i : u = T[v].user /\ i = T[v].kind
      OBVIOUS
    <3>2. N[v] = T[v] /\ u = a.user /\ i = a.kind
      BY <1>17, <1>18, <2>3, <3>1
    <3>3. Replaces(k, u, i)
      BY <1>13, <1>17, <3>2
    <3> QED
      BY <1>1, <3>1, <3>2, <3>3 DEF Good, Cleared
  <2> QED
    BY <2>1, <2>2, <2>3
<1>25. Good(N, C, Tasks)'
  BY <1>18, <1>20, <1>21, <1>22, <1>23, <1>24 DEF Good
<1>26. Good(view.tokens, view.consumed, Tasks)'
  BY <1>6, <1>25, ViewGood
<1> QED
  BY <1>7, <1>11, <1>14, <1>26 DEF IInv

------------------------------------------------------------------------------
(* Every step.                                                               *)

(* Statements about users, links and events of no consumption.               *)
Others == {"user", "items", "update", "password", "status", "delete", "event", "link", "unlink",
           "purge_links", "purge_user", "due"}
LEMMA OtherStep ==
  ASSUME IInv, Shapes, NEW k \in Tasks, NEW s \in Others, At(k, s), task' = Rest(k),
         UNCHANGED <<saved, owner, made, wins, dead>>,
         \/ view' = view
         \/ \E x : view' = WithUsers(view, x)
         \/ \E x : view' = WithLinks(view, x)
  PROVE  IInv' /\ Shapes'
<1>1. view'.tokens = view.tokens /\ view'.consumed = view.consumed /\ Shaped(view')
  BY TableSet DEF Shapes
<1>2. /\ task[k] # None /\ task[k].todo # <<>> /\ Head(task[k].todo) = s
      /\ s \notin Busy \cup {"begin", "commit"}
  BY DEF At, Others, Busy
<1>3. IInv'
  BY <1>1, <1>2, PlainStep
<1> QED
  BY <1>1, <1>3 DEF Shapes

LEMMA UsersSteps ==
  ASSUME IInv, Shapes, NEW k \in Tasks,
         \/ Items(k) \/ FindUser(k) \/ Plain(k) \/ UpdateStatus(k) \/ SoftDelete(k)
         \/ PurgeLinks(k) \/ PurgeUser(k) \/ Link(k) \/ Unlink(k)
  PROVE  IInv' /\ Shapes'
<1>1. CASE Items(k)
  <2>1. PICK new : view' = [view EXCEPT !.users = [u \in Users |->
                                IF u \in new THEN Fresh("active") ELSE @[u]]]
    BY <1>1 DEF Items, Exec, Write
  <2>2. At(k, "items") /\ task' = Rest(k) /\ UNCHANGED <<saved, owner, made, wins, dead>>
    BY <1>1 DEF Items, Exec, Write
  <2>3. \E x : view' = WithUsers(view, x)
    BY <2>1 DEF WithUsers
  <2> QED
    BY <2>2, <2>3, OtherStep DEF Others
<1>2. CASE FindUser(k)
  <2>1. /\ At(k, "user") /\ task' = Rest(k) /\ view' = view
        /\ UNCHANGED <<saved, owner, made, wins, dead>>
    BY <1>2 DEF FindUser, db, history
  <2> QED
    BY <2>1, OtherStep DEF Others
<1>3. CASE Plain(k)
  <2>1. /\ At(k, "update") \/ At(k, "event") \/ At(k, "password")
        /\ task' = Rest(k) /\ view' = view /\ UNCHANGED <<saved, owner, made, wins, dead>>
    BY <1>3 DEF Plain, Exec, Write
  <2> QED
    BY <2>1, OtherStep DEF Others
<1>4. CASE UpdateStatus(k) \/ SoftDelete(k)
  <2>1. PICK u, row : view' = SetUser(u, row)
    BY <1>4 DEF UpdateStatus, SoftDelete, Exec, Write
  <2>2. /\ At(k, "status") \/ At(k, "delete")
        /\ task' = Rest(k) /\ UNCHANGED <<saved, owner, made, wins, dead>>
    BY <1>4 DEF UpdateStatus, SoftDelete, Exec, Write
  <2>3. view' = view \/ \E x : view' = WithUsers(view, x)
    BY <2>1 DEF SetUser, WithUsers
  <2> QED
    BY <2>2, <2>3, OtherStep DEF Others
<1>5. CASE PurgeLinks(k)
  <2>1. /\ At(k, "purge_links") /\ task' = Rest(k)
        /\ UNCHANGED <<saved, owner, made, wins, dead>>
        /\ \E x : view' = WithLinks(view, x)
    BY <1>5 DEF PurgeLinks, Exec, Write, WithLinks
  <2> QED
    BY <2>1, OtherStep DEF Others
<1>6. CASE PurgeUser(k)
  <2>1. /\ At(k, "purge_user") /\ task' = Rest(k)
        /\ UNCHANGED <<saved, owner, made, wins, dead>>
        /\ \E x : view' = WithUsers(view, x)
    BY <1>6 DEF PurgeUser, Exec, Write, WithUsers
  <2> QED
    BY <2>1, OtherStep DEF Others
<1>7. CASE Link(k) \/ Unlink(k)
  <2>1. /\ At(k, "link") \/ At(k, "unlink")
        /\ task' = Rest(k) /\ UNCHANGED <<saved, owner, made, wins, dead>>
        /\ \E x : view' = WithLinks(view, x)
    BY <1>7 DEF Link, Unlink, Exec, Write, WithLinks
  <2> QED
    BY <2>1, OtherStep DEF Others
<1> QED
  BY <1>1, <1>2, <1>3, <1>4, <1>5, <1>6, <1>7

LEMMA TokensSteps ==
  ASSUME IInv, Shapes, NEW k \in Tasks,
         \/ RevokeAll(k) \/ RevokePrevious(k) \/ RevokeTokens(k) \/ PurgeTokens(k)
         \/ (k = "reaper" /\ ReapTokens)
  PROVE  IInv' /\ Shapes'
<1>1. CASE RevokeAll(k)
  <2>1. At(k, "revoke_all") /\ Revoke(k, OpenOf(Arg(k).user))
    BY <1>1 DEF RevokeAll
  <2>2. OpenOf(Arg(k).user) \in SUBSET Held(view)
    BY DEF OpenOf
  <2> QED
    BY <2>1, <2>2, RevokeStep
<1>2. CASE RevokePrevious(k)
  <2>1. PICK ts : ts = IF Arg(k).multi THEN {} ELSE Previous(k)
    OBVIOUS
  <2>2. At(k, "revoke_previous") /\ Revoke(k, ts)
    BY <1>2, <2>1 DEF RevokePrevious
  <2>3. ts \in SUBSET Held(view)
    BY <2>1 DEF Previous, OpenOf
  <2>4. ~Arg(k).multi =>
           \A t \in OpenOf(Arg(k).user) : view.tokens[t].kind = Arg(k).kind => t \in ts
    BY <2>1 DEF Previous
  <2> QED
    BY <2>2, <2>3, <2>4, RevokeStep
<1>3. CASE RevokeTokens(k)
  <2>1. PICK ts : ts = {t \in ActiveIn(view) : Arg(k).of \in {t, view.tokens[t].user}}
    OBVIOUS
  <2>2. At(k, "revoke") /\ Revoke(k, ts)
    BY <1>3, <2>1 DEF RevokeTokens
  <2>3. ts \in SUBSET Held(view)
    BY <2>1 DEF ActiveIn
  <2> QED
    BY <2>2, <2>3, RevokeStep
<1>4. CASE PurgeTokens(k)
  <2>1. PICK ts : ts = {t \in Held(view) : view.tokens[t].user = Arg(k).user}
    OBVIOUS
  <2>2. /\ At(k, "purge_tokens") /\ task' = Rest(k)
        /\ UNCHANGED <<saved, owner, now, made, wins, dead>>
        /\ view' = WithTokens(view, [t \in Tokens |->
                      IF t \in Held(view) /\ view.tokens[t].user = Arg(k).user THEN None
                      ELSE view.tokens[t]])
    BY <1>4 DEF PurgeTokens, Exec, Write, WithTokens
  <2>3. [t \in Tokens |-> IF t \in Held(view) /\ view.tokens[t].user = Arg(k).user THEN None
                          ELSE view.tokens[t]] =
        [t \in Tokens |-> IF t \in ts THEN None ELSE view.tokens[t]]
    BY <2>1
  <2>4. \A t \in Held(view) : view.tokens[t].user = Arg(k).user => t \in ts
    BY <2>1
  <2> QED
    BY <2>2, <2>3, <2>4, RemoveStep
<1>5. CASE k = "reaper" /\ ReapTokens
  <2>1. PICK ts : ts = {t \in Held(view) : /\ view.tokens[t].expires # None
                                           /\ view.tokens[t].expires <= now}
    OBVIOUS
  <2>2. /\ At(k, "expired") /\ task' = Rest(k)
        /\ UNCHANGED <<saved, owner, now, made, wins, dead>>
        /\ view' = WithTokens(view, [t \in Tokens |->
                      IF t \in Held(view) /\ view.tokens[t].expires # None
                         /\ view.tokens[t].expires <= now THEN None
                      ELSE view.tokens[t]])
    BY <1>5 DEF ReapTokens, Exec, Write, WithTokens
  <2>3. [t \in Tokens |-> IF t \in Held(view) /\ view.tokens[t].expires # None
                             /\ view.tokens[t].expires <= now THEN None
                          ELSE view.tokens[t]] =
        [t \in Tokens |-> IF t \in ts THEN None ELSE view.tokens[t]]
    BY <2>1
  <2> QED
    BY <2>2, <2>3, RemoveStep
<1> QED
  BY <1>1, <1>2, <1>3, <1>4, <1>5

(* Steps of no statement: the tables are those seen or those saved.          *)
LEMMA ControlSteps ==
  ASSUME IInv, Shapes, NEW k \in Tasks,
         \/ Begin(k) \/ Commit(k) \/ Abandon(k) \/ Answer(k) \/ (k \in Slots /\ Request(k))
         \/ Reap \/ Crash \/ Clock
  PROVE  IInv' /\ Shapes'
<1>1. CASE Begin(k)
  <2>1. IInv'
    BY <1>1, BeginStep
  <2>2. view' = view /\ saved' = view
    BY <1>1 DEF Begin
  <2> QED
    BY <2>1, <2>2 DEF Shapes
<1>2. CASE Commit(k)
  <2>1. IInv'
    BY <1>2, CommitStep
  <2>2. view' = view /\ owner' = None
    BY <1>2 DEF Commit
  <2> QED
    BY <2>1, <2>2 DEF Shapes
<1>3. CASE Abandon(k)
  <2>1. IInv'
    BY <1>3, AbandonStep
  <2>2. \/ owner = k /\ view' = saved /\ owner' = None
        \/ view' = view /\ saved' = saved /\ owner' = owner
    BY <1>3 DEF Abandon, Discard, db
  <2>3. k # None
    BY IdentityAssumption DEF Tasks
  <2> QED
    BY <2>1, <2>2, <2>3 DEF Shapes
<1>4. CASE Answer(k)
  <2>1. IInv'
    BY <1>4, AnswerStep
  <2>2. view' = view /\ saved' = saved /\ owner' = owner
    BY <1>4 DEF Answer, db
  <2> QED
    BY <2>1, <2>2 DEF Shapes
<1>5. CASE k \in Slots /\ Request(k)
  <2>1. IInv'
    BY <1>5, RequestStep
  <2>2. view' = view /\ saved' = saved /\ owner' = owner
    BY <1>5 DEF Request, db
  <2> QED
    BY <2>1, <2>2 DEF Shapes
<1>6. CASE Reap
  <2>1. IInv'
    BY <1>6, ReapStep
  <2>2. view' = view /\ saved' = saved /\ owner' = owner
    BY <1>6 DEF Reap, db
  <2> QED
    BY <2>1, <2>2 DEF Shapes
<1>7. CASE Crash
  <2>1. IInv'
    BY <1>7, CrashStep
  <2>2. \/ owner # None /\ view' = saved /\ owner' = None
        \/ view' = view /\ saved' = saved /\ owner' = owner
    BY <1>7 DEF Crash, Discard, db
  <2> QED
    BY <2>1, <2>2 DEF Shapes
<1>8. CASE Clock
  <2>1. UNCHANGED <<view, saved, owner, task, made, wins, dead>>
    BY <1>8 DEF Clock, db, history
  <2> QED
    BY <2>1, IdleStep DEF Shapes
<1> QED
  BY <1>1, <1>2, <1>3, <1>4, <1>5, <1>6, <1>7, <1>8

LEMMA EveryStep ==
  ASSUME IInv, Shapes, [Next]_vars
  PROVE  IInv' /\ Shapes'
<1>1. ASSUME NEW k \in Tasks, Step(k) \/ Fault(k)
      PROVE  IInv' /\ Shapes'
  <2>1. CASE Begin(k) \/ Commit(k) \/ Answer(k)
    BY <2>1, ControlSteps
  <2>2. CASE Refused(k) \/ Fault(k)
    <3>1. Abandon(k)
      BY <2>2 DEF Refused, Fault
    <3> QED
      BY <3>1, ControlSteps
  <2>3. CASE \/ Items(k) \/ FindUser(k) \/ Plain(k) \/ UpdateStatus(k) \/ SoftDelete(k)
             \/ PurgeLinks(k) \/ PurgeUser(k) \/ Link(k) \/ Unlink(k)
    BY <2>3, UsersSteps
  <2>4. CASE RevokeAll(k) \/ RevokePrevious(k) \/ RevokeTokens(k) \/ PurgeTokens(k)
    BY <2>4, TokensSteps
  <2>5. CASE PurgeEvents(k)
    BY <2>5, PurgeEventsStep
  <2>6. CASE InsertToken(k)
    BY <2>6, InsertStep
  <2>7. CASE UseToken(k)
    BY <2>7, UseHit, UseMiss
  <2>8. CASE LogConsumed(k)
    BY <2>8, LogStep
  <2> QED
    BY <1>1, <2>1, <2>2, <2>3, <2>4, <2>5, <2>6, <2>7, <2>8 DEF Step
<1>2. "reaper" \in Tasks /\ Slots \subseteq Tasks
  BY DEF Tasks
<1>3. CASE ReapStatuses
  <2>1. /\ At("reaper", "due") /\ task' = Rest("reaper")
        /\ UNCHANGED <<saved, owner, made, wins, dead>>
        /\ \E x : view' = WithUsers(view, x)
    BY <1>3 DEF ReapStatuses, Exec, Write, WithUsers
  <2> QED
    BY <1>2, <2>1, OtherStep DEF Others
<1>4. CASE ReapTokens
  BY <1>2, <1>4, TokensSteps
<1>5. CASE Reap \/ Crash \/ Clock
  BY <1>2, <1>5, ControlSteps
<1>6. CASE \E k \in Slots : Request(k)
  BY <1>2, <1>6, ControlSteps
<1>7. CASE UNCHANGED vars
  <2>1. UNCHANGED <<view, saved, owner, task, made, wins, dead>>
    BY <1>7 DEF vars
  <2> QED
    BY <2>1, IdleStep DEF Shapes
<1> QED
  BY <1>1, <1>3, <1>4, <1>5, <1>6, <1>7 DEF Next, ReaperStep

(* Before the first request: nobody has asked, nothing is promised.          *)
LEMMA InitInv ==
  ASSUME Init
  PROVE  IInv /\ Shapes
<1>1. PICK us \in [Users -> {None, Fresh("active")}], first \in Token \cup {None} :
        /\ first # None => Open(first)
        /\ view = [users |-> us, tokens |-> [t \in Tokens |-> IF t = 0 THEN first ELSE None],
                   links |-> [p \in Providers |-> None], consumed |-> {}]
  BY DEF Init
<1>2. /\ made = 0 /\ owner = None /\ task = [k \in Tasks |-> None]
      /\ wins = [t \in Tokens |-> 0] /\ dead = {}
  BY DEF Init
<1>3. PICK T : T = [t \in Tokens |-> IF t = 0 THEN first ELSE None]
  OBVIOUS
<1>4. view.tokens = T /\ view.consumed = {} /\ Shapes
  BY <1>1, <1>2, <1>3 DEF Shapes, Shaped
<1>5. /\ \A k \in Tasks : task[k] = None
      /\ None \notin Tasks
  BY <1>2, IdentityAssumption DEF Tasks
<1>6. \A k \in Tasks : /\ \A t : ~Consumes(k, t) /\ ~Revokes(k, t) /\ ~Logs(k, t) /\ ~Makes(k, t)
                       /\ \A u : ~Purges(k, u)
                       /\ \A u, i : ~Replaces(k, u, i)
  BY <1>5 DEF Consumes, Revokes, Logs, Makes, Purges, Replaces, Runs
<1>7. Control
  <2>1. made \in 0..MaxRequests
    BY <1>2, IdentityAssumption
  <2>2. task \in [Tasks -> Pending \cup {None}]
    BY <1>2
  <2>3. \A j, k \in Slots : task[j] = None
    BY <1>5 DEF Tasks
  <2>4. \A k \in Tasks : owner # k
    BY <1>2, <1>5
  <2> QED
    BY <1>2, <1>5, <2>1, <2>2, <2>3, <2>4 DEF Control
<1>8. \A t \in Tokens : t # 0 => t \notin Born
  BY <1>2, IdentityAssumption DEF Born, Tokens
<1>9. 0 \in Tokens => 0 \in Born
  <2>1. \A k \in Slots : k \in Tasks
    BY DEF Tasks
  <2> QED
    BY <1>2, <1>6, <2>1 DEF Born
<1>10. Claims
  <2>1. wins \in [Tokens -> {0, 1}] /\ \A t \in Tokens : wins[t] = 0
    BY <1>2
  <2> QED
    BY <1>2, <1>5, <1>6, <2>1 DEF Claims
<1>11. first # None => first \in Row /\ ~first.used /\ ~first.revoked
  <2>1. Token \subseteq Row
    BY IdentityAssumption DEF Token, Row
  <2> QED
    BY <1>1, <2>1 DEF Open
<1>12. /\ T \in [Tokens -> Row \cup {None}]
       /\ \A t \in Tokens : T[t] # None => (t = 0 /\ ~T[t].used)
  BY <1>3, <1>11
<1>13. Good(T, {}, Tasks)
  <2>1. Owed(T, Tasks)
    BY <1>2, <1>6 DEF Owed
  <2>2. Unborn(T, {})
    BY <1>9, <1>12 DEF Unborn
  <2>3. LoggedBut(T, {}, Tasks)
    BY <1>12 DEF LoggedBut
  <2>4. Cleared(T, Tasks)
    BY <1>6 DEF Cleared
  <2>5. Ordered(T)
    <3> SUFFICES ASSUME NEW s \in Tokens, NEW t \in Tokens, T[s] # None, T[t] # None,
                        T[s].created < T[t].created
                 PROVE  FALSE
      BY DEF Ordered
    <3>1. s = t
      BY <1>12
    <3>2. T[s] \in Row
      BY <1>12
    <3>3. PICK c : c = T[s].created
      OBVIOUS
    <3>4. c \in Nat /\ c < c
      BY <3>1, <3>2, <3>3 DEF Row
    <3> QED
      BY <3>4
  <2> QED
    BY <1>12, <2>1, <2>2, <2>3, <2>4, <2>5 DEF Good
<1>14. Good(view.tokens, view.consumed, Tasks)
  BY <1>4, <1>13
<1> QED
  BY <1>2, <1>4, <1>7, <1>10, <1>14 DEF IInv

(* The invariant holds in every state.                                       *)
THEOREM Invariant == Spec => [](IInv /\ Shapes)
<1>1. Init => IInv /\ Shapes
  BY InitInv
<1>2. IInv /\ Shapes /\ [Next]_vars => (IInv /\ Shapes)'
  BY EveryStep
<1> QED
  BY <1>1, <1>2, PTL DEF Spec

(* What is committed, and who it may still owe an event: nobody.             *)
LEMMA CommittedGood ==
  ASSUME IInv, NEW T, NEW C, T = Committed.tokens, C = Committed.consumed
  PROVE  \E K \in SUBSET Tasks : Good(T, C, K) /\ \A k \in K, t \in Tokens : ~Logs(k, t)
<1>1. Control /\ None \notin Tasks
  BY IdentityAssumption DEF IInv, Tasks
<1>2. CASE owner = None
  <2>1. Good(T, C, Tasks)
    BY <1>2 DEF Committed, IInv
  <2>2. \A k \in Tasks, t \in Tokens : ~Logs(k, t)
    BY <1>1, <1>2, OwnersOnly
  <2> QED
    BY <2>1, <2>2
<1>3. CASE owner # None
  <2>1. PICK o : o = owner
    OBVIOUS
  <2>2. Good(T, C, Tasks \ {o})
    BY <1>3, <2>1 DEF Committed, IInv
  <2>3. \A k \in Tasks \ {o}, t \in Tokens : ~Logs(k, t)
    BY <1>1, <2>1, OwnersOnly
  <2> QED
    BY <2>2, <2>3
<1> QED
  BY <1>2, <1>3

(* A token is consumed exactly once: however many requests ask for it at a   *)
(* time, whatever fails between the statements of execute_user_consume_token *)
(* and whether or not the process stops, at most one answer says "consumed", *)
(* the committed token then is used, and used tokens are those with an event. *)
THEOREM TokensConsumedOnce == Spec => []ConsumedOnce
<1>1. ASSUME IInv
      PROVE  ConsumedOnce
  <2>1. PICK T, C : T = Committed.tokens /\ C = Committed.consumed
    OBVIOUS
  <2>2. PICK K \in SUBSET Tasks : Good(T, C, K) /\ \A k \in K, t \in Tokens : ~Logs(k, t)
    BY <1>1, <2>1, CommittedGood
  <2>3. \A t \in Tokens : wins[t] > 0 => (wins[t] = 1 /\ (T[t] # None => T[t].used))
    BY <1>1, <2>2 DEF IInv, Claims, Good, Owed, Gone
  <2>4. \A t \in Tokens : T[t] # None => (T[t].used <=> <<t, T[t].user>> \in C)
    BY <2>2 DEF Good, LoggedBut
  <2>5. Logged(Committed)
    BY <2>1, <2>4 DEF Logged, Held
  <2> QED
    BY <2>1, <2>3, <2>5 DEF ConsumedOnce
<1> QED
  BY <1>1, Invariant, PTL

(* What an answered request revoked (user_revoke_token, the deletion of the  *)
(* user, the creation of a newer token) is revoked in what is committed, or  *)
(* gone: no later statement, rollback or restart brings it back.             *)
THEOREM RevocationsAlwaysLast == Spec => []RevocationsLast
<1>1. ASSUME IInv
      PROVE  RevocationsLast
  <2>1. PICK T, C : T = Committed.tokens /\ C = Committed.consumed
    OBVIOUS
  <2>2. PICK K \in SUBSET Tasks : Good(T, C, K)
    BY <1>1, <2>1, CommittedGood
  <2>3. \A t \in dead : t \in Tokens
    <3>1. dead \subseteq Tokens
      BY <1>1 DEF IInv, Claims
    <3> QED
      BY <3>1
  <2>4. \A t \in dead : T[t] = None \/ T[t].revoked
    BY <2>2, <2>3 DEF Good, Owed, Dead
  <2> QED
    BY <2>1, <2>4 DEF RevocationsLast
<1> QED
  BY <1>1, Invariant, PTL

(* Two tokens of a user and kind are active together only when the later one *)
(* was created with allow_multi: execute_user_create_token revokes, in the   *)
(* transaction that inserts the new one, those that were open.               *)
THEOREM OneActiveToken == Spec => []SingleActive
<1>1. ASSUME IInv
      PROVE  SingleActive
  <2>1. PICK T, C : T = Committed.tokens /\ C = Committed.consumed
    OBVIOUS
  <2>2. PICK K \in SUBSET Tasks : Good(T, C, K)
    BY <1>1, <2>1, CommittedGood
  <2>3. \A t \in ActiveIn(Committed) : t \in Tokens /\ T[t] # None /\ Open(T[t])
    BY <2>1 DEF ActiveIn, Held, Active
  <2>4. ASSUME NEW t1 \in ActiveIn(Committed), NEW t2 \in ActiveIn(Committed),
               T[t1].user = T[t2].user, T[t1].kind = T[t2].kind, T[t1].created < T[t2].created
        PROVE  T[t2].multi
    BY <2>2, <2>3, <2>4 DEF Good, Ordered
  <2> QED
    BY <2>1, <2>4 DEF SingleActive
<1> QED
  BY <1>1, Invariant, PTL
===============================================================================
