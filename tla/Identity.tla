------------------------------- MODULE Identity -------------------------------
(****************************************************************************)
(* The identity store of ONE database (identity_ops.rs): users, tokens,      *)
(* provider links and their events, written by request handlers and by the   *)
(* reaper, a statement at a time, over the database's ONE SQLite connection   *)
(* (storage/local.rs clones the same connection for every task).             *)
(*                                                                           *)
(* A connection has at most one transaction: while a task's is open, BEGIN   *)
(* of another fails, and the statements of tasks without a transaction are   *)
(* executed inside it and share its fate.                                    *)
(*                                                                           *)
(* With a coordinator one request runs at a time; KOKOADB_WRITE_MODE=direct  *)
(* runs as many as arrive.                                                   *)
(****************************************************************************)
EXTENDS Integers, Sequences, FiniteSets, FiniteSetsExt

CONSTANTS
  Users, Kinds,
  Providers,    \* (provider, provider_user_id) pairs
  Statuses,     \* the application's statuses, "deleted" apart
  Slots,        \* requests that run at a time: one, or several in direct mode
  Operations,   \* the requests that arrive: subset of DOMAIN Script
  ForeignKeys,  \* SQLite enforces them (depends on how it was built)
  Faults,       \* any statement may fail
  MaxRequests,  \* bound: requests ever; a token is the number of its request
  MaxNow,       \* bound: clock
  None

VARIABLES
  view,      \* what the connection sees: the tables
  saved,     \* what was committed when the open transaction began
  owner,     \* the task whose transaction is open, or None
  task,      \* per slot, and for the reaper, the statements left and the locals
  now,
  made,      \* requests so far
  inside,    \* history: requests with changes in another task's open transaction
  wins,      \* history: answers consumed: true per token
  dead       \* history: tokens revoked by a request that was answered

db == <<view, saved, owner>>
history == <<inside, wins, dead>>
vars == <<view, saved, owner, task, now, made, inside, wins, dead>>

Tokens == 0..MaxRequests  \* 0 is there from the start
Tasks == Slots \cup {"reaper"}
Committed == IF owner = None THEN view ELSE saved

(* A task that runs: its request and what it has left of its statements.      *)
Arguments ==
  [items : SUBSET Users, strict : BOOLEAN] \cup [user : Users] \cup
  [user : Users, status : Statuses, next : Statuses \cup {None},
   until : (1..MaxNow) \cup {None}] \cup
  [user : Users \cup {None}, provider : Providers] \cup
  [user : Users, kind : Kinds, multi : BOOLEAN, expires : (1..MaxNow) \cup {None}] \cup
  [token : Tokens] \cup [of : Tokens \cup Users] \cup {None}
Statements ==
  {"begin", "commit", "user", "items", "update", "password", "status", "delete", "event",
   "link", "unlink", "token", "use", "consumed", "revoke", "revoke_all", "revoke_previous",
   "purge_tokens", "purge_links", "purge_events", "purge_user", "due", "expired"}
Pending ==
  [op : Operations \cup {"reaper"}, arg : Arguments, todo : Seq(Statements), n : Tokens,
   hit : SUBSET Tokens]

ASSUME IdentityAssumption ==
  /\ MaxRequests \in Nat /\ MaxNow \in Nat
  /\ {ForeignKeys, Faults} \subseteq BOOLEAN
  /\ "reaper" \notin Slots /\ None \notin Slots \cup {"reaper"} \cup Users \cup Pending
  /\ Operations \subseteq {"user_create", "user_update", "user_update_password",
       "user_update_status", "soft_delete", "purge", "user_link_provider",
       "user_unlink_provider", "user_create_token", "user_consume_token", "user_revoke_token"}

User == {r \in [status : Statuses \cup {"deleted"}, next : Statuses \cup {None},
                until : (1..MaxNow) \cup {None}] : (r.next = None) <=> (r.until = None)}
Token == [user : Users, kind : Kinds, multi : BOOLEAN, expires : (1..MaxNow) \cup {None},
          created : 1..(MaxRequests + 1), used : BOOLEAN, revoked : BOOLEAN]
Fresh(s) == [status |-> s, next |-> None, until |-> None]

Future == {None} \cup {e \in 1..MaxNow : e > now}
Open(t) == ~t.used /\ ~t.revoked
Active(t) == Open(t) /\ (t.expires = None \/ t.expires > now)
Held(v) == {t \in Tokens : v.tokens[t] # None}
ActiveIn(v) == {t \in Held(v) : Active(v.tokens[t])}

Init ==
  /\ now = 0 /\ made = 0
  /\ \E us \in [Users -> {None, Fresh("active")}], first \in Token \cup {None} :
       /\ first # None => /\ us[first.user] # None /\ Open(first)
                          /\ first.created = 1 /\ first.expires = None /\ ~first.multi
       /\ view = [users |-> us, tokens |-> [t \in Tokens |-> IF t = 0 THEN first ELSE None],
                  links |-> [p \in Providers |-> None], consumed |-> {}]
  /\ saved = None /\ owner = None
  /\ task = [k \in Tasks |-> None]
  /\ inside = {} /\ wins = [t \in Tokens |-> 0] /\ dead = {}

------------------------------------------------------------------------------
(* The statements of each handler, in order.                                 *)
ConsumeScript == <<"begin", "use", "consumed", "commit">>
(* One UPDATE would need no transaction. *)
RevokeScriptBare == <<"revoke", "event">>
RevokeScript == <<"begin", "revoke", "event", "commit">>
Script ==
  [ user_create          |-> <<"begin", "items", "commit">>,
    user_update          |-> <<"user", "update", "event">>,
    user_update_password |-> <<"begin", "password", "commit">>,
    user_update_status   |-> <<"user", "status", "event">>,
    soft_delete          |-> <<"begin", "delete", "revoke_all", "commit", "event">>,
    purge                |-> <<"begin", "purge_tokens", "purge_links", "purge_events",
                               "purge_user", "commit">>,
    user_link_provider   |-> <<"user", "link", "event">>,
    user_unlink_provider |-> <<"unlink", "event">>,
    user_create_token    |-> <<"begin", "revoke_previous", "token", "commit", "event">>,
    user_consume_token   |-> ConsumeScript,
    user_revoke_token    |-> RevokeScript ]
ReaperScript == <<"begin", "due", "expired", "commit">>


At(k, s) == task[k] # None /\ task[k].todo # <<>> /\ Head(task[k].todo) = s
Arg(k) == task[k].arg
Rest(k) == [task EXCEPT ![k].todo = Tail(@)]
UserRow(k) == view.users[Arg(k).user]
Known(k) == UserRow(k) # None

(* A write of a task without the transaction joins the one that is open; one  *)
(* that changes no row has nothing to lose.                                  *)
Write(k, v, more) ==
  /\ view' = v /\ task' = more
  /\ inside' = IF owner \in {None, k} \/ v = view THEN inside ELSE inside \cup {task[k].n}
  /\ UNCHANGED <<saved, owner, now, made, wins, dead>>
Exec(k, v) == Write(k, v, Rest(k))

------------------------------------------------------------------------------
(* Transactions.  A handler that fails drops its transaction: ROLLBACK.      *)
Begin(k) ==
  /\ At(k, "begin") /\ owner = None
  /\ owner' = k /\ saved' = view /\ task' = Rest(k)
  /\ UNCHANGED <<view, now, made, history>>
Commit(k) ==
  /\ At(k, "commit")
  /\ owner' = None /\ saved' = None /\ inside' = {} /\ task' = Rest(k)
  /\ UNCHANGED <<view, now, made, wins, dead>>
Discard ==
  /\ view' = saved /\ saved' = None /\ owner' = None
  /\ inside' = {}
(* Its client is told of the error: what it wrote is not promised to last.   *)
Abandon(k) ==
  /\ IF owner = k THEN Discard
     ELSE UNCHANGED db /\ inside' = inside \ {task[k].n}
  /\ task' = [task EXCEPT ![k] = None]
  /\ UNCHANGED <<now, made, wins, dead>>
Fault(k) == Faults /\ task[k] # None /\ task[k].todo # <<>> /\ Abandon(k)

(* A constraint or a check of the handler refuses the statement.             *)
Refused(k) ==
  /\ \/ At(k, "begin") /\ owner # None
     \/ At(k, "user") /\ ~Known(k)
     \/ At(k, "password") /\ ~Known(k)
     \/ At(k, "link") /\ (view.links[Arg(k).provider] # None \/ (ForeignKeys /\ ~Known(k)))
     \/ At(k, "token") /\ ForeignKeys /\ ~Known(k)
     \/ At(k, "items") /\ Arg(k).strict /\ \E u \in Arg(k).items : view.users[u] # None
  /\ Abandon(k)

------------------------------------------------------------------------------
(* execute_user_create: the users of a batch; on_error "continue" leaves out *)
(* those that are refused, each under a savepoint of its own.                *)
Items(k) ==
  LET new == {u \in Arg(k).items : view.users[u] = None} IN
  /\ At(k, "items") /\ (Arg(k).strict => new = Arg(k).items)
  /\ Exec(k, [view EXCEPT !.users = [u \in Users |->
                 IF u \in new THEN Fresh("active") ELSE @[u]]])

FindUser(k) == /\ At(k, "user") /\ Known(k) /\ task' = Rest(k)
               /\ UNCHANGED <<db, now, made, history>>
(* Columns no property tells apart, and events but those of consumptions.    *)
Plain(k) ==
  /\ At(k, "update") \/ At(k, "event") \/ (At(k, "password") /\ Known(k))
  /\ Exec(k, view)
SetUser(u, row) == IF view.users[u] = None THEN view ELSE [view EXCEPT !.users[u] = row]
UpdateStatus(k) ==
  /\ At(k, "status")
  /\ Exec(k, SetUser(Arg(k).user, [status |-> Arg(k).status, next |-> Arg(k).next,
                                   until |-> Arg(k).until]))
SoftDelete(k) == At(k, "delete") /\ Exec(k, SetUser(Arg(k).user, Fresh("deleted")))

RevokedIn(v, ts) == [v EXCEPT !.tokens = [t \in Tokens |->
                       IF t \in ts THEN [@[t] EXCEPT !.revoked = TRUE] ELSE @[t]]]
Revoke(k, ts) ==
  /\ Write(k, RevokedIn(view, ts), [Rest(k) EXCEPT ![k].hit = ts])
OpenOf(u) == {t \in Held(view) : view.tokens[t].user = u /\ Open(view.tokens[t])}
RevokeAll(k) == At(k, "revoke_all") /\ Revoke(k, OpenOf(Arg(k).user))

PurgeTokens(k) ==
  /\ At(k, "purge_tokens")
  /\ Exec(k, [view EXCEPT !.tokens = [t \in Tokens |->
                IF t \in Held(view) /\ @[t].user = Arg(k).user THEN None ELSE @[t]]])
PurgeLinks(k) ==
  /\ At(k, "purge_links")
  /\ Exec(k, [view EXCEPT !.links = [p \in Providers |->
                IF @[p] = Arg(k).user THEN None ELSE @[p]]])
PurgeEvents(k) ==
  /\ At(k, "purge_events")
  /\ Exec(k, [view EXCEPT !.consumed = {e \in @ : e[2] # Arg(k).user}])
PurgeUser(k) ==
  /\ At(k, "purge_user")
  /\ Exec(k, [view EXCEPT !.users[Arg(k).user] = None])

Link(k) ==
  /\ At(k, "link") /\ view.links[Arg(k).provider] = None /\ (ForeignKeys => Known(k))
  /\ Exec(k, [view EXCEPT !.links[Arg(k).provider] = Arg(k).user])
(* The request may name the user, who must then be the one of the link.      *)
Unlink(k) ==
  /\ At(k, "unlink")
  /\ Exec(k, [view EXCEPT !.links[Arg(k).provider] =
                IF Arg(k).user \in {None, @} THEN None ELSE @])

(* Tokens that several of a kind were allowed for are left alone. *)
PreviousSingle(k) == {t \in OpenOf(Arg(k).user) : view.tokens[t].kind = Arg(k).kind
                                                 /\ ~view.tokens[t].multi}
Previous(k) == {t \in OpenOf(Arg(k).user) : view.tokens[t].kind = Arg(k).kind}
RevokePrevious(k) ==
  /\ At(k, "revoke_previous")
  /\ Revoke(k, IF Arg(k).multi THEN {} ELSE Previous(k))
Newest == Max({0} \cup {view.tokens[t].created : t \in Held(view)})
InsertToken(k) ==
  /\ At(k, "token") /\ (ForeignKeys => Known(k))
  /\ Exec(k, [view EXCEPT !.tokens[task[k].n] =
                [user |-> Arg(k).user, kind |-> Arg(k).kind, multi |-> Arg(k).multi,
                 expires |-> Arg(k).expires, created |-> Newest + 1,
                 used |-> FALSE, revoked |-> FALSE]])

(* UPDATE ... RETURNING; a token that is not there commits and says so.      *)
MayUseOpen(t) == view.tokens[t] # None /\ ~view.tokens[t].revoked
MayUse(t) == view.tokens[t] # None /\ Active(view.tokens[t])
UseToken(k) ==
  LET t == Arg(k).token IN
  /\ At(k, "use")
  /\ Write(k, IF MayUse(t) THEN [view EXCEPT !.tokens[t].used = TRUE] ELSE view,
           IF MayUse(t) THEN [Rest(k) EXCEPT ![k].hit = {t}]
           ELSE [task EXCEPT ![k].todo = <<"commit">>])
LogConsumed(k) ==
  /\ At(k, "consumed")
  /\ Exec(k, [view EXCEPT !.consumed =
               @ \cup {<<t, view.tokens[t].user>> : t \in task[k].hit \cap Held(view)}])
RevokeTokens(k) ==
  /\ At(k, "revoke")
  /\ Revoke(k, {t \in ActiveIn(view) : Arg(k).of \in {t, view.tokens[t].user}})

------------------------------------------------------------------------------
(* reap_conn, the part that is about users and tokens.                       *)
DueLate(u) == view.users[u] # None /\ view.users[u].next # None /\ view.users[u].until < now
Due(u) == view.users[u] # None /\ view.users[u].next # None /\ view.users[u].until <= now
ReapStatuses ==
  /\ At("reaper", "due")
  /\ Exec("reaper", [view EXCEPT !.users = [u \in Users |->
                       IF Due(u) THEN Fresh(@[u].next) ELSE @[u]]])
ReapTokens ==
  /\ At("reaper", "expired")
  /\ Exec("reaper", [view EXCEPT !.tokens = [t \in Tokens |->
                       IF t \in Held(view) /\ @[t].expires # None /\ @[t].expires <= now
                       THEN None ELSE @[t]]])

Reap ==
  /\ task["reaper"] = None
  /\ task' = [task EXCEPT !["reaper"] = [todo |-> ReaperScript, arg |-> None, n |-> 0, hit |-> {},
                                         op |-> "reaper"]]
  /\ UNCHANGED <<db, now, made, history>>

(* What a request may ask for.                                               *)
Payloads(op) ==
  CASE op = "user_create" ->
         {[items |-> us, strict |-> s] : us \in SUBSET Users \ {{}}, s \in BOOLEAN}
    [] op = "user_update_status" ->
         {p \in [user : Users, status : Statuses, next : Statuses \cup {None}, until : Future] :
            (p.next = None) <=> (p.until = None)}
    [] op = "user_link_provider" -> [user : Users, provider : Providers]
    [] op = "user_unlink_provider" -> [user : Users \cup {None}, provider : Providers]
    [] op = "user_create_token" ->
         [user : Users, kind : Kinds, multi : BOOLEAN, expires : Future]
    [] op = "user_consume_token" -> [token : 0..made]
    [] op = "user_revoke_token" -> [of : 0..made \cup Users]
    [] OTHER -> [user : Users]
Request(k) ==
  /\ task[k] = None /\ made < MaxRequests
  /\ \E op \in Operations : \E p \in Payloads(op) :
       task' = [task EXCEPT ![k] = [todo |-> Script[op], arg |-> p, n |-> made + 1, hit |-> {},
                                    op |-> op]]
  /\ made' = made + 1
  /\ UNCHANGED <<db, now, history>>
Answer(k) ==
  /\ task[k] # None /\ task[k].todo = <<>>
  /\ task' = [task EXCEPT ![k] = None]
  /\ wins' = IF task[k].op = "user_consume_token"
             THEN [t \in Tokens |-> wins[t] + (IF t \in task[k].hit THEN 1 ELSE 0)] ELSE wins
  /\ dead' = IF task[k].op # "user_consume_token"
             THEN dead \cup task[k].hit ELSE dead
  /\ UNCHANGED <<db, now, made, inside>>

(* The process stops: an open transaction is not there when it starts again. *)
Crash ==
  /\ Faults /\ \E k \in Tasks : task[k] # None /\ task[k].todo # <<>>
  /\ IF owner = None THEN UNCHANGED <<db, inside>> ELSE Discard
  /\ task' = [k \in Tasks |-> None]
  /\ UNCHANGED <<now, made, wins, dead>>
Clock == now < MaxNow /\ now' = now + 1 /\ UNCHANGED <<db, task, made, history>>

Step(k) ==
  \/ Begin(k) \/ Commit(k) \/ Refused(k) \/ Answer(k)
  \/ Items(k) \/ FindUser(k) \/ Plain(k) \/ UpdateStatus(k) \/ SoftDelete(k) \/ RevokeAll(k)
  \/ PurgeTokens(k) \/ PurgeLinks(k) \/ PurgeEvents(k) \/ PurgeUser(k) \/ Link(k) \/ Unlink(k)
  \/ RevokePrevious(k) \/ InsertToken(k) \/ UseToken(k) \/ LogConsumed(k) \/ RevokeTokens(k)
ReaperStep == ReapStatuses \/ ReapTokens
Next ==
  \/ \E k \in Slots : Request(k)
  \/ \E k \in Tasks : Step(k) \/ Fault(k)
  \/ Reap \/ ReaperStep \/ Crash \/ Clock
Spec == Init /\ [][Next]_vars

(* The workers go on; what makes statements fail does not go on for ever.    *)
Fairness ==
  /\ \A k \in Tasks : WF_vars(Step(k))
  /\ WF_vars(ReaperStep) /\ WF_vars(Reap) /\ WF_vars(Clock)
  /\ <>[][~Crash /\ \A k \in Tasks : ~Fault(k)]_vars

------------------------------------------------------------------------------
TypeOK ==
  /\ view.users \in [Users -> User \cup {None}]
  /\ view.tokens \in [Tokens -> Token \cup {None}]
  /\ view.links \in [Providers -> Users \cup {None}]
  /\ view.consumed \subseteq Tokens \X Users
  /\ task \in [Tasks -> Pending \cup {None}]
  /\ owner \in Tasks \cup {None} /\ (saved = None) = (owner = None)
  /\ now \in 0..MaxNow /\ made \in 0..MaxRequests

(* A consumption and its event are committed together (DOCUMENTATION.md:4357)*)
Logged(v) == \A t \in Held(v) : v.tokens[t].used <=> <<t, v.tokens[t].user>> \in v.consumed

(* A token is consumed exactly once (DOCUMENTATION.md:866, 4357), whatever   *)
(* requests, failures and restarts come between, and with its event.         *)
ConsumedOnce ==
  /\ \A t \in Tokens : wins[t] > 0 =>
       wins[t] = 1 /\ (Committed.tokens[t] # None => Committed.tokens[t].used)
  /\ Logged(Committed)

(* Of two active tokens of a user and kind the later was created allow_multi *)
(* (DOCUMENTATION.md:4326).                                                  *)
SingleActive ==
  \A t1, t2 \in ActiveIn(Committed) :
    LET a == Committed.tokens[t1]
        b == Committed.tokens[t2]
    IN  (a.user = b.user /\ a.kind = b.kind /\ a.created < b.created) => b.multi

(* What a request that was answered revoked (user_revoke_token, user_delete, *)
(* the creation of a newer token) stays revoked.                             *)
RevocationsLast ==
  \A t \in dead : Committed.tokens[t] = None \/ Committed.tokens[t].revoked

(* A status with a term ends (DOCUMENTATION.md:4299).                        *)
TimedStatusEnds ==
  \A u \in Users : (view.users[u] # None /\ view.users[u].next # None)
                     ~> (view.users[u] = None \/ view.users[u].next = None)

(* What a request changed before it was answered (with success: a failed one *)
(* is taken out of "inside") has been persisted, and no rollback takes it    *)
(* away (DOCUMENTATION.md:323).                                              *)
Running(n) == \E k \in Tasks : task[k] # None /\ task[k].n = n
AckedPersisted == [][Discard => \A n \in inside : Running(n)]_vars
===============================================================================
