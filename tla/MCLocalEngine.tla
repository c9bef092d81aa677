----------------------------- MODULE MCLocalEngine -----------------------------
(* The local engine on small instances (LocalEngine, the module extended) and *)
(* the end of the writes that the coordinator sends it: WriteQueue, with two  *)
(* requests for one document, coordinators that retire, failures and          *)
(* time-outs.  A behaviour runs the one "part" names and leaves the variables *)
(* of the other as they begin.  Part "pool": three databases, coordinated     *)
(* inserts and delete_db.  Part "mixed": every operation and the backups on   *)
(* one database, as long as no write holds a stale connection.  Part "free":   *)
(* all of them, and idle closes, without a condition.                         *)
EXTENDS LocalEngine, TLC

CONSTANTS d1, d2, d3, t1, t2, req1, req2,
  Parts   \* those that run

VARIABLES
  part,
  qCurrent, qMade, qQueue, qClosed, qWorker, qPending, qRevision, qDurable, qPc, qMode,
  qSender, qAnswer, qReader, qApplied, qVoid, qAfter

qVars == <<qCurrent, qMade, qQueue, qClosed, qWorker, qPending, qRevision, qDurable, qPc,
           qMode, qSender, qAnswer, qReader, qApplied, qVoid, qAfter>>

Q == INSTANCE WriteQueue WITH
       Requests <- {req1, req2}, Deletes <- {}, Modes <- {"accepted", "prepared", "committed"},
       Docs <- {d1}, DocOf <- [r \in {req1, req2} |-> d1], Readers <- {}, Capacity <- 1,
       IdleRetires <- TRUE, Fails <- TRUE, TimesOut <- TRUE, MaxGens <- 4,
       current <- qCurrent, made <- qMade, queue <- qQueue, closed <- qClosed,
       worker <- qWorker, pending <- qPending, revision <- qRevision, durable <- qDurable,
       pc <- qPc, mode <- qMode, sender <- qSender, answer <- qAnswer, reader <- qReader,
       applied <- qApplied, void <- qVoid, after <- qAfter

ASSUME LocalEngineAssumption

\* Tasks are alike, and so are the requests: of their permutations one will do.
FreeTaskFirst == task[t2] = Resting /\ task[t1] = Resting => task'[t2] = Resting
Descending ==
  {<<"prepared", "accepted">>, <<"committed", "accepted">>, <<"committed", "prepared">>}

Started(t) == task[t] = Resting /\ task'[t] # Resting
PoolRuns ==
  /\ part \in {"pool", "free"} /\ Next /\ FreeTaskFirst /\ UNCHANGED <<part, qVars>>
  /\ part = "pool" => \A t \in Tasks : Started(t) => task'[t].op \in Writes \cup {"close_idle"}
\* Bound: ages end at one second, at which a backup is due again.
MixedRuns ==
  /\ part = "mixed" /\ Next /\ OnCurrentFile' /\ FreeTaskFirst /\ UNCHANGED <<part, qVars>>
  /\ \A t \in Tasks : Started(t) => task'[t].db = d1 /\ task'[t].op # "close_idle"
  /\ idle'[d1] \in {0, 1, None} /\ lastRun'[d1] \in {0, 1, None}
QueueRuns == part = "queue" /\ Q!Next /\ UNCHANGED <<part, vars>>

LocalInit ==
  /\ part \in Parts /\ Init /\ Q!Init
  /\ IF part = "queue" THEN <<qMode[req1], qMode[req2]>> \notin Descending
     ELSE \A r \in {req1, req2} : qMode[r] = "accepted"

(* WriteQueue's fairness: requests and tasks are futures that are polled.     *)
QueueFair ==
  /\ \A r \in {req1, req2} : WF_qVars(part = "queue" /\ Q!Request(r))
  /\ \A g \in 1..4 : WF_qVars(part = "queue" /\ Q!Task(g))

LocalSpec == LocalInit /\ [][PoolRuns \/ MixedRuns \/ QueueRuns]_<<part, vars, qVars>> /\ QueueFair

(* Every write is answered, and one answered as queued takes effect or fails. *)
WritesConclude == Q!WritesConclude
===============================================================================
