------------------------------- MODULE MCServices -------------------------------
(* The safety of what requests use: the identity store (Identity, the module  *)
(* extended), the write queue when coordinators retire and databases are      *)
(* deleted, and the filters and mutations of documents.  The three share no   *)
(* state, so a behaviour runs the one "part" names and leaves the variables   *)
(* of the others as they begin.                                               *)
EXTENDS Identity

CONSTANTS req1, req2, req3, doc, u1, k1, g1, i1, i2

VARIABLES
  part,
  qCurrent, qMade, qQueue, qClosed, qWorker, qPending, qRevision, qDurable, qPc, qMode,
  qSender, qAnswer, qReader, qApplied, qVoid, qAfter,
  document, updates

qVars == <<qCurrent, qMade, qQueue, qClosed, qWorker, qPending, qRevision, qDurable, qPc,
           qMode, qSender, qAnswer, qReader, qApplied, qVoid, qAfter>>
uVars == <<document, updates>>

\* Three requests for one document, the last of them delete_db.  Handlers fail in MCStorage.
Q == INSTANCE WriteQueue WITH
       Requests <- {req1, req2, req3}, Deletes <- {req3},
       Modes <- {"accepted", "prepared", "committed"}, Docs <- {doc},
       DocOf <- [r \in {req1, req2, req3} |-> doc], Readers <- {}, Capacity <- 1,
       IdleRetires <- TRUE, Fails <- FALSE, TimesOut <- TRUE, MaxGens <- 2,
       current <- qCurrent, made <- qMade, queue <- qQueue, closed <- qClosed,
       worker <- qWorker, pending <- qPending, revision <- qRevision, durable <- qDurable,
       pc <- qPc, mode <- qMode, sender <- qSender, answer <- qAnswer, reader <- qReader,
       applied <- qApplied, void <- qVoid, after <- qAfter

\* Two updates of a document, with the patches and filters of MCMutations.
Samples == INSTANCE MCMutations WITH
             Patches <- {}, Filters <- {}, Documents <- {}, MaxNumber <- 2, MaxItems <- 2,
             MaxUpdates <- 0, doc <- document
MCPatches == Samples!MCPatches
MCFilters == Samples!MCFilters
MCDocuments == Samples!MCDocuments
U == INSTANCE Mutations WITH
       Patches <- MCPatches, Filters <- MCFilters, Documents <- MCDocuments, MaxNumber <- 2,
       MaxItems <- 2, MaxUpdates <- 2, doc <- document

\* Requests req1 and req2 of one mode are alike, and so are the slots: of their permutations
\* one will do.
Alike == qMode[req1] = qMode[req2] => (qPc[req2] # "new" => qPc[req1] # "new")
FreeSlotFirst == task[i2] = None /\ task[i1] = None => task'[i2] = None
IdentityRuns == part = "identity" /\ Next /\ FreeSlotFirst /\ UNCHANGED <<part, qVars, uVars>>
QueueRuns == part = "queue" /\ Q!Next /\ Alike' /\ UNCHANGED <<part, vars, uVars>>
UpdatesRun == part = "updates" /\ U!Next /\ UNCHANGED <<part, vars, qVars>>

\* Their modes in descending order.
Descending ==
  {<<"prepared", "accepted">>, <<"committed", "accepted">>, <<"committed", "prepared">>}
ServicesInit ==
  /\ part \in {"queue", "identity", "updates"}
  /\ Init /\ Q!Init /\ U!Init
  /\ IF part = "queue" THEN <<qMode[req1], qMode[req2]>> \notin Descending
     ELSE \A r \in {req1, req2} : qMode[r] = "accepted"
  /\ part # "identity" => view.users[u1] = None
ServicesSpec ==
  ServicesInit
  /\ [][QueueRuns \/ IdentityRuns \/ UpdatesRun]_<<part, vars, qVars, uVars>>

(* Whatever retires or is deleted: a queued write is in some hands until it    *)
(* takes effect, and takes effect once.                                       *)
QueueKept == Q!NothingLost /\ Q!AppliedOnce
(* The three programs that decide a filter agree: a positional update changes  *)
(* the items the query language would select, and a filter on computed rows   *)
(* selects what the compiled filter would.                                    *)
MatchersAgree ==
  part = "updates" => U!PositionalMatchesQuery /\ U!ComputedMatchesQuery
(* A filter never reaches beyond the namespace it is scoped to.               *)
ScopeKept == part = "updates" => U!ScopeKept
(* A mutation leaves what it does not name as it was.                         *)
OnlyTargetsChange == part = "updates" => U!OnlyTargetsChange
===============================================================================
