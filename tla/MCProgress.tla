------------------------------ MODULE MCProgress ------------------------------
(* What must eventually happen, under the fairness of the background loops:   *)
(* the flush loop of S3WalEngine (the module extended: one process in async   *)
(* mode, whose checkpoints are checked too), the automatic backups of         *)
(* LocalEngine, the lifecycle runner of Documents and the reaper of Identity. *)
(* The four share no state, so a behaviour runs the one "part" names and      *)
(* leaves the variables of the others as they begin.                          *)
EXTENDS S3WalEngine

CONSTANTS p, d1, t1, t2, u1, r1, c1, c2, fld, tr

VARIABLES
  part,
  lFile, lContent, lConns, lIdle, lLocks, lTask, lRequests, lLastRun, lMtime, lBackups,
  lAcked, lArchived,
  dDb, dNow, dH, dAdmin, dFresh, dEffects, dDrift,
  iView, iSaved, iOwner, iTask, iNow, iMade, iInside, iWins, iDead

lVars == <<lFile, lContent, lConns, lIdle, lLocks, lTask, lRequests, lLastRun, lMtime,
           lBackups, lAcked, lArchived>>
dVars == <<dDb, dNow, dH, dAdmin, dFresh, dEffects, dDrift>>
iVars == <<iView, iSaved, iOwner, iTask, iNow, iMade, iInside, iWins, iDead>>
allVars == <<part, vars, lVars, dVars, iVars>>

\* The flush loop of one process that takes two writes.
MCBatches == {<<1>>, <<2>>, <<1, 2>>}

\* Backups every two seconds of one database, which is made, written, read and restored.
L == INSTANCE LocalEngine WITH
       Dbs <- {d1}, Tasks <- {t1, t2}, MaxActive <- 1, MaxRequests <- 2, Coordinated <- TRUE,
       Operations <- {"insert", "restore_backup"}, IdleSecs <- 0,
       BackupEvery <- 2, KeepCount <- 1, Faults <- TRUE,
       file <- lFile, content <- lContent, conns <- lConns, idle <- lIdle, locks <- lLocks,
       task <- lTask, requests <- lRequests, lastRun <- lLastRun, mtime <- lMtime,
       backups <- lBackups, acked <- lAcked, archived <- lArchived

\* A transition of one document, in two namespaces, due at once.
D == INSTANCE Documents WITH
       Docs <- {d1}, Colls <- {c1, c2}, Fields <- {fld}, Names <- {tr}, Inputs <- {{fld}},
       Specs <- {[name |-> tr, after |-> 0, when |-> {}, update |-> {fld}, ttl |-> 1]},
       Lives <- {[ttl |-> None, beh |-> "archive"], [ttl |-> 1, beh |-> "archive"]},
       Batches <- {}, ArchiveTtl <- 1, MaxKeys <- 3, MaxTime <- 1,
       Features <- {"change", "rename", "import", "recompute"},
       db <- dDb, now <- dNow, h <- dH, admin <- dAdmin, fresh <- dFresh,
       effects <- dEffects, drift <- dDrift

\* Requests that give a user a status for a time or remove the user, and the reaper.
I == INSTANCE Identity WITH
       Users <- {u1}, Kinds <- {}, Providers <- {}, Statuses <- {"active"}, Slots <- {r1},
       Operations <- {"user_create", "user_update_status", "soft_delete", "purge"},
       ForeignKeys <- TRUE, Faults <- TRUE, MaxRequests <- 2, MaxNow <- 1,
       view <- iView, saved <- iSaved, owner <- iOwner, task <- iTask, now <- iNow,
       made <- iMade, inside <- iInside, wins <- iWins, dead <- iDead

ASSUME ProgressAssumption ==
  EngineAssumption /\ L!LocalEngineAssumption /\ D!DocumentsAssumption

EngineRuns == part = "engine" /\ Next /\ UNCHANGED <<part, lVars, dVars, iVars>>
BackupsRun == part = "backups" /\ L!Next /\ UNCHANGED <<part, vars, dVars, iVars>>
DocumentsRun == part = "documents" /\ D!Next /\ UNCHANGED <<part, vars, lVars, iVars>>
IdentityRuns == part = "identity" /\ I!Next /\ UNCHANGED <<part, vars, lVars, dVars>>

ProgressInit ==
  /\ part \in {"engine", "backups", "documents", "identity"}
  /\ Init /\ L!Init /\ D!Init /\ I!Init
  /\ part # "identity" => iView.users[u1] = None

(* Each module's Fairness, asked of the part that runs.                       *)
EngineFair ==
  /\ WF_vars(part = "engine" /\ Open(p)) /\ WF_vars(part = "engine" /\ FlushStart(p))
  /\ WF_vars(part = "engine" /\ Flush(p)) /\ <>[][~FlushFails(p)]_vars
BackupsFair ==
  /\ \A t \in {t1, t2} : WF_lVars(part = "backups" /\ L!Step(t))
  /\ SF_lVars(part = "backups" /\ \E t \in {t1, t2} : L!StartBackup(t, d1))
  /\ WF_lVars(part = "backups" /\ L!Tick)
  /\ <>[][\A t \in {t1, t2} : ~L!BackupFails(t)]_lVars
DocumentsFair ==
  /\ WF_dVars(part = "documents" /\ D!Tick) /\ WF_dVars(part = "documents" /\ D!ProcessDue)
  /\ WF_dVars(part = "documents" /\ D!RunNext) /\ WF_dVars(part = "documents" /\ D!GoOn)
IdentityFair ==
  /\ \A k \in {r1, "reaper"} : WF_iVars(part = "identity" /\ I!Step(k))
  /\ WF_iVars(part = "identity" /\ I!ReaperStep) /\ WF_iVars(part = "identity" /\ I!Reap)
  /\ WF_iVars(part = "identity" /\ I!Clock)
  /\ <>[][~I!Crash /\ \A k \in {r1, "reaper"} : ~I!Fault(k)]_iVars

ProgressSpec ==
  /\ ProgressInit /\ [][EngineRuns \/ BackupsRun \/ DocumentsRun \/ IdentityRuns]_allVars
  /\ EngineFair /\ BackupsFair /\ DocumentsFair /\ IdentityFair

(* Every write that stays in a database gets into a backup of it.            *)
WritesBackedUp == L!WritesBackedUp
(* A lifecycle transition that is due ends.                                  *)
TransitionsConclude == D!TransitionsConclude
(* A status given for a time does not outlive it.                            *)
TimedStatusEnds == I!TimedStatusEnds
===============================================================================
