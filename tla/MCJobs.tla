-------------------------------- MODULE MCJobs --------------------------------
(* Jobs on small instances. *)
EXTENDS Jobs, TLC

CONSTANTS h1, p1

(* Before an export began, a write to the table only makes another start.     *)
(* Imports with a hash stand for those that are resumable.  A worker never    *)
(* looks at the age of jobs of another kind, so these come in one order.      *)
KindOrder == <<"import", "export", "backup", "admin">>
Small ==
  /\ edits' = edits \/ \E i \in Ids : Begun(i)
  /\ \A i \in Stored' : jobs'[i].kind = "import" =>
       (jobs'[i].resumable <=> jobs'[i].hash = h1)
  /\ ~\E i, j \in Stored', m, n \in DOMAIN KindOrder :
       i < j /\ n < m /\ jobs'[i].kind = KindOrder[m] /\ jobs'[j].kind = KindOrder[n]
MCSpec == Init /\ [][Next /\ Small]_vars
FairSpec == MCSpec /\ Fairness
===============================================================================
