------------------------------ MODULE MCDatabase ------------------------------
(* What a database holds and what reads of it return: the document tables     *)
(* (Documents, with the inputs of MCDocuments) and the cached answers          *)
(* (ReadCache).  ReadCache has its own view of the rows, so a behaviour runs   *)
(* the one "part" names and leaves the variables of the other as they begin.   *)
EXTENDS ReadCache, MCDocuments

CONSTANTS n1, n2, m, all, r1, w1, w2

VARIABLE part

ASSUME DatabaseAssumption == DocumentsAssumption

\* n2 is as n1, and w2 as w1: of their permutations one will do.
FreeWriterFirst == writer[w2] = Resting /\ writer[w1] = Resting => writer'[w2] = Resting
CacheRuns == part = "cache" /\ CacheNext /\ FreeWriterFirst /\ UNCHANGED <<part, vars>>
DocumentsRun == part = "documents" /\ Next /\ UNCHANGED <<part, cacheVars>>
DatabaseInit ==
  /\ part \in {"documents", "cache"} /\ CacheInit /\ Init
  /\ scope # n2 /\ (part # "cache" => scope = AnyScope)
DatabaseSpec == DatabaseInit /\ [][CacheRuns \/ DocumentsRun]_<<part, cacheVars, vars>>
===============================================================================
