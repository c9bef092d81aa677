------------------------------ MODULE MCIdentity ------------------------------
(* The identity store on small instances. *)
EXTENDS Identity, TLC

CONSTANTS u1, u2, k1, g1, r1, r2
FairSpec == Spec /\ Fairness
===============================================================================
