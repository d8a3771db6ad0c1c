---------------------------- MODULE MCJobQueue ----------------------------
(***************************************************************************)
(* Instances of JobQueue for TLC: two processes (pair, lapse) and one      *)
(* (solo).                                                                 *)
(***************************************************************************)
EXTENDS JobQueue, TLC

CONSTANTS j1, j2

(* j1 is a delete_page job (priority 50), j2 a sync_page job (100). *)
DeleteFirst == [j \in Jobs |-> IF j = j1 THEN 50 ELSE 100]

Symmetry == Permutations(Workers)
===========================================================================
