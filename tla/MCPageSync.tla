----------------------------- MODULE MCPageSync -----------------------------
(***************************************************************************)
(* Instances of PageSync for TLC: one worker, two workers, a worker and a  *)
(* sweeper thread.  Workers are interchangeable.                           *)
(***************************************************************************)
EXTENDS PageSync, TLC

Symmetry == Permutations(Workers)
=============================================================================
