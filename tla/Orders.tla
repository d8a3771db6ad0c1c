------------------------------- MODULE Orders -------------------------------
(***************************************************************************)
(* What the code does to an order in which each item is once: Python's     *)
(* dictionaries, which keep the order of insertion, and the rows a         *)
(* statement sorts by a timestamp.                                         *)
(***************************************************************************)
EXTENDS Integers, Sequences

(* Item d goes, wherever it is. *)
Without(order, d) ==
  IF \E k \in 1..Len(order) : order[k] = d
  THEN LET k == CHOOSE j \in 1..Len(order) : order[j] = d
       IN  SubSeq(order, 1, k - 1) \o SubSeq(order, k + 1, Len(order))
  ELSE order

(* The first items go until n are left. *)
Newest(order, n) ==
  SubSeq(order, IF Len(order) > n THEN Len(order) - n + 1 ELSE 1, Len(order))
=============================================================================
