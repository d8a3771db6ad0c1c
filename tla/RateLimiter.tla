---------------------------- MODULE RateLimiter ----------------------------
(***************************************************************************)
(* The in-process sliding-window limiter (shared/rate_limiter.py) as       *)
(* operators on its one attribute, _hits: a dictionary, which Python keeps *)
(* in insertion order, of deques of arrival times.                         *)
(*                                                                         *)
(* A limiter is a record: order lists the tracked keys, oldest insertion   *)
(* first, and hits[k] is the deque of key k.  Times are appended in order, *)
(* so a deque is a set of [n, at] with n the number of the call, and       *)
(* popping the ones before the cutoff is a filter.                         *)
(***************************************************************************)
EXTENDS Orders, FiniteSets

CONSTANTS
  LimitKeys,      \* what callers are told apart by
  MaxHits,        \* max_requests
  Window,         \* window_seconds
  MaxTracked      \* max_tracked_keys

ASSUME LimiterAssumption ==
  /\ MaxHits \in Nat \ {0} /\ MaxTracked \in Nat \ {0} /\ Window \in Nat

NewLimiter == [order |-> <<>>, hits |-> [k \in LimitKeys |-> {}]]

(* The hits are kept only until the cutoff reaches them, one too early.    *)
Fresh_Exclusive(lim, k, t) == {h \in lim.hits[k] : h.at > t - Window}

(* The hits that still count: those at the cutoff do, those before do not. *)
Fresh(lim, k, t) == {h \in lim.hits[k] : h.at >= t - Window}

(* An emptied bucket is dropped, and its key inserted anew at the end.     *)
Inserted(lim, k, t) ==
  IF Fresh(lim, k, t) = {} THEN Append(Without(lim.order, k), k)
                           ELSE lim.order

(* The oldest-inserted keys that do not fit go, with their windows.  A     *)
(* limiter is over its bound only right after an insertion.                *)
Overflow(lim, k, t) ==
  LET order == Inserted(lim, k, t)
  IN  {order[i] : i \in {j \in DOMAIN order : j + MaxTracked <= Len(order)}} \ {k}

Allowed(lim, k, t) == Cardinality(Fresh(lim, k, t)) < MaxHits

(* The limiter after call n of allow(k) at time t; a call that is denied   *)
(* is not recorded.                                                        *)
Allow(lim, k, t, n) ==
  [order |-> Newest(Inserted(lim, k, t), MaxTracked),
   hits  |-> [j \in LimitKeys |->
                IF j \in Overflow(lim, k, t) THEN {}
                ELSE IF j # k THEN lim.hits[j]
                ELSE Fresh(lim, k, t) \cup
                       (IF Allowed(lim, k, t) THEN {[n |-> n, at |-> t]} ELSE {})]]
=============================================================================
