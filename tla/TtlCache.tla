------------------------------ MODULE TtlCache ------------------------------
(***************************************************************************)
(* The in-process cache with a time to live (shared/ttl_cache.py) as       *)
(* operators on its one attribute, _entries.  A cache is a record: order   *)
(* lists the keys it holds in order of insertion, entry[k] is the time and *)
(* the value stored under k, or Missing.                                   *)
(***************************************************************************)
EXTENDS Orders

CONSTANTS
  Keys,         \* what is looked up
  Missing,      \* no entry
  Ttl,          \* ttl_seconds
  MaxEntries    \* max_entries

NewCache == [order |-> <<>>, entry |-> [k \in Keys |-> Missing]]

(* An entry is never too old.                                              *)
Expired_Never(cache, k, t) == FALSE

Expired(cache, k, t) == cache.entry[k] # Missing /\ t - cache.entry[k].at > Ttl

Has(cache, k, t) == cache.entry[k] # Missing /\ ~Expired(cache, k, t)

(* A lookup drops the entry it finds expired.                              *)
Looked(cache, k, t) ==
  IF Expired(cache, k, t)
  THEN [order |-> Without(cache.order, k),
        entry |-> [cache.entry EXCEPT ![k] = Missing]]
  ELSE cache

(* Nothing is ever evicted.                                                *)
Set_Unbounded(cache, k, value, t) ==
  [order |-> IF cache.entry[k] = Missing THEN Append(cache.order, k) ELSE cache.order,
   entry |-> [cache.entry EXCEPT ![k] = [at |-> t, value |-> value]]]

(* Storing under a key that is present keeps its place in the order; what  *)
(* does not fit goes, oldest insertion first.                              *)
Set(cache, k, value, t) ==
  LET order == Newest(IF cache.entry[k] = Missing THEN Append(cache.order, k) ELSE cache.order,
                      MaxEntries)
  IN  [order |-> order,
       entry |-> [j \in Keys |-> IF \A i \in DOMAIN order : order[i] # j THEN Missing
                                 ELSE IF j = k THEN [at |-> t, value |-> value]
                                 ELSE cache.entry[j]]]
=============================================================================
