----------------------------- MODULE ChunkDiff -----------------------------
(***************************************************************************)
(* Which stored children lend their embedding to which planned ones        *)
(* (ingestion/domain/chunk_diff.py).  A pass hands the olds of a key, in   *)
(* order, to the news of that key, in order.  The third pass only tells    *)
(* edited chunks from inserted ones, which nothing reads: both are         *)
(* embedded again.                                                         *)
(***************************************************************************)
EXTENDS Integers, FiniteSets

(* How many of a pool come before i under the same key.                    *)
Rank(keys, pool, i) == Cardinality({k \in pool : k < i /\ keys[k] = keys[i]})

Pass(oldKeys, newKeys, olds, news) ==
  {m \in news \X olds :
     /\ newKeys[m[1]] = oldKeys[m[2]]
     /\ Rank(newKeys, news, m[1]) = Rank(oldKeys, olds, m[2])}

Takers(pairs) == {m[1] : m \in pairs}
Lenders(pairs) == {m[2] : m \in pairs}

Keys(chunks, key) == [i \in DOMAIN chunks |-> chunks[i][key]]

(* Pass 1 matches position and content, pass 2 content among the rest.     *)
Reuse_ExactOnly(old, new) ==
  Pass(Keys(old, "stable"), Keys(new, "stable"), DOMAIN old, DOMAIN new)
Reuse(old, new) ==
  LET exact == Pass(Keys(old, "stable"), Keys(new, "stable"), DOMAIN old, DOMAIN new)
      moved == Pass(Keys(old, "content"), Keys(new, "content"),
                    DOMAIN old \ Lenders(exact), DOMAIN new \ Takers(exact))
  IN exact \cup moved
=============================================================================
