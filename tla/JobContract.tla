---------------------------- MODULE JobContract ----------------------------
(***************************************************************************)
(* What the job queue promises of a job, without processes, leases or      *)
(* retries: it is submitted once (its key is unique), and then either its  *)
(* work is committed, once, and it is done, or it is given up.             *)
(***************************************************************************)
CONSTANT Jobs

VARIABLES
  state,    \* "absent", "open", "done" or "dead"
  applied   \* the jobs whose work is committed

vars == <<state, applied>>

Init ==
  /\ state = [j \in Jobs |-> "absent"]
  /\ applied = {}

Submit(j) ==
  /\ state[j] = "absent"
  /\ state' = [state EXCEPT ![j] = "open"]
  /\ UNCHANGED applied

Finish(j) ==
  /\ state[j] = "open"
  /\ j \notin applied
  /\ state' = [state EXCEPT ![j] = "done"]
  /\ applied' = applied \cup {j}

GiveUp(j) ==
  /\ state[j] = "open"
  /\ state' = [state EXCEPT ![j] = "dead"]
  /\ UNCHANGED applied

Next == \E j \in Jobs : Submit(j) \/ Finish(j) \/ GiveUp(j)

Spec == Init /\ [][Next]_vars
============================================================================
