------------------------------ MODULE JobQueue ------------------------------
(***************************************************************************)
(* The background job queue (platform/jobs/queue.py) and the processes     *)
(* that work it (confluence_sync/application/worker.py, the worker_tick of *)
(* main.py).                                                               *)
(*                                                                         *)
(* A job is identified by its idempotency key: the table has a unique      *)
(* constraint on it and no row is ever deleted, so a key is one row for    *)
(* ever.  A process runs a job in three transactions (claim; handle and    *)
(* complete; record the failure).  The claim locks its row (FOR UPDATE     *)
(* SKIP LOCKED) and is one step here.  The other two load the row without  *)
(* a lock and write it back at their end, and the ORM writes back only the *)
(* columns whose value differs from the one it loaded: each is a loading   *)
(* step and a writing step, and other processes run in between.            *)
(*                                                                         *)
(* Time is reduced to what the code tests: whether a lease has run out and *)
(* whether a back-off has passed.  Both happen at any moment, so a process *)
(* may be arbitrarily slow.                                                *)
(***************************************************************************)
EXTENDS Naturals, FiniteSets

CONSTANTS
  Jobs,         \* idempotency keys
  Workers,      \* processes that drain the queue: each backend process, a one-off script
  NoWorker,     \* lease_owner IS NULL
  NoJob,        \* the process holds no job
  Priority,     \* Job.priority, lower first
  Unhandled,    \* the keys whose job_type has no entry in HANDLERS
  MaxAttempts,  \* Job.max_attempts
  DrainLimit,   \* max_jobs of drain
  MaxCrashes    \* bound on the crashes of a behaviour

ASSUME ConstantsAssumption ==
  /\ NoWorker \notin Workers
  /\ NoJob \notin Jobs
  /\ Priority \in [Jobs -> Nat]
  /\ Unhandled \subseteq Jobs
  /\ MaxAttempts \in Nat \ {0}
  /\ DrainLimit \in Nat \ {0}
  /\ MaxCrashes \in Nat

ASSUME FiniteWorkers == IsFiniteSet(Workers)

VARIABLES
  row,      \* the job table, one row per key
  applied,  \* keys whose handler's transaction has committed (at least once)
  pc,       \* where each process is in worker_tick
  holding,  \* the job_id local of run_once
  loaded,   \* the row the open session of the process has loaded
  budget,   \* jobs this drain may still take
  reaps,    \* history: how often each job was reclaimed from an expired lease
  crashes   \* crashes so far

queueVars == <<row, applied>>
procVars  == <<pc, holding, loaded, budget>>
histVars  == <<reaps, crashes>>
vars      == <<row, applied, pc, holding, loaded, budget, reaps, crashes>>

Statuses == {"absent", "pending", "running", "failed", "succeeded", "dead_letter"}
Leases   == {"none", "live", "expired"}
Steps    == {"idle", "draining", "claimed", "handling", "failing", "recording"}

Row == [status: Statuses, owner: Workers \cup {NoWorker}, lease: Leases,
        attempts: Nat, due: BOOLEAN]

NoRow == [status |-> "absent", owner |-> NoWorker, lease |-> "none",
          attempts |-> 0, due |-> TRUE]

Init ==
  /\ row = [j \in Jobs |-> NoRow]
  /\ applied = {}
  /\ pc = [w \in Workers |-> "idle"]
  /\ holding = [w \in Workers |-> NoJob]
  /\ loaded = [w \in Workers |-> NoRow]
  /\ budget = [w \in Workers |-> 0]
  /\ reaps = [j \in Jobs |-> 0]
  /\ crashes = 0

-----------------------------------------------------------------------------
(* The queue's operations on rows.                                         *)

(* INSERT ... ON CONFLICT (idempotency_key) DO NOTHING: a key that is in   *)
(* the table, whatever its status, is not inserted again.                  *)
Enqueue(j) ==
  /\ row[j].status = "absent"
  /\ row' = [row EXCEPT ![j].status = "pending"]
  /\ UNCHANGED <<applied, procVars, histVars>>

Claimable_AnyOpen(j) == row[j].status \in {"pending", "failed", "running"} /\ row[j].due
Claimable(j) == row[j].status \in {"pending", "failed"} /\ row[j].due

(* ORDER BY priority; ties (available_at) are left open. *)
NextClaims ==
  {j \in Jobs : Claimable(j) /\ \A k \in Jobs : Claimable(k) => Priority[j] <= Priority[k]}

ClaimedRow_NoLease(r, w) ==
  [r EXCEPT !.status = "running", !.owner = w, !.attempts = @ + 1]
ClaimedRow(r, w) ==
  [r EXCEPT !.status = "running", !.owner = w, !.lease = "live", !.attempts = @ + 1]

(* What a flush leaves in a column: the ORM emits it only if the value set *)
(* differs from the value loaded.                                          *)
Flushed(current, seen, set) == IF set = seen THEN current ELSE set

(* The columns complete_job and fail_job both set. *)
Released(r, seen, status) ==
  [r EXCEPT !.status = Flushed(@, seen.status, status),
            !.owner  = Flushed(@, seen.owner, NoWorker),
            !.lease  = Flushed(@, seen.lease, "none")]

CompletedRow(r, seen) == Released(r, seen, "succeeded")

(* fail_job: dead-letter once the attempts loaded have reached the limit,  *)
(* else back off: available_at is always a new value, so always written.   *)
FailedRow_Early(r, seen) ==
  IF seen.attempts + 1 >= MaxAttempts
  THEN Released(r, seen, "dead_letter")
  ELSE [Released(r, seen, "failed") EXCEPT !.due = FALSE]
FailedRow_Late(r, seen) ==
  IF seen.attempts > MaxAttempts
  THEN Released(r, seen, "dead_letter")
  ELSE [Released(r, seen, "failed") EXCEPT !.due = FALSE]
FailedRow(r, seen) ==
  IF seen.attempts >= MaxAttempts
  THEN Released(r, seen, "dead_letter")
  ELSE [Released(r, seen, "failed") EXCEPT !.due = FALSE]

Reclaimable_LeasedOnly(r) == r.status = "leased" /\ r.lease = "expired"
Reclaimable(r) == r.status = "running" /\ r.lease = "expired"

ReapedRow(r) ==
  IF Reclaimable(r)
  THEN [r EXCEPT !.status = "pending", !.owner = NoWorker, !.lease = "none"]
  ELSE r

-----------------------------------------------------------------------------
(* A process: worker_tick reaps, then drains up to DrainLimit jobs.        *)

Tick(w) ==
  /\ pc[w] = "idle"
  /\ row' = [j \in Jobs |-> ReapedRow(row[j])]
  /\ reaps' = [j \in Jobs |-> IF Reclaimable(row[j]) THEN reaps[j] + 1 ELSE reaps[j]]
  /\ pc' = [pc EXCEPT ![w] = "draining"]
  /\ budget' = [budget EXCEPT ![w] = DrainLimit]
  /\ UNCHANGED <<applied, holding, loaded, crashes>>

MayClaim_OneMore(w) == pc[w] = "draining" /\ budget[w] >= 0
MayClaim(w) == pc[w] = "draining" /\ budget[w] > 0

(* Transaction 1: the claim. *)
Claim(w) ==
  /\ MayClaim(w)
  /\ \E j \in NextClaims :
       /\ row' = [row EXCEPT ![j] = ClaimedRow(@, w)]
       /\ holding' = [holding EXCEPT ![w] = j]
       /\ pc' = [pc EXCEPT ![w] = IF j \in Unhandled THEN "failing" ELSE "claimed"]
  /\ UNCHANGED <<applied, loaded, budget, histVars>>

(* drain returns: the queue is empty or max_jobs have been processed. *)
StopDraining(w) ==
  /\ pc[w] = "draining"
  /\ budget[w] = 0 \/ NextClaims = {}
  /\ pc' = [pc EXCEPT ![w] = "idle"]
  /\ budget' = [budget EXCEPT ![w] = 0]
  /\ UNCHANGED <<queueVars, holding, loaded, histVars>>

(* Transaction 2 opens: session.get(Job, job_id). *)
StartHandling_CompletesFirst(w) ==
  /\ pc[w] = "claimed"
  /\ pc' = [pc EXCEPT ![w] = "handling"]
  /\ loaded' = [loaded EXCEPT ![w] = row[holding[w]]]
  /\ row' = [row EXCEPT ![holding[w]] = CompletedRow(@, @)]
  /\ UNCHANGED <<applied, holding, budget, histVars>>
StartHandling(w) ==
  /\ pc[w] = "claimed"
  /\ pc' = [pc EXCEPT ![w] = "handling"]
  /\ loaded' = [loaded EXCEPT ![w] = row[holding[w]]]
  /\ UNCHANGED <<queueVars, holding, budget, histVars>>

(* The process leaves the job and goes on with its drain. *)
NextJob(w) ==
  /\ pc' = [pc EXCEPT ![w] = "draining"]
  /\ holding' = [holding EXCEPT ![w] = NoJob]
  /\ loaded' = [loaded EXCEPT ![w] = NoRow]
  /\ budget' = [budget EXCEPT ![w] = @ - 1]

(* Transaction 2 commits: the handler's work and the completion together. *)
HandleAndComplete(w) ==
  /\ pc[w] = "handling"
  /\ applied' = applied \cup {holding[w]}
  /\ row' = [row EXCEPT ![holding[w]] = CompletedRow(@, loaded[w])]
  /\ NextJob(w)
  /\ UNCHANGED histVars

(* The handler raises (or its transaction fails to commit): all of         *)
(* transaction 2 rolls back.                                               *)
HandlerRaises_KeepsWork(w) ==
  /\ pc[w] = "handling"
  /\ pc' = [pc EXCEPT ![w] = "failing"]
  /\ loaded' = [loaded EXCEPT ![w] = NoRow]
  /\ applied' = applied \cup {holding[w]}
  /\ UNCHANGED <<row, holding, budget, histVars>>
HandlerRaises(w) ==
  /\ pc[w] = "handling"
  /\ pc' = [pc EXCEPT ![w] = "failing"]
  /\ loaded' = [loaded EXCEPT ![w] = NoRow]
  /\ UNCHANGED <<queueVars, holding, budget, histVars>>

(* Transaction 3 opens: session.get(Job, job_id) again. *)
StartRecording(w) ==
  /\ pc[w] = "failing"
  /\ pc' = [pc EXCEPT ![w] = "recording"]
  /\ loaded' = [loaded EXCEPT ![w] = row[holding[w]]]
  /\ UNCHANGED <<queueVars, holding, budget, histVars>>

(* Transaction 3 commits: fail_job. *)
RecordFailure(w) ==
  /\ pc[w] = "recording"
  /\ row' = [row EXCEPT ![holding[w]] = FailedRow(@, loaded[w])]
  /\ NextJob(w)
  /\ UNCHANGED <<applied, histVars>>

(* The process dies, or its database connection does: open transactions    *)
(* roll back, committed ones stay, and the next tick starts afresh.        *)
Crash(w) ==
  /\ pc[w] # "idle"
  /\ crashes < MaxCrashes
  /\ crashes' = crashes + 1
  /\ pc' = [pc EXCEPT ![w] = "idle"]
  /\ holding' = [holding EXCEPT ![w] = NoJob]
  /\ loaded' = [loaded EXCEPT ![w] = NoRow]
  /\ budget' = [budget EXCEPT ![w] = 0]
  /\ UNCHANGED <<queueVars, reaps>>

-----------------------------------------------------------------------------
(* The clock.                                                              *)

LeaseRunsOut(j) ==
  /\ row[j].status = "running"
  /\ row[j].lease = "live"
  /\ row' = [row EXCEPT ![j].lease = "expired"]
  /\ UNCHANGED <<applied, procVars, histVars>>

BackoffPasses(j) ==
  /\ ~row[j].due
  /\ row' = [row EXCEPT ![j].due = TRUE]
  /\ UNCHANGED <<applied, procVars, histVars>>

-----------------------------------------------------------------------------
Step(w) ==
  \/ Tick(w)
  \/ Claim(w)
  \/ StopDraining(w)
  \/ StartHandling(w)
  \/ HandleAndComplete(w)
  \/ HandlerRaises(w)
  \/ StartRecording(w)
  \/ RecordFailure(w)

Next ==
  \/ \E j \in Jobs : Enqueue(j) \/ LeaseRunsOut(j) \/ BackoffPasses(j)
  \/ \E w \in Workers : Step(w) \/ Crash(w)

Spec == Init /\ [][Next]_vars

(* The scheduler keeps ticking (interval trigger), a process that is not   *)
(* crashed goes on with its tick, and time passes.  Nothing is assumed of  *)
(* enqueues, crashes or of how a handler ends.                             *)
Fairness ==
  /\ \A w \in Workers : WF_vars(Step(w))
  /\ \A j \in Jobs : WF_vars(LeaseRunsOut(j)) /\ WF_vars(BackoffPasses(j))

FairSpec == Spec /\ Fairness
-----------------------------------------------------------------------------
(* Properties that hold for any number of processes.  An operator X_Y next *)
(* to an operator X of this project is X with the slip named by Y: it is   *)
(* used by no specification, only to see that the properties notice it.    *)

(* Every variable keeps its type; in particular a drain never takes more   *)
(* than its budget (it would go below zero).                               *)
TypeOK ==
  /\ row \in [Jobs -> Row]
  /\ applied \in SUBSET Jobs
  /\ pc \in [Workers -> Steps]
  /\ holding \in [Workers -> Jobs \cup {NoJob}]
  /\ loaded \in [Workers -> Row]
  /\ budget \in [Workers -> Nat]
  /\ reaps \in [Jobs -> Nat]
  /\ crashes \in Nat

(* A job is never marked done with its work rolled back (worker.py:7-8),   *)
(* whatever the other processes write to its row meanwhile.                *)
SucceededIsApplied == \A j \in Jobs : row[j].status = "succeeded" => j \in applied

(* A job is given up only after max_attempts claims, although the process  *)
(* that gives it up judges by the attempts it loaded earlier.              *)
DeadLetterIsExhausted ==
  \A j \in Jobs : row[j].status = "dead_letter" => row[j].attempts >= MaxAttempts

Holders(j) == {w \in Workers : holding[w] = j}

(* Two processes are on one job only after the reaper took it from one of  *)
(* them: "multiple workers never grab the same row" (queue.py:4), and a    *)
(* lease that runs out under a slow process is what the guarantee costs.   *)
CrowdPaidByReaps == \A j \in Jobs : Cardinality(Holders(j)) <= 1 + reaps[j]

(* A job is claimed more than max_attempts times only if it was reclaimed  *)
(* that often: failures alone, however they interleave and whatever stale  *)
(* row they are judged on, never retry it past the limit.                  *)
AttemptsPaidByReaps == \A j \in Jobs : row[j].attempts <= MaxAttempts + reaps[j]

-----------------------------------------------------------------------------
(* Properties that depend on the number of processes.                      *)

(* A running row carries a lease, so that the reaper can take it back.     *)
(* True of one process; of two, not (see CrashedRunIsReclaimable).         *)
RunningIsLeased == \A j \in Jobs : row[j].status = "running" => row[j].lease # "none"

(* "A crash after this point leaves a leased job the reaper reclaims"      *)
(* (worker.py:6): a job running with no process on it still has its lease. *)
CrashedRunIsReclaimable ==
  \A j \in Jobs : row[j].status = "running" /\ Holders(j) = {} => row[j].lease # "none"

(* One process: every claim past max_attempts was paid for by a crash.     *)
AttemptsPaidByCrashes == \A j \in Jobs : row[j].attempts <= MaxAttempts + crashes

(* One process implements the contract of JobContract: the work of a job   *)
(* is committed exactly when the job succeeds, once, and a job that has    *)
(* succeeded or been given up is never opened again.                       *)
ContractState(status) ==
  CASE status = "absent" -> "absent"
    [] status = "succeeded" -> "done"
    [] status = "dead_letter" -> "dead"
    [] OTHER -> "open"

JC == INSTANCE JobContract WITH state <- [j \in Jobs |-> ContractState(row[j].status)]
Contract == JC!Spec

(* Whatever crashes (finitely often) and fails, every job enqueued ends    *)
(* succeeded or dead-lettered: the reaper, the back-off and the attempt    *)
(* limit between them leave no job behind.                                 *)
Settled(j) == row[j].status \in {"succeeded", "dead_letter"}
EveryJobSettles == \A j \in Jobs : row[j].status # "absent" ~> Settled(j)
=============================================================================
