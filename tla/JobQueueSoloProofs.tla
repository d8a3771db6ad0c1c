------------------------- MODULE JobQueueSoloProofs -------------------------
(***************************************************************************)
(* Proofs about JobQueue when one process works the queue, the deployment  *)
(* the scheduler's max_instances=1 (main.py) is written for: the reaper    *)
(* and the drain are then one thread, and nobody takes a job from a        *)
(* process that is merely slow.                                            *)
(***************************************************************************)
EXTENDS JobQueueProofs

IsSolo == \E w : Workers = {w}

(* What the solo process works on is running, and it knows so; a claim     *)
(* past the limit was paid for by a crash, which the job it is on may      *)
(* still be waiting for.                                                   *)
SoloProc(w) ==
  /\ pc[w] \in Busy => row[holding[w]].status = "running"
  /\ pc[w] \in {"handling", "recording"} =>
       /\ loaded[w].status = "running"
       /\ loaded[w].attempts = row[holding[w]].attempts

SoloJob(j) ==
  /\ j \in applied <=> row[j].status = "succeeded"
  /\ row[j].attempts <= MaxAttempts + crashes
  /\ row[j].attempts = MaxAttempts + crashes =>
       Settled(j) \/ \E w \in Workers : pc[w] \in Busy /\ holding[w] = j

SoloInv == (\A w \in Workers : SoloProc(w)) /\ (\A j \in Jobs : SoloJob(j))

LEMMA SoloInit == Init => SoloInv
<1>. SUFFICES ASSUME Init PROVE SoloInv
  OBVIOUS
<1>1. \A w \in Workers : SoloProc(w)
  BY DEF Init, SoloProc, Busy
<1>2. \A j \in Jobs : SoloJob(j)
  BY ConstantsAssumption DEF Init, SoloJob, NoRow
<1>. QED  BY <1>1, <1>2 DEF SoloInv

(* Steps of the environment, and steps of the process that leave the rows  *)
(* and the applied set alone, keep what SoloJob says.                      *)
LEMMA SoloJobKept ==
  ASSUME TypeOK, SoloInv, NEW k \in Jobs, crashes' = crashes, row'[k].attempts = row[k].attempts,
         k \in applied' <=> k \in applied,
         row'[k].status = "succeeded" <=> row[k].status = "succeeded",
         row'[k].status = "dead_letter" <=> row[k].status = "dead_letter",
         \A w \in Workers : pc[w] \in Busy => pc'[w] \in Busy /\ holding'[w] = holding[w]
  PROVE  SoloJob(k)'
BY DEF SoloInv, SoloJob, Settled

LEMMA RowSet ==
  ASSUME TypeOK, NEW j \in Jobs, NEW r, row' = [row EXCEPT ![j] = r],
         r.attempts = row[j].attempts,
         r.status = row[j].status \/ (row[j].status = "absent" /\ r.status = "pending")
  PROVE  \A k \in Jobs :
           /\ row'[k].attempts = row[k].attempts
           /\ row'[k].status = row[k].status
              \/ (row[k].status = "absent" /\ row'[k].status = "pending")
<1>1. row'[j] = r /\ \A k \in Jobs : k # j => row'[k] = row[k]
  BY DEF TypeOK
<1>. QED  BY <1>1

LEMMA SoloEnvironment ==
  ASSUME Inv, Inv', SoloInv, NEW j \in Jobs, Enqueue(j) \/ LeaseRunsOut(j) \/ BackoffPasses(j)
  PROVE  SoloInv'
<1>. USE DEF Inv
<1>1. /\ applied' = applied /\ pc' = pc /\ holding' = holding /\ loaded' = loaded
      /\ crashes' = crashes
  BY DEF Enqueue, LeaseRunsOut, BackoffPasses, procVars, histVars
<1>2. /\ \A k \in Jobs : row'[k].attempts = row[k].attempts
      /\ \A k \in Jobs : row'[k].status = row[k].status
                          \/ (row[k].status = "absent" /\ row'[k].status = "pending")
  <2>0. row[j] \in Row
    BY DEF TypeOK
  <2>1. CASE Enqueue(j)
    <3>. DEFINE r == [row[j] EXCEPT !.status = "pending"]
    <3>1. row' = [row EXCEPT ![j] = r] /\ row[j].status = "absent"
      BY <2>1 DEF Enqueue
    <3>2. /\ r.status = "pending"
          /\ r.attempts = row[j].attempts
      BY <2>0 DEF Row
    <3>. HIDE DEF r
    <3>. QED  BY <3>1, <3>2, RowSet
  <2>2. CASE LeaseRunsOut(j)
    <3>. DEFINE r == [row[j] EXCEPT !.lease = "expired"]
    <3>1. row' = [row EXCEPT ![j] = r]
      BY <2>2 DEF LeaseRunsOut
    <3>2. /\ r.status = row[j].status
          /\ r.attempts = row[j].attempts
      BY <2>0 DEF Row
    <3>. HIDE DEF r
    <3>. QED  BY <3>1, <3>2, RowSet
  <2>3. CASE BackoffPasses(j)
    <3>. DEFINE r == [row[j] EXCEPT !.due = TRUE]
    <3>1. row' = [row EXCEPT ![j] = r]
      BY <2>3 DEF BackoffPasses
    <3>2. r.status = row[j].status /\ r.attempts = row[j].attempts
      BY <2>0, DueRowType
    <3>. HIDE DEF r
    <3>. QED  BY <3>1, <3>2, RowSet
  <2>. QED  BY <2>1, <2>2, <2>3
<1>3. \A k \in Jobs : SoloJob(k)'
  BY <1>1, <1>2, SoloJobKept
<1>4. ASSUME NEW w \in Workers PROVE SoloProc(w)'
  <2>1. SoloProc(w) /\ ProcOK(w)
    BY DEF SoloInv, ProcInv
  <2>2. pc[w] \in Busy => holding[w] \in Jobs
    BY <2>1 DEF ProcOK
  <2>. QED  BY <1>1, <1>2, <2>1, <2>2 DEF SoloProc, Busy
<1>. QED  BY <1>3, <1>4 DEF SoloInv

LEMMA SoloQuiet ==
  ASSUME Inv, Inv', SoloInv, IsSolo, NEW w \in Workers,
         \/ Tick(w) \/ StopDraining(w) \/ StartHandling(w) \/ HandlerRaises(w) \/ StartRecording(w)
  PROVE  SoloInv'
<1>. USE DEF Inv
<1>0. \A v \in Workers : v = w
  BY DEF IsSolo
<1>1. applied' = applied /\ holding' = holding /\ crashes' = crashes
  BY DEF Tick, StopDraining, StartHandling, HandlerRaises, StartRecording, queueVars, histVars
<1>2. /\ \A k \in Jobs : row'[k].attempts = row[k].attempts
      /\ \A k \in Jobs : row'[k].status = row[k].status
                          \/ (row[k].status = "running" /\ row'[k].status = "pending")
  <2>1. CASE Tick(w)
    <3>1. ASSUME NEW k \in Jobs
          PROVE  /\ row'[k].attempts = row[k].attempts
                 /\ row'[k].status = row[k].status
                    \/ (row[k].status = "running" /\ row'[k].status = "pending")
      <4>1. row'[k] = ReapedRow(row[k]) /\ row[k] \in Row
        BY <2>1 DEF Tick, TypeOK
      <4>2. row'[k].attempts = row[k].attempts /\ row'[k].status \in {row[k].status, "pending"}
        BY <4>1, ReapedRowType
      <4>3. ~Reclaimable(row[k]) => row'[k] = row[k]
        BY <4>1 DEF ReapedRow
      <4>4. CASE Reclaimable(row[k])
        BY <4>2, <4>4 DEF Reclaimable
      <4>5. CASE ~Reclaimable(row[k])
        BY <4>3, <4>5
      <4>. QED  BY <4>4, <4>5
    <3>. QED  BY <3>1
  <2>2. CASE StopDraining(w) \/ StartHandling(w) \/ HandlerRaises(w) \/ StartRecording(w)
    BY <2>2 DEF StopDraining, StartHandling, HandlerRaises, StartRecording, queueVars
  <2>. QED  BY <2>1, <2>2
<1>3. pc[w] \in Busy => pc'[w] \in Busy
  BY DEF Tick, StopDraining, StartHandling, HandlerRaises, StartRecording, TypeOK, Busy
<1>4. \A k \in Jobs : SoloJob(k)'
  BY <1>0, <1>1, <1>2, <1>3, SoloJobKept
<1>5. SoloProc(w)'
  <2>1. SoloProc(w) /\ ProcOK(w)
    BY DEF SoloInv, ProcInv
  <2>2. CASE Tick(w) \/ StopDraining(w)
    BY <2>2 DEF SoloProc, Tick, StopDraining, TypeOK, Busy
  <2>3. CASE StartHandling(w) \/ StartRecording(w)
    <3>1. row' = row /\ loaded' = [loaded EXCEPT ![w] = row[holding[w]]] /\ pc[w] \in Busy
      BY <2>3 DEF StartHandling, StartRecording, queueVars, Busy
    <3>. QED  BY <1>1, <2>1, <3>1 DEF SoloProc, TypeOK, ProcOK
  <2>4. CASE HandlerRaises(w)
    BY <1>1, <2>1, <2>4 DEF HandlerRaises, SoloProc, TypeOK, Busy, queueVars
  <2>. QED  BY <2>2, <2>3, <2>4
<1>. QED  BY <1>0, <1>4, <1>5 DEF SoloInv

(* A job of which the solo process is not the holder keeps its account     *)
(* when the process joins or leaves another.                               *)
LEMMA SoloOther ==
  ASSUME Inv, SoloInv, NEW w \in Workers, \A v \in Workers : v = w,
         NEW k \in Jobs, row'[k] = row[k], crashes' = crashes,
         k \in applied' <=> k \in applied,
         ~(pc[w] \in Busy /\ holding[w] = k)
  PROVE  SoloJob(k)'
BY DEF SoloInv, SoloJob, Settled

LEMMA SoloClaim ==
  ASSUME Inv, Inv', SoloInv, IsSolo, NEW w \in Workers, Claim(w)
  PROVE  SoloInv'
<1>. USE DEF Inv
<1>0. \A v \in Workers : v = w
  BY DEF IsSolo
<1>. PICK j \in NextClaims :
       /\ row' = [row EXCEPT ![j] = ClaimedRow(@, w)]
       /\ holding' = [holding EXCEPT ![w] = j]
       /\ pc' = [pc EXCEPT ![w] = IF j \in Unhandled THEN "failing" ELSE "claimed"]
  BY DEF Claim
<1>1. j \in Jobs /\ row[j] \in Row /\ row[j].status \in {"pending", "failed"}
  BY DEF NextClaims, Claimable, TypeOK
<1>2. crashes' = crashes /\ applied' = applied /\ crashes \in Nat /\ pc[w] = "draining"
  BY DEF Claim, MayClaim, histVars, TypeOK
<1>3. row'[j].status = "running" /\ row'[j].attempts = row[j].attempts + 1
  <2>1. row'[j] = ClaimedRow(row[j], w)
    BY <1>1 DEF TypeOK
  <2>. QED  BY <1>1, <2>1, ClaimedRowType
<1>4. /\ pc'[w] \in {"failing", "claimed"} /\ holding'[w] = j
  BY DEF TypeOK
<1>5. row[j].attempts < MaxAttempts + crashes
  <2>1. row[j].attempts \in Nat
    BY <1>1 DEF Row
  <2>2. SoloJob(j)
    BY <1>1 DEF SoloInv
  <2>3. ~(Settled(j) \/ \E v \in Workers : pc[v] \in Busy /\ holding[v] = j)
    BY <1>0, <1>1, <1>2 DEF Settled, Busy
  <2>. QED  BY <1>2, <2>1, <2>2, <2>3, ConstantsAssumption DEF SoloJob
<1>6. SoloJob(j)'
  <2>1. row[j].attempts \in Nat
    BY <1>1 DEF Row
  <2>2. j \in applied' <=> row'[j].status = "succeeded"
    BY <1>1, <1>2, <1>3 DEF SoloInv, SoloJob
  <2>3. row'[j].attempts <= MaxAttempts + crashes'
    BY <1>2, <1>3, <1>5, <2>1, ConstantsAssumption
  <2>4. \E v \in Workers : pc'[v] \in Busy /\ holding'[v] = j
    BY <1>4 DEF Busy
  <2>. QED  BY <2>2, <2>3, <2>4 DEF SoloJob
<1>7. ASSUME NEW k \in Jobs, k # j PROVE SoloJob(k)'
  <2>1. row'[k] = row[k]
    BY <1>7 DEF TypeOK
  <2>. QED  BY <1>0, <1>2, <2>1, SoloOther DEF Busy
<1>8. SoloProc(w)'
  BY <1>3, <1>4 DEF SoloProc
<1>. QED  BY <1>0, <1>6, <1>7, <1>8 DEF SoloInv

(* What the solo process writes at the end of a job: its load is current,  *)
(* so the ORM emits the status it sets.                                    *)
LEMMA SoloWrites ==
  ASSUME NEW r \in Row, NEW seen \in Row, r.status = "running", seen.status = "running"
  PROVE  /\ CompletedRow(r, seen).status = "succeeded"
         /\ seen.attempts >= MaxAttempts => FailedRow(r, seen).status = "dead_letter"
         /\ ~(seen.attempts >= MaxAttempts) => FailedRow(r, seen).status = "failed"
<1>1. ASSUME NEW status \in Statuses \ {"running"}
      PROVE  Released(r, seen, status).status = status
  BY <1>1 DEF Released, Flushed, Row
<1>2. CompletedRow(r, seen).status = "succeeded"
  BY <1>1 DEF CompletedRow, Statuses
<1>3. CASE seen.attempts >= MaxAttempts
  BY <1>1, <1>2, <1>3 DEF FailedRow, Statuses
<1>4. CASE ~(seen.attempts >= MaxAttempts)
  <2>1. FailedRow(r, seen) = [Released(r, seen, "failed") EXCEPT !.due = FALSE]
    BY <1>4 DEF FailedRow
  <2>2. Released(r, seen, "failed") \in Row /\ Released(r, seen, "failed").status = "failed"
    BY <1>1, ReleasedRow DEF Statuses
  <2>3. FailedRow(r, seen).status = "failed"
    BY <2>1, <2>2 DEF Row
  <2>. QED  BY <1>2, <1>4, <2>3
<1>. QED  BY <1>3, <1>4

(* What the process's leaving a job does to the process. *)
LEMMA SoloLeaves ==
  ASSUME TypeOK, NEW w \in Workers, \A v \in Workers : v = w,
         pc' = [pc EXCEPT ![w] = "draining"] \/ pc' = [pc EXCEPT ![w] = "idle"]
  PROVE  \A v \in Workers : SoloProc(v)'
<1>1. pc'[w] \in {"draining", "idle"}
  BY DEF TypeOK
<1>. QED  BY <1>1 DEF SoloProc, Busy

LEMMA SoloHolds ==
  ASSUME Inv, SoloInv, NEW w \in Workers, pc[w] \in {"handling", "recording"}
  PROVE  LET j == holding[w] IN
           /\ j \in Jobs /\ row[j] \in Row /\ loaded[w] \in Row
           /\ row[j].status = "running" /\ loaded[w].status = "running"
           /\ loaded[w].attempts = row[j].attempts /\ row[j].attempts \in Nat
           /\ j \notin applied /\ row[j].attempts <= MaxAttempts + crashes
<1>1. ProcOK(w) /\ SoloProc(w)
  BY DEF Inv, ProcInv, SoloInv
<1>2. holding[w] \in Jobs
  BY <1>1 DEF ProcOK, Busy
<1>3. row[holding[w]] \in Row /\ loaded[w] \in Row
  BY <1>2 DEF Inv, TypeOK
<1>4. /\ row[holding[w]].status = "running" /\ loaded[w].status = "running"
      /\ loaded[w].attempts = row[holding[w]].attempts
  BY <1>1 DEF SoloProc, Busy
<1>5. SoloJob(holding[w])
  BY <1>2 DEF SoloInv
<1>. QED  BY <1>2, <1>3, <1>4, <1>5 DEF SoloJob, Row

LEMMA SoloComplete ==
  ASSUME Inv, SoloInv, IsSolo, NEW w \in Workers, HandleAndComplete(w)
  PROVE  SoloInv'
<1>. PICK j : j = holding[w]
  OBVIOUS
<1>. DEFINE r == CompletedRow(row[j], loaded[w])
<1>0. \A v \in Workers : v = w
  BY DEF IsSolo
<1>1. /\ j \in Jobs /\ row[j] \in Row /\ loaded[w] \in Row
      /\ row[j].status = "running" /\ loaded[w].status = "running"
      /\ row[j].attempts <= MaxAttempts + crashes
  BY SoloHolds DEF HandleAndComplete
<1>2. r.status = "succeeded" /\ r.attempts = row[j].attempts
  BY <1>1, SoloWrites, CompletedRowType
<1>3. /\ row' = [row EXCEPT ![j] = r] /\ applied' = applied \cup {j} /\ crashes' = crashes
      /\ pc' = [pc EXCEPT ![w] = "draining"]
  BY DEF HandleAndComplete, NextJob, histVars
<1>. HIDE DEF r
<1>4. row'[j] = r /\ \A k \in Jobs : k # j => row'[k] = row[k]
  BY <1>1, <1>3 DEF Inv, TypeOK
<1>5. SoloJob(j)'
  BY <1>1, <1>2, <1>3, <1>4 DEF SoloJob, Settled
<1>6. ASSUME NEW k \in Jobs, k # j PROVE SoloJob(k)'
  BY <1>0, <1>3, <1>4, <1>6, SoloOther
<1>7. \A v \in Workers : SoloProc(v)'
  BY <1>0, <1>3, SoloLeaves DEF Inv
<1>. QED  BY <1>5, <1>6, <1>7 DEF SoloInv

LEMMA SoloRecord ==
  ASSUME Inv, SoloInv, IsSolo, NEW w \in Workers, RecordFailure(w)
  PROVE  SoloInv'
<1>. PICK j : j = holding[w]
  OBVIOUS
<1>. DEFINE r == FailedRow(row[j], loaded[w])
<1>0. \A v \in Workers : v = w
  BY DEF IsSolo
<1>1. /\ j \in Jobs /\ row[j] \in Row /\ loaded[w] \in Row
      /\ row[j].status = "running" /\ loaded[w].status = "running"
      /\ loaded[w].attempts = row[j].attempts /\ row[j].attempts \in Nat
      /\ j \notin applied /\ row[j].attempts <= MaxAttempts + crashes
  BY SoloHolds DEF RecordFailure
<1>2. /\ r.status \in {"failed", "dead_letter"} /\ r.attempts = row[j].attempts
      /\ row[j].attempts >= MaxAttempts => r.status = "dead_letter"
  <2>1. /\ loaded[w].attempts >= MaxAttempts => r.status = "dead_letter"
        /\ ~(loaded[w].attempts >= MaxAttempts) => r.status = "failed"
    BY <1>1, SoloWrites
  <2>2. r.attempts = row[j].attempts
    BY <1>1, FailedRowType
  <2>. HIDE DEF r
  <2>. QED  BY <1>1, <2>1, <2>2
<1>3. /\ row' = [row EXCEPT ![j] = r] /\ applied' = applied /\ crashes' = crashes
      /\ pc' = [pc EXCEPT ![w] = "draining"]
  BY DEF RecordFailure, NextJob, histVars
<1>. HIDE DEF r
<1>4. row'[j] = r /\ \A k \in Jobs : k # j => row'[k] = row[k]
  BY <1>1, <1>3 DEF Inv, TypeOK
<1>5. SoloJob(j)'
  <2>1. crashes \in Nat
    BY DEF Inv, TypeOK
  <2>2. row[j].attempts = MaxAttempts + crashes => r.status = "dead_letter"
    BY <1>1, <1>2, <2>1, ConstantsAssumption
  <2>. QED  BY <1>1, <1>2, <1>3, <1>4, <2>2 DEF SoloJob, Settled
<1>6. ASSUME NEW k \in Jobs, k # j PROVE SoloJob(k)'
  BY <1>0, <1>3, <1>4, <1>6, SoloOther
<1>7. \A v \in Workers : SoloProc(v)'
  BY <1>0, <1>3, SoloLeaves DEF Inv
<1>. QED  BY <1>5, <1>6, <1>7 DEF SoloInv

(* A crash pays for one more claim of whatever job it interrupts. *)
LEMMA SoloCrash ==
  ASSUME Inv, SoloInv, IsSolo, NEW w \in Workers, Crash(w)
  PROVE  SoloInv'
<1>0. \A v \in Workers : v = w
  BY DEF IsSolo
<1>1. /\ row' = row /\ applied' = applied /\ crashes' = crashes + 1
      /\ pc' = [pc EXCEPT ![w] = "idle"] /\ crashes \in Nat
  BY DEF Crash, queueVars, Inv, TypeOK
<1>2. ASSUME NEW k \in Jobs PROVE SoloJob(k)'
  <2>1. row[k].attempts \in Nat /\ SoloJob(k)
    BY DEF Inv, TypeOK, Row, SoloInv
  <2>2. row[k].attempts <= MaxAttempts + crashes' /\ row[k].attempts # MaxAttempts + crashes'
    BY <1>1, <2>1, ConstantsAssumption DEF SoloJob
  <2>. QED  BY <1>1, <2>1, <2>2 DEF SoloJob
<1>3. \A v \in Workers : SoloProc(v)'
  BY <1>0, <1>1, SoloLeaves DEF Inv
<1>. QED  BY <1>2, <1>3 DEF SoloInv

LEMMA SoloNext ==
  ASSUME IsSolo
  PROVE  Inv /\ Inv' /\ SoloInv /\ [Next]_vars => SoloInv'
<1>. SUFFICES ASSUME Inv, Inv', SoloInv, [Next]_vars PROVE SoloInv'
  OBVIOUS
<1>1. ASSUME NEW j \in Jobs, Enqueue(j) \/ LeaseRunsOut(j) \/ BackoffPasses(j) PROVE SoloInv'
  BY <1>1, SoloEnvironment
<1>2. ASSUME NEW w \in Workers, Step(w) PROVE SoloInv'
  BY <1>2, SoloQuiet, SoloClaim, SoloComplete, SoloRecord DEF Step
<1>3. CASE UNCHANGED vars
  BY <1>3 DEF vars, SoloInv, SoloProc, SoloJob, Settled
<1>. QED  BY <1>1, <1>2, <1>3, SoloCrash DEF Next

(* With one process, a job is claimed past max_attempts only as often as   *)
(* the process crashed.                                                    *)
THEOREM SoloAttempts == ASSUME IsSolo PROVE Spec => []AttemptsPaidByCrashes
<1>1. SoloInv => AttemptsPaidByCrashes
  BY DEF SoloInv, SoloJob, AttemptsPaidByCrashes
<1>. QED  BY <1>1, SpecInv, SoloInit, SoloNext, PTL DEF Spec

-----------------------------------------------------------------------------
(* What the solo process loads is what it still writes to, so a status it  *)
(* sets is emitted along with the lease it clears.                         *)
LEMMA LeasedNext ==
  ASSUME IsSolo
  PROVE  Inv /\ SoloInv /\ RunningIsLeased /\ [Next]_vars => RunningIsLeased'
<1>. SUFFICES ASSUME Inv, SoloInv, RunningIsLeased, [Next]_vars,
                     NEW k \in Jobs, row'[k].status = "running"
              PROVE  row'[k].lease # "none"
  BY DEF RunningIsLeased
<1>0. TypeOK /\ row[k] \in Row /\ (row[k].status = "running" => row[k].lease # "none")
  BY DEF Inv, TypeOK, RunningIsLeased
<1>1. ASSUME NEW j \in Jobs, Enqueue(j) \/ LeaseRunsOut(j) \/ BackoffPasses(j)
      PROVE  row'[k].lease # "none"
  <2>1. CASE Enqueue(j)
    BY <1>0, <2>1 DEF Enqueue, TypeOK, Row
  <2>2. CASE LeaseRunsOut(j)
    BY <1>0, <2>2 DEF LeaseRunsOut, TypeOK, Row
  <2>3. CASE BackoffPasses(j)
    <3>. DEFINE r == [row[k] EXCEPT !.due = TRUE]
    <3>1. r.status = row[k].status /\ r.lease = row[k].lease
      BY <1>0 DEF Row
    <3>2. row'[k] = r \/ row'[k] = row[k]
      BY <1>0, <2>3 DEF BackoffPasses, TypeOK
    <3>. HIDE DEF r
    <3>. QED  BY <1>0, <3>1, <3>2
  <2>. QED  BY <1>1, <2>1, <2>2, <2>3
<1>2. ASSUME NEW w \in Workers, Tick(w) PROVE row'[k].lease # "none"
  BY <1>0, <1>2 DEF Tick, ReapedRow, Reclaimable, TypeOK, Row
<1>3. ASSUME NEW w \in Workers, Claim(w) PROVE row'[k].lease # "none"
  BY <1>0, <1>3 DEF Claim, NextClaims, ClaimedRow, TypeOK, Row
<1>4. ASSUME NEW w \in Workers, HandleAndComplete(w) \/ RecordFailure(w)
      PROVE  row'[k].lease # "none"
  <2>1. /\ holding[w] \in Jobs /\ row[holding[w]] \in Row /\ loaded[w] \in Row
        /\ row[holding[w]].status = "running" /\ loaded[w].status = "running"
    BY <1>4, SoloHolds DEF HandleAndComplete, RecordFailure
  <2>2. \/ row' = [row EXCEPT ![holding[w]] = CompletedRow(row[holding[w]], loaded[w])]
        \/ row' = [row EXCEPT ![holding[w]] = FailedRow(row[holding[w]], loaded[w])]
    BY <1>4 DEF HandleAndComplete, RecordFailure
  <2>3. CompletedRow(row[holding[w]], loaded[w]).status # "running"
    BY <2>1, SoloWrites
  <2>4. FailedRow(row[holding[w]], loaded[w]).status # "running"
    BY <2>1, SoloWrites
  <2>5. k # holding[w]
    BY <1>0, <2>1, <2>2, <2>3, <2>4 DEF TypeOK
  <2>6. row'[k] = row[k]
    BY <1>0, <2>2, <2>5 DEF TypeOK
  <2>. QED  BY <1>0, <2>6
<1>5. ASSUME NEW w \in Workers,
             \/ StopDraining(w) \/ StartHandling(w) \/ HandlerRaises(w) \/ StartRecording(w)
             \/ Crash(w)
      PROVE  row'[k].lease # "none"
  BY <1>0, <1>5 DEF StopDraining, StartHandling, HandlerRaises, StartRecording, Crash, queueVars
<1>6. CASE UNCHANGED vars
  BY <1>0, <1>6 DEF vars
<1>. QED  BY <1>1, <1>2, <1>3, <1>4, <1>5, <1>6 DEF Next, Step

(* With one process, a running job always has a lease for the reaper to    *)
(* find expired (worker.py:6).                                             *)
THEOREM SoloRunningIsLeased == ASSUME IsSolo PROVE Spec => []RunningIsLeased
<1>1. Init => RunningIsLeased
  BY DEF Init, RunningIsLeased, NoRow
<1>. QED  BY <1>1, SpecInv, SoloInit, SoloNext, LeasedNext, PTL DEF Spec

-----------------------------------------------------------------------------
(* The solo process implements JobContract.                                *)

LEMMA OpenStates ==
  /\ ContractState("absent") = "absent"
  /\ ContractState("succeeded") = "done"
  /\ ContractState("dead_letter") = "dead"
  /\ \A s \in {"pending", "running", "failed"} : ContractState(s) = "open"
BY DEF ContractState

(* A step that moves no row between the abstract states is a stutter of    *)
(* the contract; one that moves a single row updates the abstract state    *)
(* at that job.                                                            *)
LEMMA ContractSilent ==
  ASSUME applied' = applied,
         \A k \in Jobs : ContractState(row'[k].status) = ContractState(row[k].status)
  PROVE  UNCHANGED JC!vars
BY DEF JC!vars

LEMMA ContractMoves ==
  ASSUME NEW j \in Jobs, \A k \in Jobs : k # j => row'[k] = row[k]
  PROVE  [k \in Jobs |-> ContractState(row'[k].status)] =
           [[k \in Jobs |-> ContractState(row[k].status)] EXCEPT ![j] = ContractState(row'[j].status)]
<1>1. \A k \in Jobs : k # j => ContractState(row'[k].status) = ContractState(row[k].status)
  OBVIOUS
<1>. QED  BY <1>1

LEMMA ContractInit == Init => JC!Init
BY OpenStates DEF Init, JC!Init, NoRow

LEMMA ContractStep ==
  ASSUME IsSolo
  PROVE  Inv /\ SoloInv /\ [Next]_vars => [JC!Next]_(JC!vars)
<1>. SUFFICES ASSUME Inv, SoloInv, [Next]_vars PROVE [JC!Next]_(JC!vars)
  OBVIOUS
<1>0. TypeOK
  BY DEF Inv
<1>1. ASSUME NEW j \in Jobs, Enqueue(j) PROVE JC!Submit(j)
  <2>. DEFINE r == [row[j] EXCEPT !.status = "pending"]
  <2>1. row' = [row EXCEPT ![j] = r] /\ row[j].status = "absent" /\ applied' = applied
    BY <1>1 DEF Enqueue
  <2>2. r.status = "pending"
    BY <1>0 DEF TypeOK, Row
  <2>. HIDE DEF r
  <2>3. row'[j] = r /\ \A k \in Jobs : k # j => row'[k] = row[k]
    BY <1>0, <2>1 DEF TypeOK
  <2>4. ContractState(row[j].status) = "absent" /\ ContractState(row'[j].status) = "open"
    BY <2>1, <2>2, <2>3, OpenStates
  <2>. QED  BY <2>1, <2>3, <2>4, ContractMoves DEF JC!Submit
<1>2. ASSUME NEW j \in Jobs, LeaseRunsOut(j) \/ BackoffPasses(j) PROVE UNCHANGED JC!vars
  <2>1. row[j] \in Row /\ applied' = applied
    BY <1>0, <1>2 DEF TypeOK, LeaseRunsOut, BackoffPasses
  <2>2. CASE LeaseRunsOut(j)
    <3>. DEFINE r == [row[j] EXCEPT !.lease = "expired"]
    <3>1. row' = [row EXCEPT ![j] = r] /\ r.status = row[j].status
      BY <2>1, <2>2 DEF LeaseRunsOut, Row
    <3>. HIDE DEF r
    <3>2. \A k \in Jobs : row'[k].status = row[k].status
      BY <1>0, <3>1 DEF TypeOK
    <3>. QED  BY <2>1, <3>2, ContractSilent
  <2>3. CASE BackoffPasses(j)
    <3>. DEFINE r == [row[j] EXCEPT !.due = TRUE]
    <3>1. row' = [row EXCEPT ![j] = r] /\ r.status = row[j].status
      BY <2>1, <2>3, DueRowType DEF BackoffPasses
    <3>. HIDE DEF r
    <3>2. \A k \in Jobs : row'[k].status = row[k].status
      BY <1>0, <3>1 DEF TypeOK
    <3>. QED  BY <2>1, <3>2, ContractSilent
  <2>. QED  BY <1>2, <2>2, <2>3
<1>3. ASSUME NEW w \in Workers, Tick(w) PROVE UNCHANGED JC!vars
  <2>1. ASSUME NEW k \in Jobs PROVE ContractState(row'[k].status) = ContractState(row[k].status)
    <3>1. row'[k] = ReapedRow(row[k]) /\ row[k] \in Row
      BY <1>0, <1>3 DEF Tick, TypeOK
    <3>2. CASE Reclaimable(row[k])
      <4>1. row[k].status = "running" /\ row'[k].status \in {"running", "pending"}
        BY <3>1, <3>2, ReapedRowType DEF Reclaimable
      <4>. QED  BY <4>1, OpenStates
    <3>3. CASE ~Reclaimable(row[k])
      BY <3>1, <3>3 DEF ReapedRow
    <3>. QED  BY <3>2, <3>3
  <2>. QED  BY <1>3, <2>1, ContractSilent DEF Tick
<1>4. ASSUME NEW w \in Workers, Claim(w) PROVE UNCHANGED JC!vars
  <2>. PICK j \in NextClaims : row' = [row EXCEPT ![j] = ClaimedRow(@, w)]
    BY <1>4 DEF Claim
  <2>1. j \in Jobs /\ row[j] \in Row /\ row[j].status \in {"pending", "failed"}
    BY <1>0 DEF NextClaims, Claimable, TypeOK
  <2>2. row'[j] = ClaimedRow(row[j], w) /\ \A k \in Jobs : k # j => row'[k] = row[k]
    BY <1>0, <2>1 DEF TypeOK
  <2>3. row'[j].status = "running"
    BY <2>1, <2>2, ClaimedRowType
  <2>4. \A k \in Jobs : ContractState(row'[k].status) = ContractState(row[k].status)
    BY <2>1, <2>2, <2>3, OpenStates
  <2>. QED  BY <1>4, <2>4, ContractSilent DEF Claim
<1>5. ASSUME NEW w \in Workers, HandleAndComplete(w) PROVE JC!Finish(holding[w])
  <2>. PICK j : j = holding[w]
    OBVIOUS
  <2>. DEFINE r == CompletedRow(row[j], loaded[w])
  <2>1. /\ j \in Jobs /\ row[j] \in Row /\ loaded[w] \in Row /\ j \notin applied
        /\ row[j].status = "running" /\ loaded[w].status = "running"
    BY <1>5, SoloHolds DEF HandleAndComplete
  <2>2. r.status = "succeeded" /\ row' = [row EXCEPT ![j] = r] /\ applied' = applied \cup {j}
    BY <1>5, <2>1, SoloWrites DEF HandleAndComplete
  <2>. HIDE DEF r
  <2>3. row'[j] = r /\ \A k \in Jobs : k # j => row'[k] = row[k]
    BY <1>0, <2>1, <2>2 DEF TypeOK
  <2>4. ContractState(row[j].status) = "open" /\ ContractState(row'[j].status) = "done"
    BY <2>1, <2>2, <2>3, OpenStates
  <2>5. JC!Finish(j)
    BY <2>1, <2>2, <2>3, <2>4, ContractMoves DEF JC!Finish
  <2>. QED  BY <2>5
<1>6. ASSUME NEW w \in Workers, RecordFailure(w)
      PROVE  JC!GiveUp(holding[w]) \/ UNCHANGED JC!vars
  <2>. PICK j : j = holding[w]
    OBVIOUS
  <2>. DEFINE r == FailedRow(row[j], loaded[w])
  <2>1. /\ j \in Jobs /\ row[j] \in Row /\ loaded[w] \in Row
        /\ row[j].status = "running" /\ loaded[w].status = "running"
    BY <1>6, SoloHolds DEF RecordFailure
  <2>2. r.status \in {"failed", "dead_letter"} /\ row' = [row EXCEPT ![j] = r] /\ applied' = applied
    BY <1>6, <2>1, SoloWrites DEF RecordFailure
  <2>. HIDE DEF r
  <2>3. row'[j] = r /\ \A k \in Jobs : k # j => row'[k] = row[k]
    BY <1>0, <2>1, <2>2 DEF TypeOK
  <2>4. ContractState(row[j].status) = "open"
    BY <2>1, OpenStates
  <2>5. CASE r.status = "dead_letter"
    <3>1. JC!GiveUp(j)
      BY <2>1, <2>2, <2>3, <2>4, <2>5, OpenStates, ContractMoves DEF JC!GiveUp
    <3>. QED  BY <3>1
  <2>6. CASE r.status = "failed"
    <3>1. \A k \in Jobs : ContractState(row'[k].status) = ContractState(row[k].status)
      BY <2>3, <2>4, <2>6, OpenStates
    <3>. QED  BY <2>2, <3>1, ContractSilent
  <2>. QED  BY <2>2, <2>5, <2>6
<1>7. ASSUME NEW w \in Workers,
             \/ StopDraining(w) \/ StartHandling(w) \/ HandlerRaises(w) \/ StartRecording(w)
             \/ Crash(w)
      PROVE  UNCHANGED JC!vars
  <2>1. row' = row /\ applied' = applied
    BY <1>7 DEF StopDraining, StartHandling, HandlerRaises, StartRecording, Crash, queueVars
  <2>. QED  BY <2>1, ContractSilent
<1>8. CASE UNCHANGED vars
  BY <1>8, ContractSilent DEF vars
<1>9. ASSUME NEW w \in Workers, HandleAndComplete(w) \/ RecordFailure(w) PROVE holding[w] \in Jobs
  BY <1>9, SoloHolds DEF HandleAndComplete, RecordFailure
<1>. QED
  <2>1. ASSUME NEW j \in Jobs, Enqueue(j) \/ LeaseRunsOut(j) \/ BackoffPasses(j)
        PROVE  [JC!Next]_(JC!vars)
    BY <1>1, <1>2, <2>1 DEF JC!Next
  <2>2. ASSUME NEW w \in Workers, HandleAndComplete(w) \/ RecordFailure(w)
        PROVE  [JC!Next]_(JC!vars)
    BY <1>5, <1>6, <1>9, <2>2 DEF JC!Next
  <2>3. ASSUME NEW w \in Workers, Step(w) \/ Crash(w), ~HandleAndComplete(w), ~RecordFailure(w)
        PROVE  [JC!Next]_(JC!vars)
    BY <1>3, <1>4, <1>7, <2>3 DEF Step
  <2>. QED  BY <1>8, <2>1, <2>2, <2>3 DEF Next, Step

(* With one process, every behaviour of the queue is one of JobContract:   *)
(* a job's work is committed once, exactly when the job succeeds, and a    *)
(* settled job is never opened again.                                      *)
THEOREM SoloContract == ASSUME IsSolo PROVE Spec => Contract
<1>. QED  BY SpecInv, SoloInit, SoloNext, ContractInit, ContractStep, PTL DEF Spec, Contract, JC!Spec

=============================================================================
