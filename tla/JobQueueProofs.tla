--------------------------- MODULE JobQueueProofs ---------------------------
(***************************************************************************)
(* Proofs about JobQueue, for any sets of jobs and processes.              *)
(***************************************************************************)
EXTENDS JobQueue, FiniteSetTheorems, TLAPS

Busy == {"claimed", "handling", "failing", "recording"}

(* What ties a process to the table: while it works it holds a job and has *)
(* budget for it, and the attempts it has loaded never exceed the row's.   *)
ProcOK(w) ==
  /\ pc[w] \in Busy => holding[w] \in Jobs /\ budget[w] > 0
  /\ pc[w] \notin Busy => holding[w] = NoJob
  /\ pc[w] \in {"handling", "recording"} => loaded[w].attempts <= row[holding[w]].attempts

ProcInv == \A w \in Workers : ProcOK(w)

Inv == TypeOK /\ ProcInv /\ SucceededIsApplied /\ DeadLetterIsExhausted

-----------------------------------------------------------------------------
(* What each operation makes of a row.                                     *)

LEMMA NoRowType == NoRow \in Row
BY DEF NoRow, Row, Statuses, Leases

LEMMA ClaimedRowType ==
  ASSUME NEW r \in Row, NEW w \in Workers
  PROVE  /\ ClaimedRow(r, w) \in Row
         /\ ClaimedRow(r, w).attempts = r.attempts + 1
         /\ ClaimedRow(r, w).status = "running"
<1>. DEFINE r1 == [r EXCEPT !.status = "running"]
            r2 == [r1 EXCEPT !.owner = w]
            r3 == [r2 EXCEPT !.lease = "live"]
            r4 == [r3 EXCEPT !.attempts = r.attempts + 1]
<1>1. r1 \in Row /\ r1.status = "running"
  BY DEF Row, Statuses
<1>. HIDE DEF r1
<1>2. r2 \in Row /\ r2.status = "running"
  BY <1>1 DEF Row
<1>. HIDE DEF r2
<1>3. r3 \in Row /\ r3.status = "running"
  BY <1>2 DEF Row, Leases
<1>. HIDE DEF r3
<1>4. r4 \in Row /\ r4.attempts = r.attempts + 1 /\ r4.status = "running"
  BY <1>3 DEF Row
<1>5. ClaimedRow(r, w) = r4
  BY DEF ClaimedRow, r1, r2, r3, r4
<1>. QED  BY <1>4, <1>5

LEMMA ReleasedRow ==
  ASSUME NEW r \in Row, NEW seen \in Row, NEW status \in Statuses
  PROVE  /\ Released(r, seen, status) \in Row
         /\ Released(r, seen, status).attempts = r.attempts
         /\ Released(r, seen, status).status \in {r.status, status}
BY DEF Released, Flushed, Row, Statuses, Leases

LEMMA CompletedRowType ==
  ASSUME NEW r \in Row, NEW seen \in Row
  PROVE  /\ CompletedRow(r, seen) \in Row
         /\ CompletedRow(r, seen).attempts = r.attempts
         /\ CompletedRow(r, seen).status \in {r.status, "succeeded"}
BY ReleasedRow DEF CompletedRow, Statuses

LEMMA FailedRowType ==
  ASSUME NEW r \in Row, NEW seen \in Row
  PROVE  /\ FailedRow(r, seen) \in Row
         /\ FailedRow(r, seen).attempts = r.attempts
         /\ FailedRow(r, seen).status \in {r.status, "failed", "dead_letter"}
         /\ FailedRow(r, seen).status = "dead_letter" =>
              r.status = "dead_letter" \/ seen.attempts >= MaxAttempts
<1>1. CASE seen.attempts >= MaxAttempts
  BY <1>1, ReleasedRow DEF FailedRow, Statuses
<1>2. CASE ~(seen.attempts >= MaxAttempts)
  <2>1. FailedRow(r, seen) = [Released(r, seen, "failed") EXCEPT !.due = FALSE]
    BY <1>2 DEF FailedRow
  <2>2. /\ Released(r, seen, "failed") \in Row
        /\ Released(r, seen, "failed").attempts = r.attempts
        /\ Released(r, seen, "failed").status \in {r.status, "failed"}
    BY ReleasedRow DEF Statuses
  <2>. QED  BY <2>1, <2>2 DEF Row
<1>. QED  BY <1>1, <1>2

LEMMA ReapedRowType ==
  ASSUME NEW r \in Row
  PROVE  /\ ReapedRow(r) \in Row
         /\ ReapedRow(r).attempts = r.attempts
         /\ ReapedRow(r).status \in {r.status, "pending"}
BY DEF ReapedRow, Row, Statuses, Leases

-----------------------------------------------------------------------------
LEMMA DueRowType ==
  ASSUME NEW r \in Row
  PROVE  /\ [r EXCEPT !.due = TRUE] \in Row
         /\ [r EXCEPT !.due = TRUE].attempts = r.attempts
         /\ [r EXCEPT !.due = TRUE].status = r.status
BY DEF Row

(* A step that does not touch a process, and lowers no row's attempts,     *)
(* leaves it in order.                                                     *)
LEMMA OtherProc ==
  ASSUME TypeOK, ProcInv, TypeOK', NEW v \in Workers,
         pc'[v] = pc[v], holding'[v] = holding[v],
         loaded'[v] = loaded[v], budget'[v] = budget[v],
         \A k \in Jobs : row'[k].attempts >= row[k].attempts
  PROVE  ProcOK(v)'
<1>1. ProcOK(v)
  BY DEF ProcInv
<1>2. ASSUME pc[v] \in {"handling", "recording"}
      PROVE  loaded[v].attempts <= row'[holding[v]].attempts
  <2>1. holding[v] \in Jobs
    BY <1>1, <1>2 DEF ProcOK, Busy
  <2>2. row[holding[v]] \in Row /\ row'[holding[v]] \in Row /\ loaded[v] \in Row
    BY <2>1 DEF TypeOK
  <2>3. /\ row[holding[v]].attempts \in Nat /\ row'[holding[v]].attempts \in Nat
        /\ loaded[v].attempts \in Nat
    BY <2>2 DEF Row
  <2>. QED  BY <1>1, <1>2, <2>1, <2>3 DEF ProcOK
<1>. QED  BY <1>1, <1>2 DEF ProcOK

(* What a step may do to the rows without disturbing the two invariants    *)
(* about finished jobs.                                                    *)
LEMMA RowsInv ==
  ASSUME TypeOK, SucceededIsApplied, DeadLetterIsExhausted,
         row' \in [Jobs -> Row], applied \subseteq applied',
         \A k \in Jobs : row'[k].attempts >= row[k].attempts,
         \A k \in Jobs : row'[k].status = "succeeded" =>
                            row[k].status = "succeeded" \/ k \in applied',
         \A k \in Jobs : row'[k].status = "dead_letter" =>
                            row[k].status = "dead_letter" \/ row'[k].attempts >= MaxAttempts
  PROVE  SucceededIsApplied' /\ DeadLetterIsExhausted'
<1>1. SucceededIsApplied'
  BY DEF SucceededIsApplied
<1>2. DeadLetterIsExhausted'
  <2>. SUFFICES ASSUME NEW k \in Jobs, row'[k].status = "dead_letter"
                PROVE  row'[k].attempts >= MaxAttempts
    BY DEF DeadLetterIsExhausted
  <2>1. row[k].attempts \in Nat /\ row'[k].attempts \in Nat
    BY DEF TypeOK, Row
  <2>. QED  BY <2>1, ConstantsAssumption DEF DeadLetterIsExhausted
<1>. QED  BY <1>1, <1>2

-----------------------------------------------------------------------------
LEMMA InitInv == Init => Inv
<1>. SUFFICES ASSUME Init PROVE Inv
  OBVIOUS
<1>1. TypeOK
  BY NoRowType DEF Init, TypeOK, Steps
<1>2. ProcInv
  BY DEF Init, ProcInv, ProcOK, Busy
<1>3. SucceededIsApplied /\ DeadLetterIsExhausted
  BY DEF Init, SucceededIsApplied, DeadLetterIsExhausted, NoRow
<1>. QED  BY <1>1, <1>2, <1>3 DEF Inv

LEMMA EnqueueInv == ASSUME Inv, NEW j \in Jobs, Enqueue(j) PROVE Inv'
<1>. USE DEF Inv
<1>1. /\ row' \in [Jobs -> Row]
      /\ \A k \in Jobs : row'[k].attempts = row[k].attempts
      /\ \A k \in Jobs : row'[k].status \in {row[k].status, "pending"}
  BY DEF Enqueue, TypeOK, Row, Statuses, Leases
<1>2. TypeOK'
  BY <1>1 DEF TypeOK, Enqueue, procVars, histVars
<1>3. \A k \in Jobs : row'[k].attempts >= row[k].attempts
  BY <1>1 DEF TypeOK, Row
<1>4. ProcInv'
  BY <1>2, <1>3, OtherProc DEF ProcInv, Enqueue, procVars, histVars
<1>5. SucceededIsApplied' /\ DeadLetterIsExhausted'
  BY <1>1, <1>3, RowsInv DEF Enqueue, procVars, histVars
<1>. QED  BY <1>2, <1>4, <1>5

LEMMA LeaseRunsOutInv == ASSUME Inv, NEW j \in Jobs, LeaseRunsOut(j) PROVE Inv'
<1>. USE DEF Inv
<1>1. /\ row' \in [Jobs -> Row]
      /\ \A k \in Jobs : row'[k].attempts = row[k].attempts
      /\ \A k \in Jobs : row'[k].status \in {row[k].status, "pending"}
  BY DEF LeaseRunsOut, TypeOK, Row, Statuses, Leases
<1>2. TypeOK'
  BY <1>1 DEF TypeOK, LeaseRunsOut, procVars, histVars
<1>3. \A k \in Jobs : row'[k].attempts >= row[k].attempts
  BY <1>1 DEF TypeOK, Row
<1>4. ProcInv'
  BY <1>2, <1>3, OtherProc DEF ProcInv, LeaseRunsOut, procVars, histVars
<1>5. SucceededIsApplied' /\ DeadLetterIsExhausted'
  BY <1>1, <1>3, RowsInv DEF LeaseRunsOut, procVars, histVars
<1>. QED  BY <1>2, <1>4, <1>5

LEMMA BackoffPassesInv == ASSUME Inv, NEW j \in Jobs, BackoffPasses(j) PROVE Inv'
<1>. USE DEF Inv
<1>1. /\ row' \in [Jobs -> Row]
      /\ \A k \in Jobs : row'[k].attempts = row[k].attempts
      /\ \A k \in Jobs : row'[k].status \in {row[k].status, "pending"}
  <2>. DEFINE r == [row[j] EXCEPT !.due = TRUE]
  <2>1. row[j] \in Row
    BY DEF TypeOK
  <2>2. r \in Row /\ r.attempts = row[j].attempts /\ r.status = row[j].status
    BY <2>1, DueRowType
  <2>3. row' = [row EXCEPT ![j] = r]
    BY DEF BackoffPasses
  <2>. HIDE DEF r
  <2>. QED  BY <2>2, <2>3 DEF TypeOK
<1>2. TypeOK'
  BY <1>1 DEF TypeOK, BackoffPasses, procVars, histVars
<1>3. \A k \in Jobs : row'[k].attempts >= row[k].attempts
  BY <1>1 DEF TypeOK, Row
<1>4. ProcInv'
  BY <1>2, <1>3, OtherProc DEF ProcInv, BackoffPasses, procVars, histVars
<1>5. SucceededIsApplied' /\ DeadLetterIsExhausted'
  BY <1>1, <1>3, RowsInv DEF BackoffPasses, procVars, histVars
<1>. QED  BY <1>2, <1>4, <1>5

LEMMA TickInv == ASSUME Inv, NEW w \in Workers, Tick(w) PROVE Inv'
<1>. USE DEF Inv
<1>1. /\ row' \in [Jobs -> Row]
      /\ \A k \in Jobs : row'[k].attempts = row[k].attempts
      /\ \A k \in Jobs : row'[k].status \in {row[k].status, "pending"}
  BY ReapedRowType DEF Tick, TypeOK
<1>2. TypeOK'
  <2>1. reaps' \in [Jobs -> Nat]
    BY DEF Tick, TypeOK
  <2>2. budget' \in [Workers -> Nat]
    BY ConstantsAssumption DEF Tick, TypeOK
  <2>. QED  BY <1>1, <2>1, <2>2 DEF Tick, TypeOK, Steps
<1>3. \A k \in Jobs : row'[k].attempts >= row[k].attempts
  BY <1>1 DEF TypeOK, Row
<1>4. ProcOK(w)'
  <2>1. ProcOK(w) /\ pc[w] = "idle"
    BY DEF ProcInv, Tick
  <2>2. pc'[w] = "draining" /\ holding' = holding
    BY DEF Tick, TypeOK
  <2>. QED  BY <2>1, <2>2 DEF ProcOK, Busy
<1>5. ASSUME NEW v \in Workers, v # w PROVE ProcOK(v)'
  <2>1. pc'[v] = pc[v] /\ holding'[v] = holding[v] /\ loaded'[v] = loaded[v] /\ budget'[v] = budget[v]
    BY <1>5 DEF Tick, TypeOK
  <2>. QED  BY <2>1, <1>2, <1>3, OtherProc
<1>6. SucceededIsApplied' /\ DeadLetterIsExhausted'
  BY <1>1, <1>3, RowsInv DEF Tick
<1>. QED  BY <1>2, <1>4, <1>5, <1>6 DEF ProcInv

LEMMA ClaimInv == ASSUME Inv, NEW w \in Workers, Claim(w) PROVE Inv'
<1>. USE DEF Inv
<1>. PICK j \in NextClaims :
       /\ row' = [row EXCEPT ![j] = ClaimedRow(@, w)]
       /\ holding' = [holding EXCEPT ![w] = j]
       /\ pc' = [pc EXCEPT ![w] = IF j \in Unhandled THEN "failing" ELSE "claimed"]
  BY DEF Claim
<1>1. j \in Jobs /\ row[j] \in Row
  BY DEF NextClaims, TypeOK
<1>2. /\ row' \in [Jobs -> Row]
      /\ \A k \in Jobs : row'[k].attempts >= row[k].attempts
      /\ \A k \in Jobs : row'[k].status \in {row[k].status, "running"}
  BY <1>1, ClaimedRowType DEF TypeOK, Row
<1>3. TypeOK'
  BY <1>1, <1>2 DEF TypeOK, Claim, histVars, Steps
<1>4. loaded' = loaded /\ budget' = budget /\ budget[w] > 0
  BY DEF Claim, MayClaim
<1>5. ProcOK(w)'
  BY <1>1, <1>4 DEF TypeOK, ProcOK, Busy
<1>6. ASSUME NEW v \in Workers, v # w PROVE ProcOK(v)'
  <2>1. pc'[v] = pc[v] /\ holding'[v] = holding[v]
    BY <1>6 DEF TypeOK
  <2>. QED  BY <2>1, <1>2, <1>3, <1>4, OtherProc
<1>7. SucceededIsApplied' /\ DeadLetterIsExhausted'
  BY <1>2, RowsInv DEF Claim
<1>. QED  BY <1>3, <1>5, <1>6, <1>7 DEF ProcInv

LEMMA StopDrainingInv == ASSUME Inv, NEW w \in Workers, StopDraining(w) PROVE Inv'
<1>. USE DEF Inv, StopDraining, queueVars, histVars
<1>1. ProcOK(w)
  BY DEF ProcInv
<1>2. TypeOK'
  BY <1>1 DEF TypeOK, Steps, ProcOK, Busy
<1>3. \A k \in Jobs : row'[k].attempts >= row[k].attempts
  BY DEF TypeOK, Row
<1>4. ProcOK(w)'
  BY <1>1, <1>3 DEF TypeOK, ProcOK, Busy, Row
<1>5. ASSUME NEW v \in Workers, v # w PROVE ProcOK(v)'
  <2>1. pc'[v] = pc[v] /\ holding'[v] = holding[v] /\ loaded'[v] = loaded[v] /\ budget'[v] = budget[v]
    BY <1>5 DEF TypeOK
  <2>. QED  BY <2>1, <1>2, <1>3, OtherProc
<1>6. SucceededIsApplied' /\ DeadLetterIsExhausted'
  BY DEF SucceededIsApplied, DeadLetterIsExhausted
<1>. QED  BY <1>2, <1>4, <1>5, <1>6 DEF ProcInv

LEMMA StartHandlingInv == ASSUME Inv, NEW w \in Workers, StartHandling(w) PROVE Inv'
<1>. USE DEF Inv, StartHandling, queueVars, histVars
<1>1. ProcOK(w)
  BY DEF ProcInv
<1>2. TypeOK'
  BY <1>1 DEF TypeOK, Steps, ProcOK, Busy
<1>3. \A k \in Jobs : row'[k].attempts >= row[k].attempts
  BY DEF TypeOK, Row
<1>4. ProcOK(w)'
  BY <1>1, <1>3 DEF TypeOK, ProcOK, Busy, Row
<1>5. ASSUME NEW v \in Workers, v # w PROVE ProcOK(v)'
  <2>1. pc'[v] = pc[v] /\ holding'[v] = holding[v] /\ loaded'[v] = loaded[v] /\ budget'[v] = budget[v]
    BY <1>5 DEF TypeOK
  <2>. QED  BY <2>1, <1>2, <1>3, OtherProc
<1>6. SucceededIsApplied' /\ DeadLetterIsExhausted'
  BY DEF SucceededIsApplied, DeadLetterIsExhausted
<1>. QED  BY <1>2, <1>4, <1>5, <1>6 DEF ProcInv

LEMMA HandlerRaisesInv == ASSUME Inv, NEW w \in Workers, HandlerRaises(w) PROVE Inv'
<1>. USE DEF Inv, HandlerRaises, queueVars, histVars
<1>1. ProcOK(w)
  BY DEF ProcInv
<1>2. TypeOK'
  BY <1>1, NoRowType DEF TypeOK, Steps, ProcOK, Busy
<1>3. \A k \in Jobs : row'[k].attempts >= row[k].attempts
  BY DEF TypeOK, Row
<1>4. ProcOK(w)'
  BY <1>1, <1>3 DEF TypeOK, ProcOK, Busy, Row
<1>5. ASSUME NEW v \in Workers, v # w PROVE ProcOK(v)'
  <2>1. pc'[v] = pc[v] /\ holding'[v] = holding[v] /\ loaded'[v] = loaded[v] /\ budget'[v] = budget[v]
    BY <1>5 DEF TypeOK
  <2>. QED  BY <2>1, <1>2, <1>3, OtherProc
<1>6. SucceededIsApplied' /\ DeadLetterIsExhausted'
  BY DEF SucceededIsApplied, DeadLetterIsExhausted
<1>. QED  BY <1>2, <1>4, <1>5, <1>6 DEF ProcInv

LEMMA StartRecordingInv == ASSUME Inv, NEW w \in Workers, StartRecording(w) PROVE Inv'
<1>. USE DEF Inv, StartRecording, queueVars, histVars
<1>1. ProcOK(w)
  BY DEF ProcInv
<1>2. TypeOK'
  BY <1>1 DEF TypeOK, Steps, ProcOK, Busy
<1>3. \A k \in Jobs : row'[k].attempts >= row[k].attempts
  BY DEF TypeOK, Row
<1>4. ProcOK(w)'
  BY <1>1, <1>3 DEF TypeOK, ProcOK, Busy, Row
<1>5. ASSUME NEW v \in Workers, v # w PROVE ProcOK(v)'
  <2>1. pc'[v] = pc[v] /\ holding'[v] = holding[v] /\ loaded'[v] = loaded[v] /\ budget'[v] = budget[v]
    BY <1>5 DEF TypeOK
  <2>. QED  BY <2>1, <1>2, <1>3, OtherProc
<1>6. SucceededIsApplied' /\ DeadLetterIsExhausted'
  BY DEF SucceededIsApplied, DeadLetterIsExhausted
<1>. QED  BY <1>2, <1>4, <1>5, <1>6 DEF ProcInv

LEMMA CrashInv == ASSUME Inv, NEW w \in Workers, Crash(w) PROVE Inv'
<1>. USE DEF Inv, Crash, queueVars, histVars
<1>1. ProcOK(w)
  BY DEF ProcInv
<1>2. TypeOK'
  BY <1>1, NoRowType DEF TypeOK, Steps, ProcOK, Busy
<1>3. \A k \in Jobs : row'[k].attempts >= row[k].attempts
  BY DEF TypeOK, Row
<1>4. ProcOK(w)'
  BY <1>1, <1>3 DEF TypeOK, ProcOK, Busy, Row
<1>5. ASSUME NEW v \in Workers, v # w PROVE ProcOK(v)'
  <2>1. pc'[v] = pc[v] /\ holding'[v] = holding[v] /\ loaded'[v] = loaded[v] /\ budget'[v] = budget[v]
    BY <1>5 DEF TypeOK
  <2>. QED  BY <2>1, <1>2, <1>3, OtherProc
<1>6. SucceededIsApplied' /\ DeadLetterIsExhausted'
  BY DEF SucceededIsApplied, DeadLetterIsExhausted
<1>. QED  BY <1>2, <1>4, <1>5, <1>6 DEF ProcInv

LEMMA HandleAndCompleteInv == ASSUME Inv, NEW w \in Workers, HandleAndComplete(w) PROVE Inv'
<1>. USE DEF Inv
<1>. DEFINE j == holding[w]
            r == CompletedRow(row[j], loaded[w])
<1>1. /\ j \in Jobs /\ row[j] \in Row /\ loaded[w] \in Row /\ budget[w] \in Nat \ {0}
      /\ loaded[w].attempts <= row[j].attempts
  BY DEF TypeOK, ProcInv, ProcOK, Busy, HandleAndComplete
<1>2. row' = [row EXCEPT ![j] = r]
  BY DEF HandleAndComplete
<1>3. r \in Row /\ r.attempts = row[j].attempts /\ r.status \in {row[j].status, "succeeded"}
  BY <1>1, CompletedRowType
<1>4. /\ pc' = [pc EXCEPT ![w] = "draining"]
      /\ holding' = [holding EXCEPT ![w] = NoJob]
      /\ loaded' = [loaded EXCEPT ![w] = NoRow]
      /\ budget' = [budget EXCEPT ![w] = @ - 1]
  BY DEF HandleAndComplete, NextJob
<1>5. j \in applied'
  BY <1>1 DEF HandleAndComplete
<1>. HIDE DEF r
<1>6. row' \in [Jobs -> Row] /\ \A k \in Jobs : row'[k].attempts = row[k].attempts
  BY <1>1, <1>2, <1>3 DEF TypeOK
<1>7. \A k \in Jobs : row'[k].attempts >= row[k].attempts
  BY <1>6 DEF TypeOK, Row
<1>8. TypeOK'
  <2>1. budget' \in [Workers -> Nat]
    BY <1>1, <1>4 DEF TypeOK
  <2>. QED  BY <1>1, <1>4, <1>6, <2>1, NoRowType DEF TypeOK, HandleAndComplete, histVars, Steps
<1>9. ProcOK(w)'
  BY <1>4 DEF TypeOK, ProcOK, Busy
<1>10. ASSUME NEW v \in Workers, v # w PROVE ProcOK(v)'
  <2>1. pc'[v] = pc[v] /\ holding'[v] = holding[v] /\ loaded'[v] = loaded[v] /\ budget'[v] = budget[v]
    BY <1>10, <1>4 DEF TypeOK
  <2>. QED  BY <2>1, <1>7, <1>8, OtherProc
<1>11. SucceededIsApplied' /\ DeadLetterIsExhausted'
  BY <1>1, <1>2, <1>3, <1>5, <1>6, <1>7, RowsInv DEF HandleAndComplete, TypeOK
<1>. QED  BY <1>8, <1>9, <1>10, <1>11 DEF ProcInv

LEMMA RecordFailureInv == ASSUME Inv, NEW w \in Workers, RecordFailure(w) PROVE Inv'
<1>. USE DEF Inv
<1>. DEFINE j == holding[w]
            r == FailedRow(row[j], loaded[w])
<1>1. /\ j \in Jobs /\ row[j] \in Row /\ loaded[w] \in Row /\ budget[w] \in Nat \ {0}
      /\ loaded[w].attempts <= row[j].attempts
  BY DEF TypeOK, ProcInv, ProcOK, Busy, RecordFailure
<1>2. row' = [row EXCEPT ![j] = r]
  BY DEF RecordFailure
<1>3. r \in Row /\ r.attempts = row[j].attempts /\ r.status \in {row[j].status, "failed", "dead_letter"}
  BY <1>1, FailedRowType
<1>4. /\ pc' = [pc EXCEPT ![w] = "draining"]
      /\ holding' = [holding EXCEPT ![w] = NoJob]
      /\ loaded' = [loaded EXCEPT ![w] = NoRow]
      /\ budget' = [budget EXCEPT ![w] = @ - 1]
  BY DEF RecordFailure, NextJob
<1>5. r.status = "dead_letter" => row[j].status = "dead_letter" \/ r.attempts >= MaxAttempts
  <2>1. row[j].attempts \in Nat /\ loaded[w].attempts \in Nat
    BY <1>1 DEF Row
  <2>2. r.status = "dead_letter" => row[j].status = "dead_letter" \/ loaded[w].attempts >= MaxAttempts
    BY <1>1, FailedRowType
  <2>. HIDE DEF r
  <2>. QED  BY <1>1, <1>3, <2>1, <2>2, ConstantsAssumption
<1>. HIDE DEF r
<1>6. row' \in [Jobs -> Row] /\ \A k \in Jobs : row'[k].attempts = row[k].attempts
  BY <1>1, <1>2, <1>3 DEF TypeOK
<1>7. \A k \in Jobs : row'[k].attempts >= row[k].attempts
  BY <1>6 DEF TypeOK, Row
<1>8. TypeOK'
  <2>1. budget' \in [Workers -> Nat]
    BY <1>1, <1>4 DEF TypeOK
  <2>. QED  BY <1>1, <1>4, <1>6, <2>1, NoRowType DEF TypeOK, RecordFailure, histVars, Steps
<1>9. ProcOK(w)'
  BY <1>4 DEF TypeOK, ProcOK, Busy
<1>10. ASSUME NEW v \in Workers, v # w PROVE ProcOK(v)'
  <2>1. pc'[v] = pc[v] /\ holding'[v] = holding[v] /\ loaded'[v] = loaded[v] /\ budget'[v] = budget[v]
    BY <1>10, <1>4 DEF TypeOK
  <2>. QED  BY <2>1, <1>7, <1>8, OtherProc
<1>11. SucceededIsApplied' /\ DeadLetterIsExhausted'
  BY <1>1, <1>2, <1>3, <1>5, <1>6, <1>7, RowsInv DEF RecordFailure, TypeOK
<1>. QED  BY <1>8, <1>9, <1>10, <1>11 DEF ProcInv

-----------------------------------------------------------------------------
LEMMA NextInv == Inv /\ [Next]_vars => Inv'
<1>. SUFFICES ASSUME Inv, [Next]_vars PROVE Inv'
  OBVIOUS
<1>1. ASSUME NEW j \in Jobs, Enqueue(j) \/ LeaseRunsOut(j) \/ BackoffPasses(j) PROVE Inv'
  BY <1>1, EnqueueInv, LeaseRunsOutInv, BackoffPassesInv
<1>2. ASSUME NEW w \in Workers, Step(w) PROVE Inv'
  BY <1>2, TickInv, ClaimInv, StopDrainingInv, StartHandlingInv, HandleAndCompleteInv,
     HandlerRaisesInv, StartRecordingInv, RecordFailureInv DEF Step
<1>3. ASSUME NEW w \in Workers, Crash(w) PROVE Inv'
  BY <1>3, CrashInv
<1>4. CASE UNCHANGED vars
  BY <1>4 DEF vars, Inv, TypeOK, ProcInv, ProcOK, SucceededIsApplied, DeadLetterIsExhausted
<1>. QED  BY <1>1, <1>2, <1>3, <1>4 DEF Next

LEMMA SpecInv == Spec => []Inv
BY InitInv, NextInv, PTL DEF Spec

(* Every variable of the queue and its processes keeps its type. *)
THEOREM TypeCorrect == Spec => []TypeOK
BY SpecInv, PTL DEF Inv

(* A job is never marked succeeded with its work rolled back (worker.py). *)
THEOREM NoWorkLost == Spec => []SucceededIsApplied
BY SpecInv, PTL DEF Inv

(* fail_job dead-letters no job before its max_attempts claims (queue.py). *)
THEOREM NoEarlyDeadLetter == Spec => []DeadLetterIsExhausted
BY SpecInv, PTL DEF Inv

-----------------------------------------------------------------------------
(* How many processes may be on one job.  CrowdPaidByReaps is not          *)
(* inductive: a claim adds a process, and it is the row not being running  *)
(* that leaves room for one.                                               *)
Room(j) == reaps[j] + (IF row[j].status = "running" THEN 1 ELSE 0)

CrowdInv == \A j \in Jobs : Cardinality(Holders(j)) <= Room(j)

LEMMA HoldersFinite ==
  ASSUME NEW j PROVE IsFiniteSet(Holders(j)) /\ Cardinality(Holders(j)) \in Nat
BY FiniteWorkers, FS_Subset, FS_CardinalityType DEF Holders

(* Steps in which no process takes or leaves a job: the reaper gives a     *)
(* reclaimed row as much room as it takes away.                            *)
LEMMA QuietCrowd ==
  ASSUME TypeOK, CrowdInv, holding' = holding, reaps' \in [Jobs -> Nat],
         \A k \in Jobs :
           \/ reaps'[k] = reaps[k] /\ (row'[k].status = "running" <=> row[k].status = "running")
           \/ reaps'[k] = reaps[k] + 1
  PROVE  CrowdInv'
<1>. SUFFICES ASSUME NEW k \in Jobs
              PROVE  Cardinality(Holders(k)') <= Room(k)'
  BY DEF CrowdInv
<1>1. Holders(k)' = Holders(k)
  BY DEF Holders
<1>2. Cardinality(Holders(k)) \in Nat /\ Cardinality(Holders(k)) <= Room(k)
  BY HoldersFinite DEF CrowdInv
<1>3. reaps[k] \in Nat /\ reaps'[k] \in Nat
  BY DEF TypeOK
<1>4. Room(k) <= Room(k)' /\ Room(k) \in Nat /\ Room(k)' \in Nat
  BY <1>3 DEF Room
<1>5. Cardinality(Holders(k)') = Cardinality(Holders(k))
  BY <1>1
<1>. QED  BY <1>2, <1>4, <1>5

(* Steps in which a process leaves the job it holds, if any. *)
LEMMA LeaveCrowd ==
  ASSUME TypeOK, CrowdInv, NEW w \in Workers, reaps' = reaps,
         holding' = [holding EXCEPT ![w] = NoJob],
         \A k \in Jobs : k # holding[w] => row'[k] = row[k]
  PROVE  CrowdInv'
<1>. SUFFICES ASSUME NEW k \in Jobs
              PROVE  Cardinality(Holders(k)') <= Room(k)'
  BY DEF CrowdInv
<1>1. Holders(k)' = Holders(k) \ {w}
  BY ConstantsAssumption DEF Holders, TypeOK
<1>2. Cardinality(Holders(k)) \in Nat /\ Cardinality(Holders(k)) <= Room(k)
  BY HoldersFinite DEF CrowdInv
<1>3. Cardinality(Holders(k) \ {w}) =
        IF w \in Holders(k) THEN Cardinality(Holders(k)) - 1 ELSE Cardinality(Holders(k))
  BY HoldersFinite, FS_RemoveElement
<1>4. reaps[k] \in Nat /\ reaps'[k] = reaps[k]
  BY DEF TypeOK
<1>5. w \in Holders(k) <=> holding[w] = k
  BY DEF Holders
<1>6. CASE holding[w] = k
  BY <1>1, <1>2, <1>3, <1>4, <1>5, <1>6 DEF Room
<1>7. CASE holding[w] # k
  <2>1. row'[k] = row[k]
    BY <1>7
  <2>. QED  BY <1>1, <1>2, <1>3, <1>4, <1>5, <1>7, <2>1 DEF Room
<1>. QED  BY <1>6, <1>7

(* A claim: the row was not running, so there is room for one more. *)
LEMMA ClaimCrowd ==
  ASSUME TypeOK, CrowdInv, NEW w \in Workers, Claim(w) PROVE CrowdInv'
<1>. PICK j \in NextClaims :
       /\ row' = [row EXCEPT ![j] = ClaimedRow(@, w)]
       /\ holding' = [holding EXCEPT ![w] = j]
  BY DEF Claim
<1>1. j \in Jobs /\ row[j] \in Row /\ row[j].status # "running"
  BY DEF NextClaims, Claimable, TypeOK
<1>2. reaps' = reaps
  BY DEF Claim, histVars
<1>. SUFFICES ASSUME NEW k \in Jobs
              PROVE  Cardinality(Holders(k)') <= Room(k)'
  BY DEF CrowdInv
<1>3. Cardinality(Holders(k)) \in Nat /\ Cardinality(Holders(k)) <= Room(k)
  BY HoldersFinite DEF CrowdInv
<1>4. reaps[k] \in Nat
  BY DEF TypeOK
<1>5. CASE k = j
  <2>1. Holders(k)' = Holders(k) \cup {w}
    BY <1>5, <1>1 DEF Holders, TypeOK
  <2>2. Cardinality(Holders(k) \cup {w}) =
          IF w \in Holders(k) THEN Cardinality(Holders(k)) ELSE Cardinality(Holders(k)) + 1
    BY HoldersFinite, FS_AddElement
  <2>3. row'[k].status = "running"
    <3>1. row'[k] = ClaimedRow(row[k], w) /\ row[k] \in Row
      BY <1>1, <1>5 DEF TypeOK
    <3>. QED  BY <3>1, ClaimedRowType
  <2>4. Room(k)' = reaps[k] + 1 /\ Room(k) = reaps[k]
    BY <1>1, <1>2, <1>4, <1>5, <2>3 DEF Room
  <2>. QED  BY <1>3, <1>4, <2>1, <2>2, <2>4
<1>6. CASE k # j
  <2>1. Holders(k)' = Holders(k) \ {w}
    BY <1>6, <1>1 DEF Holders, TypeOK
  <2>2. Cardinality(Holders(k) \ {w}) =
        IF w \in Holders(k) THEN Cardinality(Holders(k)) - 1 ELSE Cardinality(Holders(k))
    BY HoldersFinite, FS_RemoveElement
  <2>3. row'[k] = row[k]
    BY <1>6, <1>1 DEF TypeOK
  <2>4. Room(k)' = Room(k) /\ Room(k) \in Nat
    BY <1>2, <1>4, <2>3 DEF Room
  <2>. QED  BY <1>3, <1>4, <2>1, <2>2, <2>4
<1>. QED  BY <1>5, <1>6

LEMMA CrowdNext == Inv /\ Inv' /\ CrowdInv /\ [Next]_vars => CrowdInv'
<1>. SUFFICES ASSUME Inv, Inv', CrowdInv, [Next]_vars PROVE CrowdInv'
  OBVIOUS
<1>. TypeOK /\ TypeOK' /\ ProcInv
  BY DEF Inv
<1>0. reaps' \in [Jobs -> Nat]
  BY DEF TypeOK
<1>1. ASSUME NEW j \in Jobs, Enqueue(j) \/ LeaseRunsOut(j) \/ BackoffPasses(j) PROVE CrowdInv'
  <2>1. holding' = holding /\ reaps' = reaps
    BY <1>1 DEF Enqueue, LeaseRunsOut, BackoffPasses, procVars, histVars
  <2>2. \A k \in Jobs : row'[k].status = "running" <=> row[k].status = "running"
    <3>1. CASE Enqueue(j)
      <4>1. /\ row' = [row EXCEPT ![j] = [row[j] EXCEPT !.status = "pending"]]
            /\ row[j] \in Row /\ row[j].status = "absent"
        BY <3>1 DEF Enqueue, TypeOK
      <4>2. [row[j] EXCEPT !.status = "pending"].status = "pending"
        BY <4>1 DEF Row
      <4>. QED  BY <4>1, <4>2 DEF TypeOK
    <3>2. CASE LeaseRunsOut(j)
      <4>1. /\ row' = [row EXCEPT ![j] = [row[j] EXCEPT !.lease = "expired"]]
            /\ row[j] \in Row
        BY <3>2 DEF LeaseRunsOut, TypeOK
      <4>2. [row[j] EXCEPT !.lease = "expired"].status = row[j].status
        BY <4>1 DEF Row
      <4>. QED  BY <4>1, <4>2 DEF TypeOK
    <3>3. CASE BackoffPasses(j)
      <4>1. row' = [row EXCEPT ![j] = [row[j] EXCEPT !.due = TRUE]] /\ row[j] \in Row
        BY <3>3 DEF BackoffPasses, TypeOK
      <4>. QED  BY <4>1, DueRowType DEF TypeOK
    <3>. QED  BY <1>1, <3>1, <3>2, <3>3
  <2>. QED  BY <1>0, <2>1, <2>2, QuietCrowd
<1>2. ASSUME NEW w \in Workers, Tick(w) PROVE CrowdInv'
  <2>1. holding' = holding
    BY <1>2 DEF Tick
  <2>2. ASSUME NEW k \in Jobs
        PROVE  \/ reaps'[k] = reaps[k] /\ (row'[k].status = "running" <=> row[k].status = "running")
               \/ reaps'[k] = reaps[k] + 1
    BY <1>2 DEF Tick, ReapedRow
  <2>. QED  BY <1>0, <2>1, <2>2, QuietCrowd
<1>3. ASSUME NEW w \in Workers,
             StopDraining(w) \/ StartHandling(w) \/ HandlerRaises(w) \/ StartRecording(w)
      PROVE  CrowdInv'
  <2>1. holding' = holding /\ reaps' = reaps /\ row' = row
    BY <1>3 DEF StopDraining, StartHandling, HandlerRaises, StartRecording, queueVars, histVars
  <2>. QED  BY <1>0, <2>1, QuietCrowd
<1>4. ASSUME NEW w \in Workers, HandleAndComplete(w) \/ RecordFailure(w) \/ Crash(w)
      PROVE  CrowdInv'
  <2>1. /\ reaps' = reaps
        /\ holding' = [holding EXCEPT ![w] = NoJob]
        /\ \A k \in Jobs : k # holding[w] => row'[k] = row[k]
    BY <1>4 DEF HandleAndComplete, RecordFailure, Crash, NextJob, histVars, queueVars, TypeOK
  <2>. QED  BY <2>1, LeaveCrowd
<1>5. CASE UNCHANGED vars
  BY <1>0, <1>5, QuietCrowd DEF vars
<1>. QED  BY <1>1, <1>2, <1>3, <1>4, <1>5, ClaimCrowd DEF Next, Step

LEMMA CrowdInit == Init => CrowdInv
<1>. SUFFICES ASSUME Init, NEW j \in Jobs PROVE Cardinality(Holders(j)) <= Room(j)
  BY DEF CrowdInv
<1>1. Holders(j) = {}
  BY ConstantsAssumption DEF Holders, Init
<1>. QED  BY <1>1, FS_EmptySet DEF Init, Room, NoRow

(* Two processes are on one job only after the reaper took it from one of  *)
(* them, however many processes there are and however slow (queue.py).     *)
THEOREM CrowdBound == Spec => []CrowdPaidByReaps
<1>1. TypeOK /\ CrowdInv => CrowdPaidByReaps
  <2>. SUFFICES ASSUME TypeOK, CrowdInv, NEW j \in Jobs
                PROVE  Cardinality(Holders(j)) <= 1 + reaps[j]
    BY DEF CrowdPaidByReaps
  <2>1. Cardinality(Holders(j)) \in Nat /\ Cardinality(Holders(j)) <= Room(j) /\ reaps[j] \in Nat
    BY HoldersFinite DEF CrowdInv, TypeOK
  <2>. QED  BY <2>1 DEF Room
<1>. QED  BY <1>1, SpecInv, CrowdInit, CrowdNext, PTL DEF Spec, Inv

-----------------------------------------------------------------------------
(* How often a job is claimed.  AttemptsPaidByReaps is not inductive: once *)
(* the attempts have reached the limit, a row that can be claimed once     *)
(* more, and a process that will record a failure on the fewer attempts it *)
(* has loaded, are claims still to come, and must be paid for already.     *)
StaleRecorders(j) ==
  {w \in Workers : pc[w] = "recording" /\ holding[w] = j /\ loaded[w].attempts < MaxAttempts}

Reopen(j) == IF row[j].status \in {"running", "succeeded", "dead_letter"} THEN 0 ELSE 1

SpentOK(j) ==
  row[j].attempts >= MaxAttempts =>
    row[j].attempts + Reopen(j) + Cardinality(StaleRecorders(j)) <= MaxAttempts + reaps[j]

SpentInv == \A j \in Jobs : SpentOK(j)

LEMMA StaleFinite ==
  ASSUME NEW j
  PROVE  /\ IsFiniteSet(StaleRecorders(j)) /\ Cardinality(StaleRecorders(j)) \in Nat
         /\ Cardinality(StaleRecorders(j)) <= Cardinality(Holders(j))
<1>1. StaleRecorders(j) \subseteq Holders(j)
  BY DEF StaleRecorders, Holders
<1>. QED  BY <1>1, HoldersFinite, FS_Subset, FS_CardinalityType

LEMMA StaleFinitePrime ==
  ASSUME NEW j, StaleRecorders(j)' \subseteq StaleRecorders(j)
  PROVE  /\ Cardinality(StaleRecorders(j)') \in Nat
         /\ Cardinality(StaleRecorders(j)') <= Cardinality(StaleRecorders(j))
BY StaleFinite, FS_Subset, FS_CardinalityType

(* A step that claims nothing: a row is reopened only for a reap, or by a  *)
(* process that thereby ceases to be a stale recorder of it.               *)
LEMMA SpentKept ==
  ASSUME TypeOK, TypeOK', NEW k \in Jobs, SpentOK(k),
         row'[k].attempts = row[k].attempts,
         row[k].attempts >= MaxAttempts => StaleRecorders(k)' \subseteq StaleRecorders(k),
         reaps'[k] >= reaps[k],
         \/ row'[k].status \in {"running", "succeeded", "dead_letter"}
         \/ row[k].status \notin {"running", "succeeded", "dead_letter"}
         \/ reaps'[k] = reaps[k] + 1
         \/ Cardinality(StaleRecorders(k)') < Cardinality(StaleRecorders(k))
  PROVE  SpentOK(k)'
<1>. SUFFICES ASSUME row[k].attempts >= MaxAttempts
              PROVE  row'[k].attempts + Reopen(k)' + Cardinality(StaleRecorders(k)')
                       <= MaxAttempts + reaps'[k]
  BY DEF SpentOK
<1>1. row[k].attempts \in Nat /\ reaps[k] \in Nat /\ reaps'[k] \in Nat /\ MaxAttempts \in Nat
  BY ConstantsAssumption DEF TypeOK, Row
<1>2. /\ Cardinality(StaleRecorders(k)) \in Nat /\ Cardinality(StaleRecorders(k)') \in Nat
      /\ Cardinality(StaleRecorders(k)') <= Cardinality(StaleRecorders(k))
  BY StaleFinite, StaleFinitePrime
<1>3. row[k].attempts + Reopen(k) + Cardinality(StaleRecorders(k)) <= MaxAttempts + reaps[k]
  BY DEF SpentOK
<1>4. Reopen(k) \in {0, 1} /\ Reopen(k)' \in {0, 1}
  BY DEF Reopen
<1>5. \/ Reopen(k)' <= Reopen(k)
      \/ reaps'[k] = reaps[k] + 1
      \/ Cardinality(StaleRecorders(k)') < Cardinality(StaleRecorders(k))
  BY DEF Reopen
<1>. HIDE DEF SpentOK
<1>. QED  BY <1>1, <1>2, <1>3, <1>4, <1>5

(* A process at another job, or at none, is no stale recorder of this one. *)
LEMMA StaleElsewhere ==
  ASSUME TypeOK, NEW w \in Workers, NEW k,
         \A v \in Workers : v # w =>
           pc'[v] = pc[v] /\ holding'[v] = holding[v] /\ loaded'[v] = loaded[v],
         ~(pc'[w] = "recording" /\ holding'[w] = k)
  PROVE  StaleRecorders(k)' \subseteq StaleRecorders(k) \ {w}
BY DEF StaleRecorders

LEMMA SpentClaim ==
  ASSUME Inv, Inv', CrowdInv, SpentInv, NEW w \in Workers, Claim(w)
  PROVE  SpentInv'
<1>. TypeOK /\ TypeOK'
  BY DEF Inv
<1>. PICK j \in NextClaims :
       /\ row' = [row EXCEPT ![j] = ClaimedRow(@, w)]
       /\ holding' = [holding EXCEPT ![w] = j]
       /\ pc' = [pc EXCEPT ![w] = IF j \in Unhandled THEN "failing" ELSE "claimed"]
  BY DEF Claim
<1>1. /\ j \in Jobs /\ row[j] \in Row /\ row[j].status \in {"pending", "failed"}
      /\ loaded' = loaded /\ reaps' = reaps
  BY DEF NextClaims, Claimable, TypeOK, Claim, histVars
<1>2. \A k \in Jobs : StaleRecorders(k)' \subseteq StaleRecorders(k) \ {w}
  BY <1>1, StaleElsewhere DEF TypeOK
<1>3. ASSUME NEW k \in Jobs, k # j PROVE SpentOK(k)'
  <2>1. row'[k] = row[k] /\ SpentOK(k) /\ reaps[k] \in Nat
    BY <1>3 DEF TypeOK, SpentInv
  <2>. QED  BY <1>1, <1>2, <2>1, SpentKept
<1>4. SpentOK(j)'
  <2>1. row'[j].attempts = row[j].attempts + 1 /\ row'[j].status = "running"
    <3>1. row'[j] = ClaimedRow(row[j], w)
      BY <1>1 DEF TypeOK
    <3>. QED  BY <1>1, <3>1, ClaimedRowType
  <2>2. /\ row[j].attempts \in Nat /\ reaps[j] \in Nat /\ MaxAttempts \in Nat
        /\ Cardinality(StaleRecorders(j)) \in Nat
    BY ConstantsAssumption, StaleFinite DEF TypeOK, Row
  <2>3. /\ Cardinality(StaleRecorders(j)') \in Nat
        /\ Cardinality(StaleRecorders(j)') <= Cardinality(StaleRecorders(j))
    BY <1>1, <1>2, StaleFinitePrime
  <2>4. Reopen(j) = 1 /\ Reopen(j)' = 0
    BY <1>1, <2>1 DEF Reopen
  <2>5. CASE row[j].attempts >= MaxAttempts
    BY <1>1, <2>1, <2>2, <2>3, <2>4, <2>5 DEF SpentInv, SpentOK
  <2>6. CASE row[j].attempts < MaxAttempts
    <3>1. Cardinality(Holders(j)) <= reaps[j]
      <4>1. Cardinality(Holders(j)) <= Room(j)
        BY <1>1 DEF CrowdInv
      <4>2. Room(j) = reaps[j]
        BY <1>1, <2>2 DEF Room
      <4>. QED  BY <4>1, <4>2
    <3>2. Cardinality(StaleRecorders(j)) <= reaps[j]
      BY <2>2, <3>1, StaleFinite, HoldersFinite
    <3>3. row'[j].attempts <= MaxAttempts
      BY <2>1, <2>2, <2>6
    <3>4. row'[j].attempts + Reopen(j)' + Cardinality(StaleRecorders(j)') <= MaxAttempts + reaps'[j]
      BY <1>1, <2>1, <2>2, <2>3, <2>4, <3>2, <3>3
    <3>. QED  BY <3>4 DEF SpentOK
  <2>. QED  BY <2>2, <2>5, <2>6
<1>. QED  BY <1>3, <1>4 DEF SpentInv

(* fail_job ends a stale record of the job: it may open the row once more, *)
(* but only a process that had loaded fewer attempts does.                 *)
LEMMA SpentRecord ==
  ASSUME Inv, Inv', SpentInv, NEW w \in Workers, RecordFailure(w)
  PROVE  SpentInv'
<1>. TypeOK /\ TypeOK' /\ ProcOK(w)
  BY DEF Inv, ProcInv
<1>. PICK j : j = holding[w]
  OBVIOUS
<1>. DEFINE r == FailedRow(row[j], loaded[w])
<1>1. /\ j \in Jobs /\ row[j] \in Row /\ loaded[w] \in Row /\ pc[w] = "recording"
      /\ row' = [row EXCEPT ![j] = r] /\ reaps' = reaps
      /\ pc' = [pc EXCEPT ![w] = "draining"]
      /\ holding' = [holding EXCEPT ![w] = NoJob]
      /\ loaded' = [loaded EXCEPT ![w] = NoRow]
  BY DEF RecordFailure, NextJob, histVars, ProcOK, Busy, TypeOK
<1>2. \A k \in Jobs : StaleRecorders(k)' \subseteq StaleRecorders(k) \ {w}
  BY <1>1, StaleElsewhere DEF TypeOK
<1>3. ASSUME NEW k \in Jobs, k # j PROVE SpentOK(k)'
  <2>1. row'[k] = row[k] /\ SpentOK(k) /\ reaps[k] \in Nat
    BY <1>1, <1>3 DEF TypeOK, SpentInv
  <2>. QED  BY <1>1, <1>2, <2>1, SpentKept
<1>4. SpentOK(j)'
  <2>1. /\ r.attempts = row[j].attempts
        /\ loaded[w].attempts >= MaxAttempts => r.status \in {row[j].status, "dead_letter"}
    <3>1. r.attempts = row[j].attempts
      BY <1>1, FailedRowType
    <3>2. ASSUME loaded[w].attempts >= MaxAttempts
          PROVE  r.status \in {row[j].status, "dead_letter"}
      BY <1>1, <3>2, ReleasedRow DEF FailedRow, Statuses
    <3>. QED  BY <3>1, <3>2
  <2>. HIDE DEF r
  <2>2. row'[j] = r /\ SpentOK(j) /\ reaps[j] \in Nat /\ loaded[w].attempts \in Nat
    BY <1>1 DEF TypeOK, SpentInv, Row
  <2>3. CASE loaded[w].attempts >= MaxAttempts
    BY <1>1, <1>2, <2>1, <2>2, <2>3, SpentKept
  <2>4. CASE loaded[w].attempts < MaxAttempts
    <3>1. w \in StaleRecorders(j)
      BY <1>1, <2>4 DEF StaleRecorders
    <3>2. /\ IsFiniteSet(StaleRecorders(j) \ {w})
          /\ Cardinality(StaleRecorders(j) \ {w}) = Cardinality(StaleRecorders(j)) - 1
      BY <3>1, StaleFinite, FS_RemoveElement
    <3>3. Cardinality(StaleRecorders(j)') <= Cardinality(StaleRecorders(j) \ {w})
      BY <1>1, <1>2, <3>2, FS_Subset
    <3>4. Cardinality(StaleRecorders(j)') < Cardinality(StaleRecorders(j))
      BY <1>1, <1>2, <3>2, <3>3, StaleFinite, StaleFinitePrime
    <3>. QED  BY <1>1, <1>2, <2>1, <2>2, <3>4, SpentKept
  <2>. QED  BY <2>2, <2>3, <2>4, ConstantsAssumption
<1>. QED  BY <1>3, <1>4 DEF SpentInv

LEMMA SpentNext == Inv /\ Inv' /\ CrowdInv /\ SpentInv /\ [Next]_vars => SpentInv'
<1>. SUFFICES ASSUME Inv, Inv', CrowdInv, SpentInv, [Next]_vars PROVE SpentInv'
  OBVIOUS
<1>. TypeOK /\ TypeOK' /\ ProcInv
  BY DEF Inv
<1>0. \A k \in Jobs : SpentOK(k) /\ reaps[k] \in Nat /\ row[k] \in Row /\ row[k].attempts \in Nat
  BY DEF SpentInv, TypeOK, Row
<1>1. ASSUME NEW j \in Jobs, Enqueue(j) \/ LeaseRunsOut(j) \/ BackoffPasses(j) PROVE SpentInv'
  <2>1. reaps' = reaps /\ \A k : StaleRecorders(k)' \subseteq StaleRecorders(k)
    BY <1>1 DEF Enqueue, LeaseRunsOut, BackoffPasses, procVars, histVars, StaleRecorders
  <2>2. ASSUME NEW k \in Jobs
        PROVE  /\ row'[k].attempts = row[k].attempts
               /\ \/ row'[k].status = row[k].status
                  \/ row[k].status = "absent"
    <3>1. CASE Enqueue(j)
      BY <1>0, <3>1 DEF Enqueue, TypeOK, Row
    <3>2. CASE LeaseRunsOut(j)
      BY <1>0, <3>2 DEF LeaseRunsOut, TypeOK, Row
    <3>3. CASE BackoffPasses(j)
      <4>1. row' = [row EXCEPT ![j] = [row[j] EXCEPT !.due = TRUE]]
        BY <3>3 DEF BackoffPasses
      <4>. QED  BY <1>0, <4>1, DueRowType DEF TypeOK
    <3>. QED  BY <1>1, <3>1, <3>2, <3>3
  <2>3. ASSUME NEW k \in Jobs PROVE SpentOK(k)'
    BY <1>0, <2>1, <2>2, SpentKept
  <2>. QED  BY <2>3 DEF SpentInv
<1>2. ASSUME NEW w \in Workers, Tick(w) PROVE SpentInv'
  <2>1. ASSUME NEW k \in Jobs PROVE SpentOK(k)'
    <3>1. row'[k] = ReapedRow(row[k]) /\ row'[k].attempts = row[k].attempts
      BY <1>0, <1>2, ReapedRowType DEF Tick
    <3>2. StaleRecorders(k)' \subseteq StaleRecorders(k)
      BY <1>2 DEF Tick, StaleRecorders, TypeOK
    <3>3. CASE Reclaimable(row[k])
      <4>1. reaps'[k] = reaps[k] + 1
        BY <1>2, <3>3 DEF Tick
      <4>. QED  BY <1>0, <3>1, <3>2, <4>1, SpentKept
    <3>4. CASE ~Reclaimable(row[k])
      <4>1. reaps'[k] = reaps[k] /\ row'[k] = row[k]
        BY <1>2, <3>1, <3>4 DEF Tick, ReapedRow
      <4>. QED  BY <1>0, <3>2, <4>1, SpentKept
    <3>. QED  BY <3>3, <3>4
  <2>. QED  BY <2>1 DEF SpentInv
<1>3. ASSUME NEW w \in Workers,
             StopDraining(w) \/ StartHandling(w) \/ HandlerRaises(w) \/ Crash(w)
      PROVE  SpentInv'
  <2>1. row' = row /\ reaps' = reaps
    BY <1>3 DEF StopDraining, StartHandling, HandlerRaises, Crash, queueVars, histVars
  <2>2. \A k : StaleRecorders(k)' \subseteq StaleRecorders(k)
    BY <1>3 DEF StopDraining, StartHandling, HandlerRaises, Crash, StaleRecorders, TypeOK
  <2>3. ASSUME NEW k \in Jobs PROVE SpentOK(k)'
    BY <1>0, <2>1, <2>2, SpentKept
  <2>. QED  BY <2>3 DEF SpentInv
<1>4. ASSUME NEW w \in Workers, StartRecording(w) PROVE SpentInv'
  <2>1. row' = row /\ reaps' = reaps
    BY <1>4 DEF StartRecording, queueVars, histVars
  <2>2. ASSUME NEW k \in Jobs, row[k].attempts >= MaxAttempts
        PROVE  StaleRecorders(k)' \subseteq StaleRecorders(k)
    <3>1. /\ pc' = [pc EXCEPT ![w] = "recording"] /\ holding' = holding
          /\ loaded' = [loaded EXCEPT ![w] = row[holding[w]]]
      BY <1>4 DEF StartRecording
    <3>2. ASSUME holding[w] = k PROVE loaded'[w].attempts >= MaxAttempts
      BY <2>2, <3>1, <3>2 DEF TypeOK
    <3>3. loaded'[w].attempts >= MaxAttempts => ~(loaded'[w].attempts < MaxAttempts)
      <4>1. loaded'[w].attempts \in Nat
        BY DEF TypeOK, Row
      <4>. QED  BY <4>1, ConstantsAssumption
    <3>. QED  BY <3>1, <3>2, <3>3 DEF StaleRecorders, TypeOK
  <2>3. ASSUME NEW k \in Jobs PROVE SpentOK(k)'
    BY <1>0, <2>1, <2>2, SpentKept
  <2>. QED  BY <2>3 DEF SpentInv
<1>5. ASSUME NEW w \in Workers, HandleAndComplete(w) PROVE SpentInv'
  <2>. DEFINE r == CompletedRow(row[holding[w]], loaded[w])
  <2>1. /\ holding[w] \in Jobs /\ loaded[w] \in Row /\ reaps' = reaps
        /\ row' = [row EXCEPT ![holding[w]] = r]
    BY <1>5 DEF HandleAndComplete, histVars, ProcInv, ProcOK, Busy, TypeOK
  <2>2. r.attempts = row[holding[w]].attempts /\ r.status \in {row[holding[w]].status, "succeeded"}
    BY <1>0, <2>1, CompletedRowType
  <2>. HIDE DEF r
  <2>3. \A k : StaleRecorders(k)' \subseteq StaleRecorders(k)
    BY <1>5 DEF HandleAndComplete, NextJob, StaleRecorders, TypeOK
  <2>4. ASSUME NEW k \in Jobs PROVE SpentOK(k)'
    <3>1. row'[k].attempts = row[k].attempts /\ row'[k].status \in {row[k].status, "succeeded"}
      BY <2>1, <2>2 DEF TypeOK
    <3>. QED  BY <1>0, <2>1, <2>3, <3>1, SpentKept
  <2>. QED  BY <2>4 DEF SpentInv
<1>6. CASE UNCHANGED vars
  <2>1. ASSUME NEW k \in Jobs PROVE SpentOK(k)'
    BY <1>0, <1>6 DEF vars, SpentOK, Reopen, StaleRecorders
  <2>. QED  BY <2>1 DEF SpentInv
<1>. QED  BY <1>1, <1>2, <1>3, <1>4, <1>5, <1>6, SpentClaim, SpentRecord DEF Next, Step

LEMMA SpentInit == Init => SpentInv
<1>. SUFFICES ASSUME Init, NEW j \in Jobs PROVE SpentOK(j)
  BY DEF SpentInv
<1>1. row[j].attempts = 0
  BY DEF Init, NoRow
<1>. QED  BY <1>1, ConstantsAssumption DEF SpentOK

(* Failures alone never retry a job past max_attempts: every claim beyond  *)
(* the limit was paid for by a reap, whatever stale rows the failures of   *)
(* any number of processes are judged on (queue.py).                       *)
THEOREM AttemptBound == Spec => []AttemptsPaidByReaps
<1>1. TypeOK /\ SpentInv => AttemptsPaidByReaps
  <2>. SUFFICES ASSUME TypeOK, SpentInv, NEW j \in Jobs
                PROVE  row[j].attempts <= MaxAttempts + reaps[j]
    BY DEF AttemptsPaidByReaps
  <2>1. /\ row[j].attempts \in Nat /\ reaps[j] \in Nat /\ MaxAttempts \in Nat
        /\ Cardinality(StaleRecorders(j)) \in Nat /\ Reopen(j) \in {0, 1}
    BY ConstantsAssumption, StaleFinite DEF TypeOK, Row, Reopen
  <2>. HIDE DEF Reopen
  <2>. QED  BY <2>1 DEF SpentInv, SpentOK
<1>. QED  BY <1>1, SpecInv, CrowdInit, CrowdNext, SpentInit, SpentNext, PTL DEF Spec, Inv

=============================================================================
