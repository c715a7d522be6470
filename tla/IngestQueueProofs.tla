-------------------------- MODULE IngestQueueProofs --------------------------
(***************************************************************************)
(* Theorems about IngestQueue, for any number of jobs, workers and         *)
(* requests and any attempt limit.  The inductive invariant is             *)
(*   TypeOK /\ ProcessesOK /\ LeaseIntact /\ LeaseExclusive                *)
(*   /\ BudgetAccount                                                      *)
(* proved part by part, each part from the ones before it.                 *)
(***************************************************************************)
EXTENDS IngestQueue, SequenceTheorems, TLAPS

USE QueueAssumption, MaxAttemptsAssumption, OwnersAssumption

Assigned == [status: Statuses, attempts: Nat, owner: Owners, beat: Beats \cup {"now"}]

----------------------------------------------------------------------------
(* The row operators keep rows rows. *)

LEMMA RowOperators ==
    ASSUME NEW r \in Rows, NEW w \in Workers
    PROVE  /\ AbsentRow \in Rows
           /\ ClaimedBy(r, w) \in Rows
           /\ FailedAfterExhaustedAttempts(r) \in Rows
           /\ ResetPending(r) \in Rows /\ ResetPending(r) \in Assigned
           /\ SyncClaimed(r) \in Assigned
<1> USE DEF Rows, Statuses, Owners, Beats, Assigned
<1>1. AbsentRow \in Rows  BY DEF AbsentRow
<1>2. ClaimedBy(r, w) \in Rows  BY DEF ClaimedBy
<1>3. FailedAfterExhaustedAttempts(r) \in Rows  BY DEF FailedAfterExhaustedAttempts
<1>4. ResetPending(r) \in Rows /\ ResetPending(r) \in Assigned  BY DEF ResetPending
<1>5. SyncClaimed(r) \in Assigned  BY DEF SyncClaimed
<1>6. QED  BY <1>1, <1>2, <1>3, <1>4, <1>5

LEMMA ReleasedType ==
    ASSUME NEW r \in Rows, NEW s \in {"succeeded", "failed"}
    PROVE  Released(r, s) \in Rows /\ Released(r, s) \in Assigned
BY DEF Rows, Statuses, Owners, Beats, Assigned, Released

LEMMA FlushType ==
    ASSUME NEW stored \in Rows, NEW loaded \in Rows, NEW assigned \in Assigned
    PROVE  Flush(stored, loaded, assigned) \in Rows
BY DEF Rows, Beats, Assigned, Flush, Written

(* A flush never makes a stored row absent. *)
LEMMA FlushKeepsRow ==
    ASSUME NEW stored \in Rows, NEW loaded \in Rows, NEW assigned \in Assigned,
           stored.status # "absent", assigned.status # "absent"
    PROVE  Flush(stored, loaded, assigned).status # "absent"
BY DEF Rows, Assigned, Flush, Written

LEMMA NextStepType ==
    ASSUME NEW step \in RequestSteps
    PROVE  NextStep(step) \in RequestSteps
BY DEF NextStep, RequestSteps, TxSteps

LEMMA LoadedType ==
    ASSUME TypeOK, NEW r \in Requests
    PROVE  request[r].loaded \in Rows
BY DEF TypeOK, RequestStates

LEMMA BecomeType ==
    ASSUME TypeOK, NEW w \in Workers, NEW pc \in WorkerPcs, NEW job \in Jobs \cup {NoJob},
           NEW b \in BOOLEAN, NEW state, state = [pc |-> pc, job |-> job, beating |-> b],
           Become(w, state)
    PROVE  worker' \in [Workers -> WorkerStates]
<1>1. state \in WorkerStates  BY DEF WorkerStates
<1>2. QED  BY <1>1 DEF Become, TypeOK

LEMMA BeatType ==
    ASSUME TypeOK, NEW j \in Jobs, NEW beat \in Beats, row' = [row EXCEPT ![j] = Beat(@, beat)]
    PROVE  row' \in [Jobs -> Rows]
<1>1. row[j] \in Rows  BY DEF TypeOK
<1>2. Beat(row[j], beat) \in Rows  BY <1>1 DEF Beat, Rows
<1>3. QED  BY <1>2 DEF TypeOK

(* What Goto does, for the step it goes to. *)
LEMMA GotoType ==
    ASSUME TypeOK, NEW r \in Requests, NEW step \in RequestSteps, Goto(r, step)
    PROVE  request' \in [Requests -> RequestStates]
<1>1. AbsentRow \in Rows  BY DEF AbsentRow, Rows, Statuses, Owners, Beats
<1>2. QED  BY <1>1 DEF Goto, TypeOK, RequestStates

----------------------------------------------------------------------------
LEMMA InitBase == Init => TypeOK /\ ProcessesOK
<1> SUFFICES ASSUME Init PROVE TypeOK /\ ProcessesOK
  OBVIOUS
<1>1. AbsentRow \in Rows  BY DEF AbsentRow, Rows, Statuses, Owners, Beats
<1>2. inserted \in Seq(Jobs)  BY DEF Init
<1>3. TypeOK
  BY <1>1, <1>2 DEF Init, TypeOK, WorkerAt, WorkerStates, WorkerPcs, RequestStates, RequestSteps, TxSteps
<1>4. ProcessesOK
  BY DEF Init, ProcessesOK, WorkerAt, WorkerStates, Active, TxSteps, AbsentRow
<1> QED  BY <1>3, <1>4

(* A working worker has a job, and so has a request with an open           *)
(* transaction.                                                            *)
LEMMA JobsOfProcesses ==
    ASSUME TypeOK, ProcessesOK
    PROVE  /\ \A w \in Workers : Active(w) => worker[w].job \in Jobs
           /\ \A r \in Requests : request[r].step \notin {"new", "done", "error"}
                                    => request[r].job \in Jobs
BY DEF TypeOK, WorkerStates, RequestStates, ProcessesOK

(* The transactions of a request that loaded a row. *)
LEMMA CommitType ==
    ASSUME TypeOK, ProcessesOK, NEW r \in Requests, NEW step \in TxSteps,
           NEW assigned \in Assigned, Commit(r, step, assigned),
           \/ upserts' = upserts
           \/ upserts' = [upserts EXCEPT ![request[r].job] = @ + 1]
    PROVE  TypeOK'
<1>1. request[r].job \in Jobs  BY JobsOfProcesses DEF Commit, TxSteps
<1>2. Flush(row[request[r].job], request[r].loaded, assigned) \in Rows
  BY <1>1, FlushType, LoadedType DEF TypeOK
<1>3. row' \in [Jobs -> Rows]  BY <1>1, <1>2 DEF Commit, TypeOK
<1>4. NextStep(step) \in RequestSteps  BY NextStepType DEF RequestSteps
<1>5. Goto(r, NextStep(step))  BY DEF Commit
<1>6. lapsed' \in SUBSET Workers  BY DEF Commit, Bereft, TypeOK
<1>7. upserts' \in [Jobs -> Nat]
  <2>1. upserts \in [Jobs -> Nat]  BY DEF TypeOK
  <2>2. upserts[request[r].job] + 1 \in Nat  BY <1>1, <2>1
  <2>3. QED  BY <1>1, <2>1, <2>2
<1>8. UNCHANGED <<inserted, worker, crashes, starts>>  BY DEF Commit
<1>9. QED  BY <1>3, <1>4, <1>5, <1>6, <1>7, <1>8, GotoType DEF TypeOK

LEMMA TypeStep == TypeOK /\ ProcessesOK /\ [Next]_vars => TypeOK'
<1> SUFFICES ASSUME TypeOK, ProcessesOK, [Next]_vars PROVE TypeOK'
  OBVIOUS
<1>1. ASSUME NEW w \in Workers, WorkerNext(w) PROVE TypeOK'
  <2>1. ASSUME NEW skipped, NEW j \in Jobs, ClaimNextPending(w, j, skipped) PROVE TypeOK'
    <3>1. row' \in [Jobs -> Rows]
      BY <2>1, RowOperators DEF ClaimNextPending, TypeOK
    <3>2. worker' \in [Workers -> WorkerStates]
      BY <2>1, BecomeType DEF ClaimNextPending, WorkerAt, WorkerPcs
    <3>3. QED  BY <2>1, <3>1, <3>2 DEF ClaimNextPending, TypeOK
  <2>2. ASSUME NEW skipped, ClaimNothing(w, skipped) PROVE TypeOK'
    <3>1. row' \in [Jobs -> Rows]
      BY <2>2, RowOperators DEF ClaimNothing, TypeOK
    <3>2. QED  BY <2>2, <3>1 DEF ClaimNothing, TypeOK
  <2>3. CASE HeartbeatRead(w)
    BY <2>3 DEF HeartbeatRead, Become, TypeOK, WorkerStates, history
  <2>4. CASE HeartbeatWrite(w)
    <3>1. worker[w].job \in Jobs  BY <2>4, JobsOfProcesses DEF HeartbeatWrite, ProcessesOK, Active
    <3>2. row' \in [Jobs -> Rows]  BY <2>4, <3>1, BeatType DEF HeartbeatWrite, Beats
    <3>3. worker' \in [Workers -> WorkerStates]
      BY <2>4 DEF HeartbeatWrite, Become, TypeOK, WorkerStates
    <3>4. QED  BY <2>4, <3>2, <3>3 DEF HeartbeatWrite, TypeOK, history
  <2>5. ASSUME NEW outcome \in {"succeeded", "failed"}, FinishProcessing(w, outcome) PROVE TypeOK'
    <3>1. worker' \in [Workers -> WorkerStates]
      BY <2>5, BecomeType DEF FinishProcessing, WorkerAt, WorkerPcs, TypeOK, WorkerStates
    <3>2. QED  BY <2>5, <3>1 DEF FinishProcessing, TypeOK, history
  <2>6. CASE MarkRead(w)
    <3>1. worker' \in [Workers -> WorkerStates]
      BY <2>6, BecomeType DEF MarkRead, WorkerAt, WorkerPcs, TypeOK, WorkerStates
    <3>2. QED  BY <2>6, <3>1 DEF MarkRead, TypeOK, history
  <2>7. CASE MarkWrite(w)
    <3>1. worker[w].job \in Jobs  BY <2>7, JobsOfProcesses DEF MarkWrite, Active
    <3>2. row' \in [Jobs -> Rows]  BY <2>7, <3>1, ReleasedType DEF MarkWrite, TypeOK
    <3>3. worker' \in [Workers -> WorkerStates]
      BY <2>7, BecomeType DEF MarkWrite, WorkerAt, WorkerPcs
    <3>4. QED  BY <2>7, <3>2, <3>3 DEF MarkWrite, TypeOK, history
  <2>8. CASE MarkRaises(w)
    <3>1. worker' \in [Workers -> WorkerStates]
      BY <2>8, BecomeType DEF MarkRaises, WorkerAt, WorkerPcs
    <3>2. QED  BY <2>8, <3>1 DEF MarkRaises, TypeOK, history
  <2>9. CASE Crash(w)
    <3>1. worker' \in [Workers -> WorkerStates]
      BY <2>9, BecomeType DEF Crash, WorkerAt, WorkerPcs
    <3>2. crashes' \in 0..MaxCrashes  BY <2>9 DEF Crash, TypeOK
    <3>3. QED  BY <2>9, <3>1, <3>2 DEF Crash, TypeOK, history
  <2>10. CASE Restart(w)
    <3>1. worker' \in [Workers -> WorkerStates]
      BY <2>10, BecomeType DEF Restart, WorkerAt, WorkerPcs
    <3>2. QED  BY <2>10, <3>1 DEF Restart, TypeOK, history
  <2>11. QED
    BY <1>1, <2>1, <2>2, <2>3, <2>4, <2>5, <2>6, <2>7, <2>8, <2>9, <2>10 DEF WorkerNext, Claim
<1>2. ASSUME NEW r \in Requests, RequestNext(r) PROVE TypeOK'
  <2>1. ASSUME NEW j \in Jobs, Receive(r, j) PROVE TypeOK'
    <3>1. [request[r] EXCEPT !.step = "upsert", !.job = j] \in RequestStates
      BY DEF TypeOK, RequestStates, RequestSteps, TxSteps
    <3>2. QED  BY <2>1, <3>1 DEF Receive, TypeOK, history
  <2>2. CASE GetJob(r)
    <3>1. request[r].job \in Jobs  BY <2>2, JobsOfProcesses DEF GetJob, TxSteps
    <3>2. [request[r] EXCEPT !.open = TRUE, !.loaded = row[request[r].job]] \in RequestStates
      BY <3>1 DEF TypeOK, RequestStates
    <3>3. QED  BY <2>2, <3>2 DEF GetJob, TypeOK, history
  <2>3. CASE InsertJob(r)
    <3>1. request[r].job \in Jobs  BY <2>3, JobsOfProcesses DEF InsertJob
    <3>2. row' \in [Jobs -> Rows]
      <4>1. row[request[r].job] \in Rows  BY <3>1 DEF TypeOK
      <4>2. ResetPending(row[request[r].job]) \in Rows
        BY <4>1 DEF ResetPending, Rows, Statuses, Owners, Beats
      <4>3. QED  BY <2>3, <4>2 DEF InsertJob, TypeOK
    <3>3. inserted' \in Seq(Jobs)  BY <2>3, <3>1 DEF InsertJob, TypeOK
    <3>4. upserts' \in [Jobs -> Nat]  BY <2>3, <3>1 DEF InsertJob, TypeOK
    <3>5. NextStep("upsert") \in RequestSteps /\ Goto(r, NextStep("upsert"))
      BY <2>3, NextStepType DEF InsertJob, RequestSteps, TxSteps
    <3>6. QED  BY <2>3, <3>2, <3>3, <3>4, <3>5, GotoType DEF InsertJob, TypeOK
  <2>4. CASE InsertConflict(r)
    <3>1. Goto(r, "error") /\ "error" \in RequestSteps
      BY <2>4 DEF InsertConflict, RequestSteps
    <3>2. QED  BY <2>4, <3>1, GotoType DEF InsertConflict, TypeOK, history
  <2>5. CASE UpsertPending(r)
    <3>1. PICK step \in {"upsert", "reupsert"} : Commit(r, step, ResetPending(request[r].loaded))
      BY <2>5 DEF UpsertPending
    <3>2. ResetPending(request[r].loaded) \in Assigned
      BY DEF ResetPending, Assigned, Statuses, Owners, Beats
    <3>3. QED  BY <2>5, <3>1, <3>2, CommitType DEF UpsertPending, TxSteps
  <2>6. CASE MarkProcessing(r)
    <3>1. SyncClaimed(request[r].loaded) \in Assigned
      BY LoadedType DEF SyncClaimed, Assigned, Statuses, Owners, Rows
    <3>2. QED  BY <2>6, <3>1, CommitType DEF MarkProcessing, TxSteps
  <2>7. CASE MarkSucceeded(r)
    <3>1. Released(request[r].loaded, "succeeded") \in Assigned
      BY LoadedType, ReleasedType
    <3>2. QED  BY <2>7, <3>1, CommitType DEF MarkSucceeded, TxSteps
  <2>8. CASE MarkFailed(r)
    <3>1. Released(request[r].loaded, "failed") \in Assigned
      BY LoadedType, ReleasedType
    <3>2. QED  BY <2>8, <3>1, CommitType DEF MarkFailed, TxSteps
  <2>9. CASE StepReturns(r)
    <3>1. NextStep(request[r].step) \in RequestSteps /\ Goto(r, NextStep(request[r].step))
      BY <2>9, NextStepType DEF StepReturns, TypeOK, RequestStates
    <3>2. QED  BY <2>9, <3>1, GotoType DEF StepReturns, TypeOK, history
  <2>10. CASE StepRaises(r)
    <3>1. Goto(r, "markFailed") /\ "markFailed" \in RequestSteps
      BY <2>10 DEF StepRaises, RequestSteps, TxSteps
    <3>2. QED  BY <2>10, <3>1, GotoType DEF StepRaises, TypeOK, history
  <2>11. CASE RequestDies(r)
    <3>1. Goto(r, "error") /\ "error" \in RequestSteps
      BY <2>11 DEF RequestDies, RequestSteps
    <3>2. QED  BY <2>11, <3>1, GotoType DEF RequestDies, TypeOK, history
  <2>12. QED
    BY <1>2, <2>1, <2>2, <2>3, <2>4, <2>5, <2>6, <2>7, <2>8, <2>9, <2>10, <2>11 DEF RequestNext
<1>3. ASSUME NEW j \in Jobs, LeaseExpires(j) PROVE TypeOK'
  <2>1. row' \in [Jobs -> Rows]  BY <1>3, BeatType DEF LeaseExpires, Beats
  <2>2. lapsed' \in SUBSET Workers  BY <1>3 DEF LeaseExpires, Bereft, TypeOK
  <2>3. QED  BY <1>3, <2>1, <2>2 DEF LeaseExpires, TypeOK, history
<1>4. CASE UNCHANGED vars
  BY <1>4 DEF vars, TypeOK
<1>5. QED  BY <1>1, <1>2, <1>3, <1>4 DEF Next

----------------------------------------------------------------------------
(* A row, once inserted, stays. *)
LEMMA CommitKeepsRows ==
    ASSUME TypeOK, ProcessesOK, NEW r \in Requests, NEW step \in TxSteps,
           NEW assigned \in Assigned, assigned.status # "absent", Commit(r, step, assigned)
    PROVE  \A j \in Jobs : row'[j].status = "absent" => row[j].status = "absent"
<1>1. request[r].job \in Jobs  BY JobsOfProcesses DEF Commit, TxSteps
<1>2. row[request[r].job].status # "absent"  BY DEF Commit, ProcessesOK
<1>3. Flush(row[request[r].job], request[r].loaded, assigned).status # "absent"
  BY <1>1, <1>2, FlushKeepsRow, LoadedType DEF TypeOK
<1>4. QED  BY <1>1, <1>3 DEF Commit, TypeOK

(* What a claim does to each row. *)
LEMMA ClaimRows ==
    ASSUME TypeOK, NEW w \in Workers, NEW j \in Jobs, NEW skipped,
           ClaimNextPending(w, j, skipped), NEW i \in Jobs
    PROVE  \/ row'[i] = row[i] /\ i # j
           \/ /\ row'[i] = ClaimedBy(row[i], w) /\ i = j
              /\ Ready(row[i]) /\ ~AttemptsExhausted(row[i])
           \/ row'[i] = FailedAfterExhaustedAttempts(row[i]) /\ i # j /\ Ready(row[i])
BY DEF ClaimNextPending, Offered, Exhausted

LEMMA GiveUpRows ==
    ASSUME TypeOK, NEW w \in Workers, NEW skipped, ClaimNothing(w, skipped), NEW i \in Jobs
    PROVE  \/ row'[i] = row[i]
           \/ row'[i] = FailedAfterExhaustedAttempts(row[i]) /\ Ready(row[i])
BY DEF ClaimNothing, Offered, Exhausted

LEMMA RowFields ==
    ASSUME NEW r \in Rows
    PROVE  /\ FailedAfterExhaustedAttempts(r).status = "failed"
           /\ FailedAfterExhaustedAttempts(r).attempts = r.attempts
           /\ \A beat \in Beats : /\ Beat(r, beat).status = r.status
                                  /\ Beat(r, beat).attempts = r.attempts
                                  /\ Beat(r, beat).beat = beat
           /\ \A s : Released(r, s).status = s /\ Released(r, s).attempts = r.attempts
BY DEF Rows, FailedAfterExhaustedAttempts, Beat, Released

LEMMA RowsStay ==
    TypeOK /\ ProcessesOK /\ [Next]_vars
      => \A j \in Jobs : row'[j].status = "absent" => row[j].status = "absent"
<1> DEFINE Stay == \A j \in Jobs : row'[j].status = "absent" => row[j].status = "absent"
<1> SUFFICES ASSUME TypeOK, ProcessesOK, [Next]_vars PROVE Stay
  OBVIOUS
<1>0. ASSUME row' = row PROVE Stay
  BY <1>0
<1>1. ASSUME NEW w \in Workers, WorkerNext(w) PROVE Stay
  <2>1. ASSUME NEW skipped, NEW j \in Jobs, ClaimNextPending(w, j, skipped) PROVE Stay
    <3> SUFFICES ASSUME NEW i \in Jobs, row'[i].status = "absent" PROVE row[i].status = "absent"
      OBVIOUS
    <3>1. row[i] \in Rows  BY DEF TypeOK
    <3>2. FailedAfterExhaustedAttempts(row[i]).status = "failed"  BY <3>1, RowFields DEF Beats
    <3>3. ClaimedBy(row[i], w).status = "processing"  BY DEF ClaimedBy
    <3>4. QED  BY <2>1, <3>2, <3>3, ClaimRows
  <2>2. ASSUME NEW skipped, ClaimNothing(w, skipped) PROVE Stay
    <3> SUFFICES ASSUME NEW i \in Jobs, row'[i].status = "absent" PROVE row[i].status = "absent"
      OBVIOUS
    <3>1. row[i] \in Rows  BY DEF TypeOK
    <3>2. FailedAfterExhaustedAttempts(row[i]).status = "failed"  BY <3>1, RowFields DEF Beats
    <3>3. QED  BY <2>2, <3>2, GiveUpRows
  <2>3. CASE HeartbeatWrite(w)
    <3>1. ASSUME NEW j \in Jobs
          PROVE  row'[j] = row[j] \/ row'[j] = Beat(row[j], "fresh")
      BY <2>3, <3>1 DEF HeartbeatWrite, TypeOK
    <3>2. ASSUME NEW j \in Jobs PROVE Beat(row[j], "fresh").status = row[j].status
      BY <3>2 DEF Beat, TypeOK, Rows
    <3>3. QED  BY <3>1, <3>2
  <2>4. CASE MarkWrite(w)
    <3>1. PICK s \in {"succeeded", "failed"} :
             row' = [row EXCEPT ![worker[w].job] = Released(@, s)]
      BY <2>4 DEF MarkWrite
    <3>2. ASSUME NEW j \in Jobs
          PROVE  row'[j] = row[j] \/ row'[j] = Released(row[j], s)
      BY <3>1, <3>2 DEF TypeOK
    <3>3. ASSUME NEW j \in Jobs PROVE Released(row[j], s).status # "absent"
      BY <3>3 DEF Released, TypeOK, Rows
    <3>4. QED  BY <3>2, <3>3
  <2>5. CASE row' = row
    BY <2>5, <1>0
  <2>6. QED
    BY <1>1, <2>1, <2>2, <2>3, <2>4, <2>5
    DEF WorkerNext, Claim, HeartbeatRead, FinishProcessing, MarkRead, MarkRaises, Crash, Restart
<1>2. ASSUME NEW r \in Requests, RequestNext(r) PROVE Stay
  <2>1. CASE InsertJob(r)
    BY <2>1 DEF InsertJob, ResetPending, TypeOK
  <2>2. CASE UpsertPending(r)
    <3>1. PICK step \in {"upsert", "reupsert"} : Commit(r, step, ResetPending(request[r].loaded))
      BY <2>2 DEF UpsertPending
    <3>2. /\ ResetPending(request[r].loaded) \in Assigned
          /\ ResetPending(request[r].loaded).status # "absent"
      BY DEF ResetPending, Assigned, Statuses, Owners, Beats
    <3>3. QED  BY <3>1, <3>2, CommitKeepsRows DEF TxSteps
  <2>3. CASE MarkProcessing(r)
    <3>1. /\ SyncClaimed(request[r].loaded) \in Assigned
          /\ SyncClaimed(request[r].loaded).status # "absent"
      BY LoadedType DEF SyncClaimed, Assigned, Statuses, Owners, Rows
    <3>2. QED  BY <2>3, <3>1, CommitKeepsRows DEF MarkProcessing, TxSteps
  <2>4. CASE MarkSucceeded(r)
    <3>1. /\ Released(request[r].loaded, "succeeded") \in Assigned
          /\ Released(request[r].loaded, "succeeded").status # "absent"
      BY LoadedType, ReleasedType DEF Released, Rows
    <3>2. QED  BY <2>4, <3>1, CommitKeepsRows DEF MarkSucceeded, TxSteps
  <2>5. CASE MarkFailed(r)
    <3>1. /\ Released(request[r].loaded, "failed") \in Assigned
          /\ Released(request[r].loaded, "failed").status # "absent"
      BY LoadedType, ReleasedType DEF Released, Rows
    <3>2. QED  BY <2>5, <3>1, CommitKeepsRows DEF MarkFailed, TxSteps
  <2>6. CASE row' = row
    BY <2>6, <1>0
  <2>7. QED
    BY <1>2, <2>1, <2>2, <2>3, <2>4, <2>5, <2>6
    DEF RequestNext, Receive, GetJob, InsertConflict, StepReturns, StepRaises, RequestDies
<1>3. ASSUME NEW j \in Jobs, LeaseExpires(j) PROVE Stay
  BY <1>3 DEF LeaseExpires, Beat, TypeOK, Rows
<1>4. CASE UNCHANGED vars
  BY <1>4, <1>0 DEF vars
<1>5. QED  BY <1>1, <1>2, <1>3, <1>4 DEF Next

----------------------------------------------------------------------------
(* What a step leaves of the processes it is not a step of. *)
LEMMA OthersStay ==
    ASSUME TypeOK, NEW w \in Workers, NEW v \in Workers, NEW state, Become(w, state)
    PROVE  worker'[v] = IF v = w THEN state ELSE worker[v]
BY DEF Become, TypeOK

LEMMA GotoEffect ==
    ASSUME TypeOK, NEW r \in Requests, NEW step, Goto(r, step)
    PROVE  /\ \A q \in Requests \ {r} : request'[q] = request[q]
           /\ request'[r].step = step
           /\ request'[r].open = FALSE
           /\ request'[r].job = IF step \in {"done", "error"} THEN NoJob ELSE request[r].job
<1>1. request'[r] = [step |-> step, open |-> FALSE, loaded |-> AbsentRow,
                     job |-> IF step \in {"done", "error"} THEN NoJob ELSE request[r].job]
  BY DEF Goto, TypeOK
<1>2. QED  BY <1>1 DEF Goto, TypeOK

WorkersPart == \A w \in Workers :
    /\ Active(w) <=> worker[w].job # NoJob
    /\ worker[w].beating => worker[w].pc = "working"

RequestsPart == \A r \in Requests :
    /\ request[r].step \in {"new", "done", "error"} <=> request[r].job = NoJob
    /\ request[r].open => request[r].step \in TxSteps
    /\ ~IngestSync => request[r].step \notin {"markProcessing", "ingest", "markSucceeded"}
    /\ request[r].open /\ row[request[r].job].status = "absent"
          => request[r].loaded.status = "absent"

LEMMA TwoParts == ProcessesOK <=> WorkersPart /\ RequestsPart
BY DEF ProcessesOK, WorkersPart, RequestsPart

LEMMA WorkersStep == TypeOK /\ ProcessesOK /\ [Next]_vars => WorkersPart'
<1> SUFFICES ASSUME TypeOK, ProcessesOK, [Next]_vars PROVE WorkersPart'
  OBVIOUS
<1>0. WorkersPart  BY TwoParts
<1>1. ASSUME worker' = worker PROVE WorkersPart'
  BY <1>0, <1>1 DEF WorkersPart, Active
<1>2. ASSUME NEW w \in Workers, WorkerNext(w) PROVE WorkersPart'
  <2>1. ASSUME NEW pc, NEW job \in Jobs \cup {NoJob}, Become(w, WorkerAt(pc, job)),
               pc \in {"down", "idle"} <=> job = NoJob
        PROVE  WorkersPart'
    <3> SUFFICES ASSUME NEW v \in Workers
                 PROVE  /\ Active(v)' <=> worker'[v].job # NoJob
                        /\ worker'[v].beating => worker'[v].pc = "working"
      BY DEF WorkersPart
    <3>1. CASE v = w
      <4>1. worker'[v] = WorkerAt(pc, job)  BY <2>1, <3>1, OthersStay
      <4>2. QED  BY <2>1, <4>1 DEF WorkerAt, Active
    <3>2. CASE v # w
      <4>1. worker'[v] = worker[v]  BY <2>1, <3>2, OthersStay
      <4>2. QED  BY <1>0, <4>1 DEF WorkersPart, Active
    <3>3. QED  BY <3>1, <3>2
  <2>2. ASSUME Active(w) PROVE worker[w].job \in Jobs
    BY <2>2, JobsOfProcesses
  <2>3. CASE Claim(w)
    BY <2>3, <2>1, <1>1 DEF Claim, ClaimNextPending, ClaimNothing, QueueAssumption
  <2>4. ASSUME NEW b \in BOOLEAN, b => worker[w].pc = "working",
               Become(w, [worker[w] EXCEPT !.beating = b])
        PROVE  WorkersPart'
    <3> SUFFICES ASSUME NEW v \in Workers
                 PROVE  /\ Active(v)' <=> worker'[v].job # NoJob
                        /\ worker'[v].beating => worker'[v].pc = "working"
      BY DEF WorkersPart
    <3>1. worker[w] \in WorkerStates  BY DEF TypeOK
    <3>2. CASE v = w
      <4>1. worker'[v] = [worker[w] EXCEPT !.beating = b]  BY <2>4, <3>2, OthersStay
      <4>2. QED  BY <1>0, <2>4, <3>1, <3>2, <4>1 DEF WorkersPart, WorkerStates, Active
    <3>3. CASE v # w
      <4>1. worker'[v] = worker[v]  BY <2>4, <3>3, OthersStay
      <4>2. QED  BY <1>0, <4>1 DEF WorkersPart, Active
    <3>4. QED  BY <3>2, <3>3
  <2>5. CASE HeartbeatRead(w)
    BY <2>5, <2>4 DEF HeartbeatRead
  <2>6. CASE HeartbeatWrite(w)
    BY <2>6, <2>4 DEF HeartbeatWrite
  <2>7. ASSUME NEW outcome \in {"succeeded", "failed"}, FinishProcessing(w, outcome)
        PROVE  WorkersPart'
    BY <2>7, <2>1, <2>2 DEF FinishProcessing, Active
  <2>8. CASE MarkRead(w)
    BY <2>8, <2>1, <2>2 DEF MarkRead, Active
  <2>9. CASE MarkWrite(w) \/ MarkRaises(w) \/ Crash(w) \/ Restart(w)
    BY <2>9, <2>1 DEF MarkWrite, MarkRaises, Crash, Restart
  <2>10. QED
    BY <1>2, <2>3, <2>5, <2>6, <2>7, <2>8, <2>9 DEF WorkerNext
<1>3. ASSUME NEW r \in Requests, RequestNext(r) PROVE WorkersPart'
  BY <1>3, <1>1 DEF RequestNext, Receive, GetJob, InsertJob, InsertConflict, UpsertPending,
     MarkProcessing, MarkSucceeded, MarkFailed, Commit, StepReturns, StepRaises, RequestDies
<1>4. ASSUME NEW j \in Jobs, LeaseExpires(j) PROVE WorkersPart'
  BY <1>4, <1>1 DEF LeaseExpires
<1>5. CASE UNCHANGED vars
  BY <1>5, <1>1 DEF vars
<1>6. QED  BY <1>2, <1>3, <1>4, <1>5 DEF Next

(* Any step that moves one request on leaves the requests in order. *)
LEMMA GotoRequests ==
    ASSUME TypeOK, ProcessesOK, [Next]_vars, NEW r \in Requests, NEW step, Goto(r, step),
           request[r].step \notin {"new", "done", "error"}, step # "new",
           ~IngestSync => step \notin {"markProcessing", "ingest", "markSucceeded"}
    PROVE  RequestsPart'
<1> SUFFICES ASSUME NEW q \in Requests
             PROVE  /\ request'[q].step \in {"new", "done", "error"} <=> request'[q].job = NoJob
                    /\ request'[q].open => request'[q].step \in TxSteps
                    /\ ~IngestSync
                         => request'[q].step \notin {"markProcessing", "ingest", "markSucceeded"}
                    /\ request'[q].open /\ row'[request'[q].job].status = "absent"
                         => request'[q].loaded.status = "absent"
  BY DEF RequestsPart
<1>1. RequestsPart  BY TwoParts
<1>2. CASE q = r
  <2>1. request[r].job \in Jobs  BY JobsOfProcesses
  <2>2. /\ request'[r].step = step
        /\ request'[r].open = FALSE
        /\ request'[r].job = IF step \in {"done", "error"} THEN NoJob ELSE request[r].job
    BY GotoEffect
  <2>3. request'[r].step \in {"new", "done", "error"} <=> request'[r].job = NoJob
    BY <2>1, <2>2, QueueAssumption
  <2>4. QED  BY <1>2, <2>2, <2>3
<1>3. CASE q # r
  <2>1. request'[q] = request[q]  BY <1>3, GotoEffect
  <2>2. request[q].open => request[q].job \in Jobs
    BY <1>1, JobsOfProcesses DEF RequestsPart, TxSteps
  <2>3. QED  BY <1>1, <2>1, <2>2, RowsStay DEF RequestsPart
<1>4. QED  BY <1>2, <1>3

LEMMA RequestsStep == TypeOK /\ ProcessesOK /\ [Next]_vars => RequestsPart'
<1> SUFFICES ASSUME TypeOK, ProcessesOK, [Next]_vars PROVE RequestsPart'
  OBVIOUS
<1>0. RequestsPart  BY TwoParts
<1>1. ASSUME request' = request PROVE RequestsPart'
  <2> SUFFICES ASSUME NEW q \in Requests, request[q].open, row'[request[q].job].status = "absent"
               PROVE  request[q].loaded.status = "absent"
    BY <1>0, <1>1 DEF RequestsPart
  <2>1. request[q].job \in Jobs  BY <1>0, JobsOfProcesses DEF RequestsPart, TxSteps
  <2>2. QED  BY <1>0, <2>1, RowsStay DEF RequestsPart
<1>2. ASSUME NEW w \in Workers, WorkerNext(w) PROVE RequestsPart'
  BY <1>2, <1>1 DEF WorkerNext, Claim, ClaimNextPending, ClaimNothing, HeartbeatRead,
     HeartbeatWrite, FinishProcessing, MarkRead, MarkWrite, MarkRaises, Crash, Restart
<1>3. ASSUME NEW r \in Requests, RequestNext(r) PROVE RequestsPart'
  <2>1. ASSUME NEW j \in Jobs, Receive(r, j) PROVE RequestsPart'
    <3> SUFFICES ASSUME NEW q \in Requests
                 PROVE  /\ request'[q].step \in {"new", "done", "error"} <=> request'[q].job = NoJob
                        /\ request'[q].open => request'[q].step \in TxSteps
                        /\ ~IngestSync
                             => request'[q].step \notin {"markProcessing", "ingest", "markSucceeded"}
                        /\ request'[q].open /\ row'[request'[q].job].status = "absent"
                             => request'[q].loaded.status = "absent"
      BY DEF RequestsPart
    <3>1. row' = row  BY <2>1 DEF Receive
    <3>2. CASE q = r
      <4>1. request[r] \in RequestStates /\ request[r].step = "new"  BY <2>1 DEF Receive, TypeOK
      <4>2. request'[r] = [request[r] EXCEPT !.step = "upsert", !.job = j]
        BY <2>1 DEF Receive, TypeOK
      <4>3. ~request[r].open  BY <1>0, <4>1 DEF RequestsPart, TxSteps
      <4>4. request'[r].step = "upsert" /\ request'[r].job = j
        BY <4>1, <4>2 DEF RequestStates
      <4>5. ~request'[r].open
        BY <4>1, <4>2, <4>3 DEF RequestStates
      <4>6. QED  BY <3>2, <4>4, <4>5, QueueAssumption
    <3>3. CASE q # r
      <4>1. request'[q] = request[q]  BY <2>1, <3>3 DEF Receive, TypeOK
      <4>2. QED  BY <1>0, <3>1, <4>1 DEF RequestsPart
    <3>4. QED  BY <3>2, <3>3
  <2>2. CASE GetJob(r)
    <3> SUFFICES ASSUME NEW q \in Requests
                 PROVE  /\ request'[q].step \in {"new", "done", "error"} <=> request'[q].job = NoJob
                        /\ request'[q].open => request'[q].step \in TxSteps
                        /\ ~IngestSync
                             => request'[q].step \notin {"markProcessing", "ingest", "markSucceeded"}
                        /\ request'[q].open /\ row'[request'[q].job].status = "absent"
                             => request'[q].loaded.status = "absent"
      BY DEF RequestsPart
    <3>1. row' = row  BY <2>2 DEF GetJob
    <3>2. CASE q = r
      <4>1. request[r] \in RequestStates /\ request[r].step \in TxSteps
        BY <2>2 DEF GetJob, TypeOK
      <4>2. request'[r] = [request[r] EXCEPT !.open = TRUE, !.loaded = row[request[r].job]]
        BY <2>2 DEF GetJob, TypeOK
      <4>3. /\ request'[r].step = request[r].step /\ request'[r].job = request[r].job
            /\ request'[r].loaded = row[request[r].job]
        BY <4>1, <4>2 DEF RequestStates
      <4>4. QED  BY <1>0, <3>1, <3>2, <4>1, <4>3 DEF RequestsPart
    <3>3. CASE q # r
      <4>1. request'[q] = request[q]  BY <2>2, <3>3 DEF GetJob, TypeOK
      <4>2. QED  BY <1>0, <3>1, <4>1 DEF RequestsPart
    <3>4. QED  BY <3>2, <3>3
  <2>3. CASE InsertJob(r)
    BY <2>3, GotoRequests, QueueAssumption DEF InsertJob, NextStep
  <2>4. CASE InsertConflict(r)
    BY <2>4, GotoRequests DEF InsertConflict
  <2>5. CASE UpsertPending(r)
    BY <2>5, GotoRequests, QueueAssumption DEF UpsertPending, Commit, NextStep
  <2>6. CASE MarkProcessing(r)
    BY <1>0, <2>6, GotoRequests DEF MarkProcessing, Commit, NextStep, RequestsPart
  <2>7. CASE MarkSucceeded(r) \/ MarkFailed(r)
    BY <2>7, GotoRequests DEF MarkSucceeded, MarkFailed, Commit, NextStep
  <2>8. CASE StepReturns(r)
    BY <1>0, <2>8, GotoRequests DEF StepReturns, NextStep, RequestsPart
  <2>9. CASE StepRaises(r) \/ RequestDies(r)
    BY <2>9, GotoRequests DEF StepRaises, RequestDies
  <2>10. QED
    BY <1>3, <2>1, <2>2, <2>3, <2>4, <2>5, <2>6, <2>7, <2>8, <2>9 DEF RequestNext
<1>4. ASSUME NEW j \in Jobs, LeaseExpires(j) PROVE RequestsPart'
  BY <1>4, <1>1 DEF LeaseExpires
<1>5. CASE UNCHANGED vars
  BY <1>5, <1>1 DEF vars
<1>6. QED  BY <1>2, <1>3, <1>4, <1>5 DEF Next

LEMMA ProcessesStep == TypeOK /\ ProcessesOK /\ [Next]_vars => ProcessesOK'
<1> SUFFICES ASSUME TypeOK, ProcessesOK, [Next]_vars PROVE ProcessesOK'
  OBVIOUS
<1>1. WorkersPart' /\ RequestsPart'  BY WorkersStep, RequestsStep
<1>2. (WorkersPart /\ RequestsPart)' => ProcessesOK'
  BY DEF ProcessesOK, WorkersPart, RequestsPart
<1>3. QED  BY <1>1, <1>2

(* Every state has its type, and every process stands where its handler    *)
(* can stand.                                                              *)
THEOREM TypeCorrect == Spec => [](TypeOK /\ ProcessesOK)
<1>1. TypeOK /\ ProcessesOK /\ [Next]_vars => (TypeOK /\ ProcessesOK)'
  BY TypeStep, ProcessesStep
<1>2. QED  BY <1>1, InitBase, PTL DEF Spec

----------------------------------------------------------------------------
(* A row nobody can claim. *)
Held(r) == r.status \notin {"absent", "pending"} /\ (r.status = "processing" => r.beat = "fresh")

LEMMA HeldNotReady == ASSUME NEW r, Held(r) PROVE ~Ready(r)
BY DEF Held, Ready

LEMMA LeaseIntactHeld ==
    LeaseIntact <=> \A v \in Workers \ lapsed : Active(v) => Held(row[worker[v].job])
BY DEF LeaseIntact, Held

(* When the workers that keep their lease do not change their job and      *)
(* their rows stay held, the leases stay intact and exclusive.             *)
LEMMA KeepLeases ==
    ASSUME LeaseIntact, LeaseExclusive,
           \A v \in Workers \ lapsed' : Active(v)' =>
              /\ v \notin lapsed /\ Active(v) /\ worker'[v].job = worker[v].job
              /\ Held(row[worker[v].job]) => Held(row'[worker[v].job])
    PROVE  LeaseIntact' /\ LeaseExclusive'
<1>1. LeaseIntact'
  <2> SUFFICES ASSUME NEW v \in Workers \ lapsed', Active(v)' PROVE Held(row'[worker'[v].job])
    BY DEF LeaseIntact, Held
  <2>1. QED  BY LeaseIntactHeld
<1>2. LeaseExclusive'
  <2> SUFFICES ASSUME NEW v \in Workers \ lapsed', NEW w \in Workers \ lapsed', v # w, Active(v)',
                      Active(w)', worker'[w].job = worker'[v].job
               PROVE  FALSE
    BY DEF LeaseExclusive, ActiveOn
  <2>1. QED  BY DEF LeaseExclusive, ActiveOn
<1>3. QED  BY <1>1, <1>2

LEMMA LeaseInit == Init => LeaseIntact /\ LeaseExclusive
BY DEF Init, LeaseIntact, LeaseExclusive, Active, ActiveOn, WorkerAt

LEMMA LeaseWorkerStep ==
    ASSUME TypeOK, ProcessesOK, LeaseIntact, LeaseExclusive, NEW w \in Workers, WorkerNext(w)
    PROVE  LeaseIntact' /\ LeaseExclusive'
<1>1. ASSUME NEW skipped, NEW j \in Jobs, ClaimNextPending(w, j, skipped)
      PROVE  LeaseIntact' /\ LeaseExclusive'
  <2>1. worker'[w] = WorkerAt("working", j)  BY <1>1, OthersStay DEF ClaimNextPending
  <2>2. \A v \in Workers \ {w} : worker'[v] = worker[v]
    BY <1>1, OthersStay DEF ClaimNextPending
  <2>3. Ready(row[j]) /\ row'[j] = ClaimedBy(row[j], w)
    BY <1>1, ClaimRows DEF ClaimNextPending, Offered
  <2>4. ASSUME NEW v \in Workers \ lapsed', v # w, Active(v)'
        PROVE  /\ v \notin lapsed /\ Active(v) /\ worker'[v].job = worker[v].job
               /\ worker[v].job # j /\ Held(row'[worker[v].job])
    <3>1. v \notin lapsed /\ Active(v) /\ worker'[v] = worker[v]
      BY <1>1, <2>2, <2>4 DEF ClaimNextPending, Active
    <3>2. Held(row[worker[v].job]) /\ worker[v].job \in Jobs
      BY <3>1, LeaseIntactHeld, JobsOfProcesses
    <3>3. row'[worker[v].job] = row[worker[v].job] /\ worker[v].job # j
      BY <1>1, <2>3, <3>2, ClaimRows, HeldNotReady
    <3>4. QED  BY <3>1, <3>2, <3>3
  <2>5. Held(row'[j])  BY <2>3 DEF Held, ClaimedBy
  <2>6. worker'[w].job = j  BY <2>1 DEF WorkerAt
  <2>7. LeaseIntact'
    <3> SUFFICES ASSUME NEW v \in Workers \ lapsed', Active(v)' PROVE Held(row'[worker'[v].job])
      BY DEF LeaseIntact, Held
    <3>1. QED  BY <2>4, <2>5, <2>6
  <2>8. LeaseExclusive'
    <3> SUFFICES ASSUME NEW u \in Workers \ lapsed', NEW v \in Workers \ lapsed', u # v, Active(u)',
                        Active(v)', worker'[v].job = worker'[u].job
                 PROVE  FALSE
      BY DEF LeaseExclusive, ActiveOn
    <3>1. CASE u = w \/ v = w
      BY <3>1, <2>4, <2>6
    <3>2. CASE u # w /\ v # w
      BY <3>2, <2>4 DEF LeaseExclusive, ActiveOn
    <3>3. QED  BY <3>1, <3>2
  <2>9. QED  BY <2>7, <2>8
<1>2. ASSUME NEW skipped, ClaimNothing(w, skipped) PROVE LeaseIntact' /\ LeaseExclusive'
  <2>1. ASSUME NEW v \in Workers \ lapsed', Active(v)'
        PROVE  /\ v \notin lapsed /\ Active(v) /\ worker'[v].job = worker[v].job
               /\ Held(row[worker[v].job]) => Held(row'[worker[v].job])
    <3>1. v \notin lapsed /\ Active(v) /\ worker' = worker
      BY <1>2, <2>1 DEF ClaimNothing, Active
    <3>2. worker[v].job \in Jobs  BY <3>1, JobsOfProcesses
    <3>3. QED  BY <1>2, <3>1, <3>2, GiveUpRows, HeldNotReady
  <2>2. QED  BY <2>1, KeepLeases
<1>3. ASSUME row' = row, lapsed' \in {lapsed, lapsed \ {w}},
             NEW state, Become(w, state), state.pc \notin {"down", "idle"} =>
                  lapsed' = lapsed /\ Active(w) /\ state.job = worker[w].job
      PROVE  LeaseIntact' /\ LeaseExclusive'
  <2>1. ASSUME NEW v \in Workers \ lapsed', Active(v)'
        PROVE  /\ v \notin lapsed /\ Active(v) /\ worker'[v].job = worker[v].job
               /\ Held(row[worker[v].job]) => Held(row'[worker[v].job])
    <3>1. CASE v = w
      <4>1. worker'[w] = state  BY <1>3, OthersStay
      <4>2. QED  BY <1>3, <2>1, <3>1, <4>1 DEF Active
    <3>2. CASE v # w
      <4>1. worker'[v] = worker[v]  BY <1>3, <3>2, OthersStay
      <4>2. QED  BY <1>3, <2>1, <3>2, <4>1 DEF Active
    <3>3. QED  BY <3>1, <3>2
  <2>2. QED  BY <2>1, KeepLeases
<1>4. CASE HeartbeatRead(w)
  <2>1. worker[w] \in WorkerStates  BY DEF TypeOK
  <2>2. [worker[w] EXCEPT !.beating = TRUE].job = worker[w].job
    BY <2>1 DEF WorkerStates
  <2>3. Active(w)  BY <1>4 DEF HeartbeatRead, Active
  <2>4. QED  BY <1>3, <1>4, <2>2, <2>3 DEF HeartbeatRead
<1>5. ASSUME NEW outcome \in {"succeeded", "failed"}, FinishProcessing(w, outcome)
      PROVE  LeaseIntact' /\ LeaseExclusive'
  <2>1. Active(w) /\ WorkerAt(outcome, worker[w].job).job = worker[w].job
    BY <1>5 DEF FinishProcessing, Active, WorkerAt
  <2>2. QED  BY <1>3, <1>5, <2>1 DEF FinishProcessing
<1>6. CASE MarkRead(w)
  <2>1. /\ Active(w)
        /\ \A pc : WorkerAt(pc, worker[w].job).job = worker[w].job
    BY <1>6 DEF MarkRead, Active, WorkerAt
  <2>2. QED  BY <1>3, <1>6, <2>1 DEF MarkRead
<1>7. CASE MarkRaises(w) \/ Crash(w) \/ Restart(w)
  <2>1. \A pc \in {"down", "idle"} : WorkerAt(pc, NoJob).pc = pc  BY DEF WorkerAt
  <2>2. QED  BY <1>3, <1>7, <2>1 DEF MarkRaises, Crash, Restart
<1>8. CASE HeartbeatWrite(w)
  <2>1. ASSUME NEW v \in Workers \ lapsed', Active(v)'
        PROVE  /\ v \notin lapsed /\ Active(v) /\ worker'[v].job = worker[v].job
               /\ Held(row[worker[v].job]) => Held(row'[worker[v].job])
    <3>1. /\ worker'[v].job = worker[v].job /\ worker'[v].pc = worker[v].pc
      <4>1. worker[w] \in WorkerStates  BY DEF TypeOK
      <4>2. worker'[v] = IF v = w THEN [worker[w] EXCEPT !.beating = FALSE] ELSE worker[v]
        BY <1>8, OthersStay DEF HeartbeatWrite
      <4>3. QED  BY <4>1, <4>2 DEF WorkerStates
    <3>2. v \notin lapsed /\ Active(v)  BY <1>8, <2>1, <3>1 DEF HeartbeatWrite, Active
    <3>3. worker[v].job \in Jobs /\ row[worker[v].job] \in Rows
      BY <3>2, JobsOfProcesses DEF TypeOK
    <3>4. \/ row'[worker[v].job] = row[worker[v].job]
          \/ row'[worker[v].job] = Beat(row[worker[v].job], "fresh")
      BY <1>8, <3>3 DEF HeartbeatWrite, TypeOK
    <3>5. Held(row[worker[v].job]) => Held(Beat(row[worker[v].job], "fresh"))
      BY <3>3, RowFields DEF Held, Beats
    <3>6. QED  BY <3>1, <3>2, <3>4, <3>5
  <2>2. QED  BY <2>1, KeepLeases
<1>9. CASE MarkWrite(w)
  <2>1. PICK s \in {"succeeded", "failed"} : row' = [row EXCEPT ![worker[w].job] = Released(@, s)]
    BY <1>9 DEF MarkWrite
  <2>2. ASSUME NEW v \in Workers \ lapsed', Active(v)'
        PROVE  /\ v \notin lapsed /\ Active(v) /\ worker'[v].job = worker[v].job
               /\ Held(row[worker[v].job]) => Held(row'[worker[v].job])
    <3>1. v # w /\ worker'[v] = worker[v]
      BY <1>9, <2>2, OthersStay DEF MarkWrite, Active, WorkerAt
    <3>2. v \notin lapsed /\ Active(v)  BY <1>9, <2>2, <3>1 DEF MarkWrite, Active
    <3>3. worker[v].job \in Jobs /\ row[worker[v].job] \in Rows
      BY <3>2, JobsOfProcesses DEF TypeOK
    <3>4. \/ row'[worker[v].job] = row[worker[v].job]
          \/ row'[worker[v].job] = Released(row[worker[v].job], s)
      BY <2>1, <3>3 DEF TypeOK
    <3>5. Held(Released(row[worker[v].job], s))
      BY <3>3, RowFields DEF Held
    <3>6. QED  BY <3>1, <3>2, <3>4, <3>5
  <2>3. QED  BY <2>2, KeepLeases
<1>10. QED
  BY <1>1, <1>2, <1>4, <1>5, <1>6, <1>7, <1>8, <1>9 DEF WorkerNext, Claim

LEMMA LeaseCommit ==
    ASSUME TypeOK, ProcessesOK, LeaseIntact, LeaseExclusive,
           NEW r \in Requests, NEW step \in TxSteps, NEW assigned, Commit(r, step, assigned)
    PROVE  LeaseIntact' /\ LeaseExclusive'
<1> DEFINE j == request[r].job
           flushed == Flush(row[j], request[r].loaded, assigned)
<1>1. j \in Jobs  BY JobsOfProcesses DEF Commit, TxSteps
<1>2. /\ row' = [row EXCEPT ![j] = flushed] /\ worker' = worker
      /\ lapsed' = IF flushed = row[j] THEN lapsed ELSE lapsed \cup Bereft(j)
  BY DEF Commit
<1>3. ASSUME NEW v \in Workers \ lapsed', Active(v)'
      PROVE  /\ v \notin lapsed /\ Active(v) /\ worker'[v].job = worker[v].job
             /\ Held(row[worker[v].job]) => Held(row'[worker[v].job])
  <2>1. v \notin lapsed /\ Active(v)  BY <1>2, <1>3 DEF Active
  <2>2. worker[v].job \in Jobs  BY <2>1, JobsOfProcesses
  <2>3. CASE flushed = row[j]
    BY <1>2, <2>1, <2>3 DEF TypeOK
  <2>4. CASE flushed # row[j]
    <3>1. worker[v].job # j  BY <1>2, <1>3, <2>1, <2>4 DEF Bereft, ActiveOn
    <3>2. QED  BY <1>2, <2>1, <2>2, <3>1 DEF TypeOK
  <2>5. QED  BY <2>3, <2>4
<1>4. QED  BY <1>3, KeepLeases

LEMMA LeaseStep ==
    TypeOK /\ ProcessesOK /\ LeaseIntact /\ LeaseExclusive /\ [Next]_vars
      => LeaseIntact' /\ LeaseExclusive'
<1> SUFFICES ASSUME TypeOK, ProcessesOK, LeaseIntact, LeaseExclusive, [Next]_vars
             PROVE  LeaseIntact' /\ LeaseExclusive'
  OBVIOUS
<1>1. ASSUME UNCHANGED <<row, worker, lapsed>> PROVE LeaseIntact' /\ LeaseExclusive'
  BY <1>1 DEF LeaseIntact, LeaseExclusive, Active, ActiveOn
<1>2. ASSUME NEW w \in Workers, WorkerNext(w) PROVE LeaseIntact' /\ LeaseExclusive'
  BY <1>2, LeaseWorkerStep
<1>3. ASSUME NEW r \in Requests, RequestNext(r) PROVE LeaseIntact' /\ LeaseExclusive'
  <2>1. CASE InsertJob(r)
    <3>1. ASSUME NEW v \in Workers \ lapsed', Active(v)'
          PROVE  /\ v \notin lapsed /\ Active(v) /\ worker'[v].job = worker[v].job
                 /\ Held(row[worker[v].job]) => Held(row'[worker[v].job])
      <4>1. v \notin lapsed /\ Active(v) /\ worker' = worker
        BY <2>1, <3>1 DEF InsertJob, Active
      <4>2. worker[v].job \in Jobs  BY <4>1, JobsOfProcesses
      <4>3. QED  BY <2>1, <4>1, <4>2 DEF InsertJob, Held, TypeOK
    <3>2. QED  BY <3>1, KeepLeases
  <2>2. CASE UpsertPending(r) \/ MarkProcessing(r) \/ MarkSucceeded(r) \/ MarkFailed(r)
    BY <2>2, LeaseCommit
    DEF UpsertPending, MarkProcessing, MarkSucceeded, MarkFailed, TxSteps
  <2>3. CASE UNCHANGED <<row, worker, lapsed>>
    BY <2>3, <1>1
  <2>4. QED
    BY <1>3, <2>1, <2>2, <2>3
    DEF RequestNext, Receive, GetJob, InsertConflict, StepReturns, StepRaises, RequestDies
<1>4. ASSUME NEW j \in Jobs, LeaseExpires(j) PROVE LeaseIntact' /\ LeaseExclusive'
  <2>1. ASSUME NEW v \in Workers \ lapsed', Active(v)'
        PROVE  /\ v \notin lapsed /\ Active(v) /\ worker'[v].job = worker[v].job
               /\ Held(row[worker[v].job]) => Held(row'[worker[v].job])
    <3>1. v \notin lapsed /\ Active(v) /\ worker' = worker
      BY <1>4, <2>1 DEF LeaseExpires, Active
    <3>2. worker[v].job # j  BY <1>4, <2>1, <3>1 DEF LeaseExpires, Bereft, ActiveOn
    <3>3. worker[v].job \in Jobs  BY <3>1, JobsOfProcesses
    <3>4. QED  BY <1>4, <3>1, <3>2, <3>3 DEF LeaseExpires, TypeOK
  <2>2. QED  BY <2>1, KeepLeases
<1>5. CASE UNCHANGED vars
  BY <1>5, <1>1 DEF vars
<1>6. QED  BY <1>2, <1>3, <1>4, <1>5 DEF Next

(* Two workers are at work on one job only when one of them lost its       *)
(* lease, whatever interleaves: pending_job_claim_statement never gives    *)
(* away a row whose lease is alive.                                        *)
THEOREM LeaseSafety == Spec => []LeaseExclusive
<1>1. Init => TypeOK /\ ProcessesOK /\ LeaseIntact /\ LeaseExclusive
  BY InitBase, LeaseInit
<1>2. TypeOK /\ ProcessesOK /\ LeaseIntact /\ LeaseExclusive /\ [Next]_vars
        => (TypeOK /\ ProcessesOK /\ LeaseIntact /\ LeaseExclusive)'
  BY TypeStep, ProcessesStep, LeaseStep
<1>3. QED  BY <1>1, <1>2, PTL DEF Spec

----------------------------------------------------------------------------
(* max_attempts per upsert, and the attempts of the current one on top. *)
LEMMA AccountBound ==
    ASSUME NEW r \in Rows, NEW s \in Nat, NEW u \in Nat, Account(r, s, u)
    PROVE  s <= MaxAttempts * u
<1>1. MaxAttempts * (u - 1) = MaxAttempts * u - MaxAttempts  OBVIOUS
<1>2. r.attempts \in Nat  BY DEF Rows
<1>3. MaxAttempts * u \in Nat  OBVIOUS
<1>4. QED  BY <1>1, <1>2, <1>3 DEF Account

LEMMA AccountReset ==
    ASSUME NEW r \in Rows, NEW q \in Rows, NEW s \in Nat, NEW u \in Nat, Account(r, s, u),
           r.status # "absent", q.status # "absent", q.attempts \in {0, r.attempts}
    PROVE  Account(q, s, u + 1)
<1>1. MaxAttempts * ((u + 1) - 1) = MaxAttempts * (u - 1) + MaxAttempts  OBVIOUS
<1>2. r.attempts \in Nat  BY DEF Rows
<1>3. MaxAttempts * (u - 1) \in Int  OBVIOUS
<1>4. s <= MaxAttempts * ((u + 1) - 1) + q.attempts  BY <1>1, <1>2, <1>3 DEF Account
<1>5. MaxAttempts * ((u + 1) - 1) \in Int  OBVIOUS
<1>6. QED  BY <1>2, <1>4, <1>5 DEF Account

LEMMA AccountSame ==
    ASSUME NEW r, NEW q, NEW s, NEW u, Account(r, s, u),
           q.attempts = r.attempts, q.status = "absent" <=> r.status = "absent"
    PROVE  Account(q, s, u)
BY DEF Account

WorkedRowsExist == \A w \in Workers : Active(w) => row[worker[w].job].status # "absent"

LEMMA WorkedRowsStep == TypeOK /\ ProcessesOK /\ WorkedRowsExist /\ [Next]_vars => WorkedRowsExist'
<1> SUFFICES ASSUME TypeOK, ProcessesOK, WorkedRowsExist, [Next]_vars,
                    NEW v \in Workers, Active(v)'
             PROVE  row'[worker'[v].job].status # "absent"
  BY DEF WorkedRowsExist
<1>1. ASSUME Active(v), worker'[v].job = worker[v].job
      PROVE  row'[worker'[v].job].status # "absent"
  BY <1>1, RowsStay, JobsOfProcesses DEF WorkedRowsExist
<1>2. ASSUME NEW w \in Workers, WorkerNext(w) PROVE row'[worker'[v].job].status # "absent"
  <2>0. ASSUME NEW state, Become(w, state), state.job = worker[w].job, Active(w)
        PROVE  row'[worker'[v].job].status # "absent"
    BY <1>1, <2>0, OthersStay DEF Active
  <2>1. ASSUME NEW skipped, NEW j \in Jobs, ClaimNextPending(w, j, skipped)
        PROVE  row'[worker'[v].job].status # "absent"
    <3>1. CASE v = w
      <4>1. worker'[v] = WorkerAt("working", j)
        BY <2>1, <3>1, OthersStay DEF ClaimNextPending
      <4>2. row'[j] = ClaimedBy(row[j], w)  BY <2>1, ClaimRows
      <4>3. QED  BY <4>1, <4>2 DEF WorkerAt, ClaimedBy
    <3>2. CASE v # w
      <4>1. worker'[v] = worker[v]  BY <2>1, <3>2, OthersStay DEF ClaimNextPending
      <4>2. QED  BY <1>1, <4>1 DEF Active
    <3>3. QED  BY <3>1, <3>2
  <2>2. ASSUME NEW skipped, ClaimNothing(w, skipped)
        PROVE  row'[worker'[v].job].status # "absent"
    BY <2>2, <1>1 DEF ClaimNothing, Active
  <2>3. ASSUME NEW pc \in {"down", "idle"}, Become(w, WorkerAt(pc, NoJob))
        PROVE  row'[worker'[v].job].status # "absent"
    BY <1>1, <2>3, OthersStay DEF Active, WorkerAt
  <2>4. /\ worker[w] \in WorkerStates
        /\ \A pc : WorkerAt(pc, worker[w].job).job = worker[w].job
    BY DEF TypeOK, WorkerAt
  <2>5. \A b \in BOOLEAN : [worker[w] EXCEPT !.beating = b].job = worker[w].job
    BY <2>4 DEF WorkerStates
  <2>6. CASE HeartbeatRead(w)
    BY <2>0, <2>5, <2>6 DEF HeartbeatRead, Active
  <2>7. CASE HeartbeatWrite(w)
    BY <2>0, <2>5, <2>7 DEF HeartbeatWrite, Active, ProcessesOK
  <2>8. ASSUME NEW outcome \in {"succeeded", "failed"}, FinishProcessing(w, outcome)
        PROVE  row'[worker'[v].job].status # "absent"
    BY <2>0, <2>4, <2>8 DEF FinishProcessing, Active
  <2>9. CASE MarkRead(w)
    BY <2>0, <2>4, <2>9 DEF MarkRead, Active
  <2>10. CASE MarkWrite(w) \/ MarkRaises(w) \/ Crash(w) \/ Restart(w)
    BY <2>3, <2>10 DEF MarkWrite, MarkRaises, Crash, Restart
  <2>11. QED
    BY <1>2, <2>1, <2>2, <2>6, <2>7, <2>8, <2>9, <2>10 DEF WorkerNext, Claim
<1>3. CASE worker' = worker
  BY <1>1, <1>3 DEF Active
<1>4. ASSUME NEW r \in Requests, RequestNext(r) PROVE worker' = worker
  BY <1>4 DEF RequestNext, Receive, GetJob, InsertJob, InsertConflict, UpsertPending,
     MarkProcessing, MarkSucceeded, MarkFailed, Commit, StepReturns, StepRaises, RequestDies
<1>5. ASSUME NEW j \in Jobs, LeaseExpires(j) PROVE worker' = worker
  BY <1>5 DEF LeaseExpires
<1>6. QED  BY <1>2, <1>3, <1>4, <1>5 DEF Next, vars

Accounts == ~IngestSync => \A j \in Jobs : Account(row[j], starts[j], upserts[j])

LEMMA BudgetParts == BudgetAccount <=> WorkedRowsExist /\ Accounts
BY DEF BudgetAccount, WorkedRowsExist, Accounts

LEMMA AccountClaim ==
    ASSUME NEW r \in Rows, NEW w \in Workers, NEW s \in Nat, NEW u \in Nat, Account(r, s, u),
           r.status # "absent", ~AttemptsExhausted(r)
    PROVE  Account(ClaimedBy(r, w), s + 1, u)
<1>1. ClaimedBy(r, w).attempts = r.attempts + 1 /\ ClaimedBy(r, w).status = "processing"
  BY DEF ClaimedBy
<1>2. r.attempts \in Nat /\ MaxAttempts * (u - 1) \in Int  BY DEF Rows
<1>3. QED  BY <1>1, <1>2 DEF Account, AttemptsExhausted

LEMMA AccountsStep == TypeOK /\ ProcessesOK /\ BudgetAccount /\ [Next]_vars => Accounts'
<1> SUFFICES ASSUME TypeOK, ProcessesOK, BudgetAccount, [Next]_vars, ~IngestSync
             PROVE  \A i \in Jobs : Account(row'[i], starts'[i], upserts'[i])
  BY DEF Accounts
<1>1. WorkedRowsExist /\ \A i \in Jobs : Account(row[i], starts[i], upserts[i])
  BY DEF BudgetAccount, WorkedRowsExist
<1>2. /\ \A i \in Jobs : row[i] \in Rows /\ starts[i] \in Nat /\ upserts[i] \in Nat
      /\ \A i \in Jobs : row'[i] \in Rows
  BY TypeStep DEF TypeOK
<1> DEFINE Goal == \A i \in Jobs : Account(row'[i], starts'[i], upserts'[i])
<1>3. ASSUME UNCHANGED <<starts, upserts>>,
             \A i \in Jobs : /\ row'[i].attempts = row[i].attempts
                             /\ row'[i].status = "absent" <=> row[i].status = "absent"
      PROVE  Goal
  <2> SUFFICES ASSUME NEW i \in Jobs PROVE Account(row'[i], starts'[i], upserts'[i])
    OBVIOUS
  <2>1. starts' = starts /\ upserts' = upserts /\ Account(row[i], starts[i], upserts[i])
    BY <1>1, <1>3
  <2>2. /\ row'[i].attempts = row[i].attempts
        /\ row'[i].status = "absent" <=> row[i].status = "absent"
    BY <1>3
  <2>3. Account(row'[i], starts[i], upserts[i])  BY <2>1, <2>2, AccountSame
  <2>4. QED  BY <2>1, <2>3
<1>4. ASSUME NEW w \in Workers, WorkerNext(w) PROVE Goal
  <2>1. ASSUME NEW skipped, NEW j \in Jobs, ClaimNextPending(w, j, skipped) PROVE Goal
    <3> SUFFICES ASSUME NEW i \in Jobs PROVE Account(row'[i], starts'[i], upserts'[i])
      OBVIOUS
    <3>1. upserts' = upserts /\ starts'[i] = IF i = j THEN starts[i] + 1 ELSE starts[i]
      BY <2>1 DEF ClaimNextPending, TypeOK
    <3>2. CASE i = j
      <4>1. row'[i] = ClaimedBy(row[i], w) /\ Ready(row[i]) /\ ~AttemptsExhausted(row[i])
        BY <2>1, <3>2, ClaimRows
      <4>2. row[i].status # "absent"  BY <4>1 DEF Ready
      <4>3. QED  BY <1>1, <1>2, <3>1, <3>2, <4>1, <4>2, AccountClaim
    <3>3. CASE i # j
      <4>1. row'[i] = row[i] \/ (row'[i] = FailedAfterExhaustedAttempts(row[i]) /\ Ready(row[i]))
        BY <2>1, <3>3, ClaimRows
      <4>2. /\ row'[i].attempts = row[i].attempts
            /\ row'[i].status = "absent" <=> row[i].status = "absent"
        BY <1>2, <4>1, RowFields DEF Ready
      <4>3. QED  BY <1>1, <3>1, <3>3, <4>2, AccountSame
    <3>4. QED  BY <3>2, <3>3
  <2>2. ASSUME NEW skipped, ClaimNothing(w, skipped) PROVE Goal
    <3>1. ASSUME NEW i \in Jobs
          PROVE  /\ row'[i].attempts = row[i].attempts
                 /\ row'[i].status = "absent" <=> row[i].status = "absent"
      BY <1>2, <2>2, <3>1, GiveUpRows, RowFields DEF Ready
    <3>2. QED  BY <1>3, <2>2, <3>1 DEF ClaimNothing
  <2>3. CASE HeartbeatWrite(w)
    <3>1. ASSUME NEW i \in Jobs
          PROVE  row'[i] = row[i] \/ row'[i] = Beat(row[i], "fresh")
      BY <2>3, <3>1 DEF HeartbeatWrite, TypeOK
    <3>2. ASSUME NEW i \in Jobs
          PROVE  /\ row'[i].attempts = row[i].attempts
                 /\ row'[i].status = "absent" <=> row[i].status = "absent"
      BY <1>2, <3>1, <3>2, RowFields DEF Beats
    <3>3. QED  BY <1>3, <2>3, <3>2 DEF HeartbeatWrite, history
  <2>4. CASE MarkWrite(w)
    <3>1. PICK s \in {"succeeded", "failed"} : row' = [row EXCEPT ![worker[w].job] = Released(@, s)]
      BY <2>4 DEF MarkWrite
    <3>2. Active(w)  BY <2>4 DEF MarkWrite, Active
    <3>3. worker[w].job \in Jobs /\ row[worker[w].job].status # "absent"
      BY <1>1, <3>2, JobsOfProcesses DEF WorkedRowsExist
    <3>4. ASSUME NEW i \in Jobs
          PROVE  row'[i] = IF i = worker[w].job THEN Released(row[i], s) ELSE row[i]
      BY <3>1, <3>4 DEF TypeOK
    <3>5. ASSUME NEW i \in Jobs
          PROVE  /\ row'[i].attempts = row[i].attempts
                 /\ row'[i].status = "absent" <=> row[i].status = "absent"
      BY <1>2, <3>3, <3>4, <3>5, RowFields
    <3>6. QED  BY <1>3, <2>4, <3>5 DEF MarkWrite, history
  <2>5. CASE HeartbeatRead(w) \/ (\E outcome \in {"succeeded", "failed"} : FinishProcessing(w, outcome))
             \/ MarkRead(w) \/ MarkRaises(w) \/ Crash(w) \/ Restart(w)
    <3>1. row' = row /\ UNCHANGED <<starts, upserts>>
      BY <2>5 DEF HeartbeatRead, FinishProcessing, MarkRead, MarkRaises, Crash, Restart, history
    <3>2. QED  BY <1>3, <3>1
  <2>6. QED
    BY <1>4, <2>1, <2>2, <2>3, <2>4, <2>5 DEF WorkerNext, Claim
<1>5. ASSUME NEW r \in Requests, RequestNext(r) PROVE Goal
  <2>1. CASE InsertJob(r)
    <3>1. request[r].job \in Jobs  BY <2>1, JobsOfProcesses DEF InsertJob
    <3> SUFFICES ASSUME NEW i \in Jobs PROVE Account(row'[i], starts'[i], upserts'[i])
      OBVIOUS
    <3>2. CASE i = request[r].job
      <4>1. /\ row[i].status = "absent" /\ row'[i] = ResetPending(row[i])
            /\ starts'[i] = starts[i] /\ upserts'[i] = upserts[i] + 1
        BY <2>1, <3>2 DEF InsertJob, TypeOK
      <4>2. starts[i] = 0 /\ upserts[i] = 0  BY <1>1, <4>1 DEF Account
      <4>3. row'[i].status = "pending" /\ row'[i].attempts = 0  BY <4>1 DEF ResetPending
      <4>4. upserts'[i] = 1 /\ starts'[i] = 0  BY <4>1, <4>2
      <4>5. MaxAttempts * (1 - 1) = 0  OBVIOUS
      <4>6. QED  BY <4>3, <4>4, <4>5 DEF Account
    <3>3. CASE i # request[r].job
      BY <1>1, <2>1, <3>3 DEF InsertJob, TypeOK
    <3>4. QED  BY <3>2, <3>3
  <2>2. ASSUME NEW step \in TxSteps, NEW assigned, Commit(r, step, assigned)
        PROVE  /\ request[r].job \in Jobs /\ row[request[r].job].status # "absent"
               /\ \A i \in Jobs : row'[i] = IF i = request[r].job
                                            THEN Flush(row[i], request[r].loaded, assigned)
                                            ELSE row[i]
               /\ starts' = starts
    <3>1. request[r].job \in Jobs  BY <2>2, JobsOfProcesses DEF Commit, TxSteps
    <3>2. row[request[r].job].status # "absent"  BY <2>2 DEF Commit, ProcessesOK
    <3>3. QED  BY <2>2, <3>1, <3>2 DEF Commit, TypeOK
  <2>3. CASE UpsertPending(r)
    <3>1. PICK step \in {"upsert", "reupsert"} : Commit(r, step, ResetPending(request[r].loaded))
      BY <2>3 DEF UpsertPending
    <3> DEFINE j == request[r].job
    <3>2. /\ j \in Jobs /\ row[j].status # "absent" /\ starts' = starts
          /\ row'[j] = Flush(row[j], request[r].loaded, ResetPending(request[r].loaded))
      BY <2>2, <3>1 DEF TxSteps
    <3>3. row'[j].attempts \in {0, row[j].attempts}
      BY <3>2 DEF Flush, Written, ResetPending
    <3>4. row'[j].status # "absent"  BY <3>2 DEF Flush, Written, ResetPending
    <3> SUFFICES ASSUME NEW i \in Jobs PROVE Account(row'[i], starts'[i], upserts'[i])
      OBVIOUS
    <3>5. upserts'[i] = IF i = j THEN upserts[i] + 1 ELSE upserts[i]
      BY <2>3 DEF UpsertPending, TypeOK
    <3>6. CASE i = j
      BY <1>1, <1>2, <3>2, <3>3, <3>4, <3>5, <3>6, AccountReset
    <3>7. CASE i # j
      <4>1. row'[i] = row[i]  BY <2>2, <3>1, <3>7 DEF TxSteps
      <4>2. QED  BY <1>1, <3>2, <3>5, <3>7, <4>1
    <3>8. QED  BY <3>6, <3>7
  <2>4. CASE MarkFailed(r)
    <3> DEFINE loaded == request[r].loaded
    <3>1. Commit(r, "markFailed", Released(loaded, "failed")) /\ upserts' = upserts
      BY <2>4 DEF MarkFailed
    <3>2. Released(loaded, "failed").attempts = loaded.attempts /\ Released(loaded, "failed").status = "failed"
      BY RowFields, LoadedType
    <3>3. ASSUME NEW i \in Jobs
          PROVE  /\ row'[i].attempts = row[i].attempts
                 /\ row'[i].status = "absent" <=> row[i].status = "absent"
      <4>1. CASE i = request[r].job
        <5>1. row'[i] = Flush(row[i], loaded, Released(loaded, "failed"))
          BY <2>2, <3>1, <4>1 DEF TxSteps
        <5>2. row'[i].attempts = row[i].attempts  BY <3>2, <5>1 DEF Flush, Written
        <5>3. row'[i].status \in {"failed", row[i].status}  BY <3>2, <5>1 DEF Flush, Written
        <5>4. row[i].status # "absent"  BY <2>2, <3>1, <4>1 DEF TxSteps
        <5>5. QED  BY <5>2, <5>3, <5>4
      <4>2. CASE i # request[r].job
        BY <2>2, <3>1, <3>3, <4>2 DEF TxSteps
      <4>3. QED  BY <4>1, <4>2
    <3>4. starts' = starts  BY <2>2, <3>1 DEF TxSteps
    <3>5. QED  BY <1>3, <3>1, <3>3, <3>4
  <2>5. ASSUME MarkProcessing(r) \/ MarkSucceeded(r) PROVE FALSE
    BY <2>5 DEF MarkProcessing, MarkSucceeded, Commit, ProcessesOK
  <2>6. CASE row' = row /\ UNCHANGED <<starts, upserts>>
    BY <1>3, <2>6
  <2>7. QED
    BY <1>5, <2>1, <2>3, <2>4, <2>5, <2>6
    DEF RequestNext, Receive, GetJob, InsertConflict, StepReturns, StepRaises, RequestDies, history
<1>6. ASSUME NEW j \in Jobs, LeaseExpires(j) PROVE Goal
  <2>1. ASSUME NEW i \in Jobs PROVE row'[i] = row[i] \/ row'[i] = Beat(row[i], "stale")
    BY <1>6, <2>1 DEF LeaseExpires, TypeOK
  <2>2. ASSUME NEW i \in Jobs
        PROVE  /\ row'[i].attempts = row[i].attempts
               /\ row'[i].status = "absent" <=> row[i].status = "absent"
    BY <1>2, <2>1, <2>2, RowFields DEF Beats
  <2>3. QED  BY <1>3, <1>6, <2>2 DEF LeaseExpires, history
<1>7. CASE UNCHANGED vars
  BY <1>3, <1>7 DEF vars
<1>8. QED  BY <1>4, <1>5, <1>6, <1>7 DEF Next

LEMMA BudgetInit == Init => BudgetAccount
<1> SUFFICES ASSUME Init PROVE BudgetAccount
  OBVIOUS
<1>1. WorkedRowsExist  BY DEF Init, WorkedRowsExist, Active, WorkerAt
<1>2. Accounts
  <2>1. \A j \in Jobs : row[j].status = "absent" /\ row[j].attempts = 0
                         /\ starts[j] = 0 /\ upserts[j] = 0
    BY DEF Init, AbsentRow
  <2>2. ASSUME NEW j \in Jobs PROVE Account(row[j], starts[j], upserts[j])
    <3>1. 0 <= MaxAttempts  OBVIOUS
    <3>2. QED  BY <2>1, <3>1 DEF Account
  <2>3. QED  BY <2>2 DEF Accounts
<1>3. QED  BY <1>1, <1>2, BudgetParts

(* With asynchronous ingestion the workers start a job at most max_attempts *)
(* times per committed upsert of it.                                       *)
THEOREM BudgetSafety == Spec => []ExecutionBudget
<1>1. Init => TypeOK /\ ProcessesOK /\ BudgetAccount
  BY InitBase, BudgetInit
<1>2. TypeOK /\ ProcessesOK /\ BudgetAccount /\ [Next]_vars
        => (TypeOK /\ ProcessesOK /\ BudgetAccount)'
  <2> SUFFICES ASSUME TypeOK, ProcessesOK, BudgetAccount, [Next]_vars
               PROVE  (TypeOK /\ ProcessesOK /\ BudgetAccount)'
    OBVIOUS
  <2>1. TypeOK' /\ ProcessesOK'  BY TypeStep, ProcessesStep
  <2>2. WorkedRowsExist' /\ Accounts'  BY WorkedRowsStep, AccountsStep, BudgetParts
  <2>3. (WorkedRowsExist /\ Accounts)' => BudgetAccount'
    BY DEF BudgetAccount, WorkedRowsExist, Accounts
  <2>4. QED  BY <2>1, <2>2, <2>3
<1>3. TypeOK /\ BudgetAccount => ExecutionBudget
  BY AccountBound DEF TypeOK, BudgetAccount, ExecutionBudget
<1>4. QED  BY <1>1, <1>2, <1>3, PTL DEF Spec
=============================================================================
