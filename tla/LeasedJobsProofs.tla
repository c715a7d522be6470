-------------------------- MODULE LeasedJobsProofs --------------------------
(***************************************************************************)
(* The ingest queue implements LeasedJobs, for any number of jobs, workers *)
(* and requests, any attempt limit and both settings of INGEST_SYNC: each  *)
(* step of IngestQueue is, under the mapping of ImplementsLeasedJobs, a    *)
(* step of LeasedJobs or a stutter.                                        *)
(***************************************************************************)
EXTENDS IngestQueueProofs

(* The invariant of the safety theorems, as one. *)
LEMMA InductiveInit == Init => Inductive
BY InitBase, LeaseInit, BudgetInit DEF Inductive

LEMMA InductiveStep == Inductive /\ [Next]_vars => Inductive'
<1> SUFFICES ASSUME Inductive, [Next]_vars PROVE Inductive'
  OBVIOUS
<1>1. TypeOK /\ ProcessesOK /\ LeaseIntact /\ LeaseExclusive /\ BudgetAccount  BY DEF Inductive
<1>2. TypeOK' /\ ProcessesOK'  BY <1>1, TypeStep, ProcessesStep
<1>3. LeaseIntact' /\ LeaseExclusive'  BY <1>1, LeaseStep
<1>4. WorkedRowsExist' /\ Accounts'  BY <1>1, WorkedRowsStep, AccountsStep, BudgetParts
<1>5. (WorkedRowsExist /\ Accounts)' => BudgetAccount'
  BY DEF BudgetAccount, WorkedRowsExist, Accounts
<1> QED  BY <1>2, <1>3, <1>4, <1>5 DEF Inductive

(* The invariant TLC checks on its instances holds of every instance.      *)
THEOREM InductiveInvariant == Spec => []Inductive
<1> QED  BY InductiveInit, InductiveStep, PTL DEF Spec

----------------------------------------------------------------------------
(* Workers that work under a lease after a step did so before it, on the   *)
(* same job.                                                               *)
NobodyJoins ==
    \A v \in Workers \ lapsed' : Active(v)' =>
        v \notin lapsed /\ Active(v) /\ worker'[v].job = worker[v].job

LEMMA NobodyJoinsEnds == NobodyJoins => Promise!LeasesOnlyEnd
BY DEF NobodyJoins, Promise!LeasesOnlyEnd, Holders, ActiveOn

LEMMA Untouched ==
    ASSUME worker' = worker, lapsed \subseteq lapsed' PROVE NobodyJoins
BY DEF NobodyJoins, Active

(* Rows that are open after a step were open before it. *)
LEMMA OpenShrinks ==
    ASSUME \A i \in Jobs : \/ row'[i].status = row[i].status
                           \/ row'[i].status \in {"succeeded", "failed"}
    PROVE  OpenJobs' \subseteq OpenJobs
BY DEF OpenJobs

LEMMA EndStep ==
    ASSUME NobodyJoins, UNCHANGED <<starts, upserts>>,
           \A i \in Jobs : \/ row'[i].status = row[i].status
                           \/ row'[i].status \in {"succeeded", "failed"}
    PROVE  Promise!Next
BY NobodyJoinsEnds, OpenShrinks DEF Promise!Next, Promise!End

(* A claim is a Start: Ready rows have no holder. *)
LEMMA ClaimStarts ==
    ASSUME Inductive, Inductive', NEW w \in Workers, NEW j \in Jobs, NEW skipped,
           ClaimNextPending(w, j, skipped)
    PROVE  Promise!Start(w, j)
<1>1. TypeOK /\ ProcessesOK /\ LeaseIntact  BY DEF Inductive
<1>2. \A i \in Jobs : row[i] \in Rows  BY <1>1 DEF TypeOK
<1>3. Ready(row[j]) /\ row'[j] = ClaimedBy(row[j], w)
  BY <1>1, ClaimRows DEF ClaimNextPending, Offered
<1>4. j \in OpenJobs /\ j \in OpenJobs'
  BY <1>3 DEF OpenJobs, Ready, ClaimedBy
<1>5. OpenJobs' \subseteq OpenJobs
  <2>1. ASSUME NEW i \in Jobs, i # j
        PROVE  row'[i].status = row[i].status \/ row'[i].status = "failed"
    BY <1>1, <1>2, <2>1, ClaimRows, RowFields
  <2> QED  BY <1>4, <2>1 DEF OpenJobs
<1>6. \A v \in Workers : worker'[v] = IF v = w THEN WorkerAt("working", j) ELSE worker[v]
  BY <1>1, OthersStay DEF ClaimNextPending
<1>7. ~Active(w) /\ lapsed' = lapsed \ {w}
  BY DEF ClaimNextPending, Active
<1>8. \A v \in Workers \ lapsed : ~ActiveOn(v, j)
  BY <1>1, <1>3, LeaseIntactHeld, HeldNotReady DEF ActiveOn
<1>9. \A v \in Workers, i \in Jobs :
        v \notin lapsed' /\ ActiveOn(v, i)' <=> IF v = w THEN i = j ELSE v \notin lapsed /\ ActiveOn(v, i)
  BY <1>6, <1>7 DEF ActiveOn, Active, WorkerAt
<1>10. Holders[j] = {}  BY <1>8 DEF Holders
<1>11. Holders' = [Holders EXCEPT ![j] = {w}]
  <2>1. ASSUME NEW i \in Jobs PROVE Holders'[i] = IF i = j THEN {w} ELSE Holders[i]
    <3>1. Holders'[i] = {v \in Workers : v \notin lapsed' /\ ActiveOn(v, i)'}  BY DEF Holders
    <3>2. Holders[i] = {v \in Workers : v \notin lapsed /\ ActiveOn(v, i)}  BY DEF Holders
    <3>3. ~ActiveOn(w, i)  BY <1>7 DEF ActiveOn
    <3>4. CASE i = j  BY <1>8, <1>9, <3>1, <3>4
    <3>5. CASE i # j  BY <1>9, <3>1, <3>2, <3>3, <3>5
    <3> QED  BY <3>4, <3>5
  <2> QED  BY <2>1 DEF Holders
<1>12. ~IngestSync => starts'[j] <= MaxAttempts * upserts[j]
  <2>1. row'[j] \in Rows /\ starts'[j] \in Nat /\ upserts'[j] \in Nat  BY DEF Inductive, TypeOK
  <2>2. ~IngestSync => Account(row'[j], starts'[j], upserts'[j])  BY DEF Inductive, BudgetAccount
  <2>3. upserts' = upserts  BY DEF ClaimNextPending
  <2> QED  BY <2>1, <2>2, <2>3, AccountBound
<1> QED
  BY <1>4, <1>5, <1>10, <1>11, <1>12 DEF Promise!Start, ClaimNextPending

(* Everything else a worker does ends something, or nothing. *)
LEMMA WorkerStepMaps ==
    ASSUME Inductive, Inductive', NEW w \in Workers, WorkerNext(w)
    PROVE  Promise!Next
<1>1. TypeOK /\ ProcessesOK  BY DEF Inductive
<1>2. \A i \in Jobs : row[i] \in Rows  BY <1>1 DEF TypeOK
<1>3. ASSUME NEW skipped, NEW j \in Jobs, ClaimNextPending(w, j, skipped) PROVE Promise!Next
  <2>1. Promise!Start(w, j)  BY <1>3, ClaimStarts
  <2> QED  BY <2>1 DEF Promise!Next
<1>4. ASSUME NEW skipped, ClaimNothing(w, skipped) PROVE Promise!Next
  <2>1. NobodyJoins  BY <1>4, Untouched DEF ClaimNothing
  <2>2. ASSUME NEW i \in Jobs
        PROVE  row'[i].status = row[i].status \/ row'[i].status \in {"succeeded", "failed"}
    BY <1>1, <1>2, <1>4, GiveUpRows, RowFields
  <2> QED  BY <1>4, <2>1, <2>2, EndStep DEF ClaimNothing
<1>5. ASSUME NEW state, Become(w, state), lapsed' \in {lapsed, lapsed \ {w}},
             state.pc \notin {"down", "idle"} =>
                lapsed' = lapsed /\ Active(w) /\ state.job = worker[w].job
      PROVE  NobodyJoins
  <2>1. \A v \in Workers : worker'[v] = IF v = w THEN state ELSE worker[v]
    BY <1>1, <1>5, OthersStay
  <2> QED  BY <1>5, <2>1 DEF NobodyJoins, Active
<1>6. CASE HeartbeatRead(w) \/ HeartbeatWrite(w)
  <2>1. PICK b \in BOOLEAN : Become(w, [worker[w] EXCEPT !.beating = b])
    BY <1>6 DEF HeartbeatRead, HeartbeatWrite
  <2>2. worker[w] \in WorkerStates  BY <1>1 DEF TypeOK
  <2>3. [worker[w] EXCEPT !.beating = b].job = worker[w].job  BY <2>2 DEF WorkerStates
  <2>4. Active(w)  BY <1>1, <1>6 DEF HeartbeatRead, HeartbeatWrite, Active, ProcessesOK
  <2>5. NobodyJoins
    BY <1>5, <1>6, <2>1, <2>3, <2>4 DEF HeartbeatRead, HeartbeatWrite
  <2>6. ASSUME NEW i \in Jobs PROVE row'[i].status = row[i].status
    <3>1. row'[i] \in {row[i], Beat(row[i], "fresh")}
      BY <1>1, <1>6 DEF HeartbeatRead, HeartbeatWrite, TypeOK
    <3> QED  BY <1>2, <3>1, RowFields DEF Beats
  <2> QED  BY <1>6, <2>5, <2>6, EndStep DEF HeartbeatRead, HeartbeatWrite, history
<1>7. ASSUME NEW outcome \in {"succeeded", "failed"}, FinishProcessing(w, outcome)
      PROVE  Promise!Next
  <2>1. Active(w) /\ WorkerAt(outcome, worker[w].job).job = worker[w].job
    BY <1>7 DEF FinishProcessing, Active, WorkerAt
  <2>2. NobodyJoins  BY <1>5, <1>7, <2>1 DEF FinishProcessing
  <2> QED  BY <1>7, <2>2, EndStep DEF FinishProcessing, history
<1>8. CASE MarkRead(w)
  <2>1. Active(w) /\ \A pc : WorkerAt(pc, worker[w].job).job = worker[w].job
    BY <1>8 DEF MarkRead, Active, WorkerAt
  <2>2. NobodyJoins  BY <1>5, <1>8, <2>1 DEF MarkRead
  <2> QED  BY <1>8, <2>2, EndStep DEF MarkRead, history
<1>9. CASE MarkWrite(w)
  <2>1. WorkerAt("idle", NoJob).pc = "idle"  BY DEF WorkerAt
  <2>2. NobodyJoins  BY <1>5, <1>9, <2>1 DEF MarkWrite
  <2>3. PICK s \in {"succeeded", "failed"} : row' = [row EXCEPT ![worker[w].job] = Released(@, s)]
    BY <1>9 DEF MarkWrite
  <2>4. ASSUME NEW i \in Jobs
        PROVE  row'[i].status = row[i].status \/ row'[i].status \in {"succeeded", "failed"}
    <3>1. row'[i] \in {row[i], Released(row[i], s)}  BY <1>1, <2>3 DEF TypeOK
    <3> QED  BY <1>2, <3>1, RowFields
  <2> QED  BY <1>9, <2>2, <2>4, EndStep DEF MarkWrite, history
<1>10. CASE MarkRaises(w) \/ Crash(w) \/ Restart(w)
  <2>1. \A pc \in {"down", "idle"} : WorkerAt(pc, NoJob).pc = pc  BY DEF WorkerAt
  <2>2. NobodyJoins  BY <1>5, <1>10, <2>1 DEF MarkRaises, Crash, Restart
  <2> QED  BY <1>10, <2>2, EndStep DEF MarkRaises, Crash, Restart, history
<1> QED
  BY <1>3, <1>4, <1>6, <1>7, <1>8, <1>9, <1>10 DEF WorkerNext, Claim

(* A transaction that loaded a row writes the status it assigns or leaves  *)
(* the one it finds.                                                       *)
LEMMA CommitMaps ==
    ASSUME Inductive, NEW r \in Requests, NEW step \in TxSteps, NEW assigned,
           Commit(r, step, assigned)
    PROVE  /\ request[r].job \in Jobs
           /\ NobodyJoins
           /\ starts' = starts
           /\ \A i \in Jobs : \/ row'[i].status = row[i].status
                              \/ i = request[r].job /\ row'[i].status = assigned.status
<1>1. TypeOK /\ ProcessesOK  BY DEF Inductive
<1>2. request[r].job \in Jobs  BY <1>1, JobsOfProcesses DEF Commit, TxSteps
<1>3. NobodyJoins  BY Untouched DEF Commit
<1>4. ASSUME NEW i \in Jobs
      PROVE  \/ row'[i].status = row[i].status
             \/ i = request[r].job /\ row'[i].status = assigned.status
  <2>1. CASE i = request[r].job
    <3>1. row'[i] = Flush(row[i], request[r].loaded, assigned)  BY <1>1, <2>1 DEF Commit, TypeOK
    <3> QED  BY <2>1, <3>1 DEF Flush, Written
  <2>2. CASE i # request[r].job  BY <1>1, <2>2 DEF Commit, TypeOK
  <2> QED  BY <2>1, <2>2
<1> QED  BY <1>2, <1>3, <1>4 DEF Commit

(* One job may become open, the others do not. *)
LEMMA OpenGrows ==
    ASSUME NEW j \in Jobs, NEW s \in {"pending", "processing"},
           \A i \in Jobs : row'[i].status = row[i].status \/ (i = j /\ row'[i].status = s)
    PROVE  OpenJobs' \in {OpenJobs, OpenJobs \cup {j}}
<1>1. CASE row'[j].status = row[j].status
  BY <1>1 DEF OpenJobs
<1>2. CASE row'[j].status = s
  BY <1>2 DEF OpenJobs
<1> QED  BY <1>1, <1>2

LEMMA RequestStepMaps ==
    ASSUME Inductive, NEW r \in Requests, RequestNext(r)
    PROVE  [Promise!Next]_(Promise!jvars)
<1>1. TypeOK /\ ProcessesOK  BY DEF Inductive
<1>2. CASE InsertJob(r)
  <2> DEFINE j == request[r].job
  <2>1. j \in Jobs  BY <1>1, <1>2, JobsOfProcesses DEF InsertJob
  <2>2. NobodyJoins  BY <1>2, Untouched DEF InsertJob
  <2>3. ASSUME NEW i \in Jobs
        PROVE  row'[i].status = row[i].status \/ (i = j /\ row'[i].status = "pending")
    BY <1>1, <1>2, <2>1 DEF InsertJob, TypeOK, ResetPending
  <2>4. OpenJobs' \in {OpenJobs, OpenJobs \cup {j}}  BY <2>1, <2>3, OpenGrows
  <2>5. Promise!Submit(j)
    BY <1>2, <2>2, <2>4, NobodyJoinsEnds DEF Promise!Submit, InsertJob
  <2> QED  BY <2>1, <2>5 DEF Promise!Next
<1>3. CASE UpsertPending(r)
  <2> DEFINE j == request[r].job
  <2>1. PICK step \in {"upsert", "reupsert"} : Commit(r, step, ResetPending(request[r].loaded))
    BY <1>3 DEF UpsertPending
  <2>2. step \in TxSteps  BY DEF TxSteps
  <2>3. ResetPending(request[r].loaded).status = "pending"  BY DEF ResetPending
  <2>4. j \in Jobs /\ NobodyJoins /\ starts' = starts  BY <2>1, <2>2, CommitMaps
  <2>5. \A i \in Jobs : row'[i].status = row[i].status \/ (i = j /\ row'[i].status = "pending")
    BY <2>1, <2>2, <2>3, CommitMaps
  <2>6. OpenJobs' \in {OpenJobs, OpenJobs \cup {j}}  BY <2>4, <2>5, OpenGrows
  <2>7. Promise!Submit(j)
    BY <1>3, <2>4, <2>6, NobodyJoinsEnds DEF Promise!Submit, UpsertPending
  <2> QED  BY <2>4, <2>7 DEF Promise!Next
<1>4. CASE MarkProcessing(r)
  <2> DEFINE j == request[r].job
  <2>1. Commit(r, "markProcessing", SyncClaimed(request[r].loaded))  BY <1>4 DEF MarkProcessing
  <2>2. "markProcessing" \in TxSteps  BY DEF TxSteps
  <2>3. SyncClaimed(request[r].loaded).status = "processing"  BY DEF SyncClaimed
  <2>4. j \in Jobs /\ NobodyJoins /\ starts' = starts  BY <2>1, <2>2, CommitMaps
  <2>5. \A i \in Jobs : row'[i].status = row[i].status \/ (i = j /\ row'[i].status = "processing")
    BY <2>1, <2>2, <2>3, CommitMaps
  <2>6. OpenJobs' \in {OpenJobs, OpenJobs \cup {j}}  BY <2>4, <2>5, OpenGrows
  <2>7. IngestSync  BY <1>1, <2>1 DEF Commit, ProcessesOK
  <2>8. Promise!Take(j)
    BY <1>4, <2>4, <2>6, <2>7, NobodyJoinsEnds DEF Promise!Take, MarkProcessing
  <2> QED  BY <2>4, <2>8 DEF Promise!Next
<1>5. ASSUME NEW s \in {"succeeded", "failed"}, NEW step \in TxSteps,
             Commit(r, step, Released(request[r].loaded, s)), upserts' = upserts
      PROVE  Promise!Next
  <2>1. Released(request[r].loaded, s).status = s  BY <1>1, LoadedType, RowFields
  <2> QED  BY <1>5, <2>1, CommitMaps, EndStep
<1>6. CASE MarkSucceeded(r) \/ MarkFailed(r)
  BY <1>5, <1>6 DEF MarkSucceeded, MarkFailed, TxSteps
<1>7. CASE UNCHANGED <<row, worker, lapsed, starts, upserts>>
  BY <1>7, Untouched, EndStep
<1> QED
  BY <1>2, <1>3, <1>4, <1>6, <1>7
  DEF RequestNext, Receive, GetJob, InsertConflict, StepReturns, StepRaises, RequestDies, history

LEMMA StepMaps == Inductive /\ Inductive' /\ [Next]_vars => [Promise!Next]_(Promise!jvars)
<1> SUFFICES ASSUME Inductive, Inductive', [Next]_vars PROVE [Promise!Next]_(Promise!jvars)
  OBVIOUS
<1>1. ASSUME NEW w \in Workers, WorkerNext(w) PROVE Promise!Next
  BY <1>1, WorkerStepMaps
<1>2. ASSUME NEW r \in Requests, RequestNext(r) PROVE [Promise!Next]_(Promise!jvars)
  BY <1>2, RequestStepMaps
<1>3. ASSUME NEW j \in Jobs, LeaseExpires(j) PROVE Promise!Next
  <2>1. NobodyJoins  BY <1>3, Untouched DEF LeaseExpires
  <2>2. ASSUME NEW i \in Jobs PROVE row'[i].status = row[i].status
    <3>1. row[i] \in Rows  BY DEF Inductive, TypeOK
    <3>2. row'[i] \in {row[i], Beat(row[i], "stale")}
      BY <1>3 DEF LeaseExpires, Inductive, TypeOK
    <3> QED  BY <3>1, <3>2, RowFields DEF Beats
  <2> QED  BY <1>3, <2>1, <2>2, EndStep DEF LeaseExpires, history
<1>4. CASE UNCHANGED vars
  BY <1>4 DEF vars, Promise!jvars, OpenJobs, Holders, ActiveOn, Active
<1> QED  BY <1>1, <1>2, <1>3, <1>4 DEF Next

(* A worker starts only an open job nobody holds, within what the upserts  *)
(* of it pay for, and only a request opens a job: whatever the rows, the   *)
(* transactions and the heartbeats of worker/ingest_worker.py and          *)
(* app/ingest_service.py interleave to.                                    *)
THEOREM QueueImplementsLeasedJobs == Spec => ImplementsLeasedJobs
<1>1. Init => Promise!Init
  BY DEF Init, Promise!Init, OpenJobs, Holders, AbsentRow, ActiveOn, Active, WorkerAt
<1> QED
  BY <1>1, InductiveInvariant, StepMaps, PTL DEF Spec, ImplementsLeasedJobs, Promise!Spec
=============================================================================
