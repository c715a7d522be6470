----------------------------- MODULE IngestQueue -----------------------------
(***************************************************************************)
(* The ingest job queue: the ingest_job table, the workers that claim,     *)
(* heartbeat and finish jobs (worker/ingest_worker.py), and the API        *)
(* requests that create and reset them (app/ingest_service.py).            *)
(*                                                                         *)
(* PostgreSQL runs at READ COMMITTED.  claim_next_pending reads with FOR   *)
(* UPDATE SKIP LOCKED, so it is one step.  Every other transaction is a    *)
(* plain SELECT followed by an UPDATE, two steps between which any other   *)
(* process may commit.  What a job's bytes are, and what processing does   *)
(* with them, is the subject of IngestPipeline.                            *)
(***************************************************************************)
EXTENDS IngestJobTable, Sequences, FiniteSets

CONSTANTS
    Requests,       \* POST /v1/ingest/document calls, each made at most once
    NoJob,          \* a process that holds no job
    IngestSync,     \* the INGEST_SYNC setting of the API
    LateHeartbeats, \* a working worker's heartbeat may come after its lease
    MaxCrashes      \* bound: how often workers die, all together

ASSUME QueueAssumption ==
    /\ NoJob \notin Jobs
    /\ IngestSync \in BOOLEAN
    /\ LateHeartbeats \in BOOLEAN
    /\ MaxCrashes \in Nat

VARIABLES
    row,        \* the ingest_job table
    inserted,   \* the jobs in the order of created_at
    worker,     \* the local state of each worker process
    request,    \* the local state of each API request
    crashes,    \* how often a worker died
    lapsed,     \* history: the working workers that lost their lease by
                \* expiry, or by a request that wrote to their row
    starts,     \* history: how often a worker began to work on a job
    upserts     \* history: how many upserts of a job were committed

vars == <<row, inserted, worker, request, crashes, lapsed, starts, upserts>>
history == <<starts, upserts>>

----------------------------------------------------------------------------
(* Processes.                                                              *)

(* pc of a worker.  In the last two the SELECT of _update_status has been  *)
(* made, and its lease check passed, but not its UPDATE.                   *)
WorkerPcs == {"down", "idle", "working", "succeeded", "failed",
              "writingSucceeded", "writingFailed"}

(* The next thing a request does.  open says that its transaction has read *)
(* the row and not written it yet.                                         *)
TxSteps == {"upsert", "reupsert", "markProcessing", "markSucceeded", "markFailed"}
RequestSteps == TxSteps \cup {"new", "upload", "ingest", "done", "error"}

WorkerStates == [pc: WorkerPcs, job: Jobs \cup {NoJob}, beating: BOOLEAN]
RequestStates == [step: RequestSteps, job: Jobs \cup {NoJob}, open: BOOLEAN, loaded: Rows]

WorkerAt(pc, job) == [pc |-> pc, job |-> job, beating |-> FALSE]
Become(w, state) == worker' = [worker EXCEPT ![w] = state]

Active(w) == worker[w].pc \notin {"down", "idle"}
ActiveOn(w, j) == Active(w) /\ worker[w].job = j

(* Rows some open transaction may hold locked: FOR UPDATE SKIP LOCKED may  *)
(* pass them over.                                                         *)
MaybeLocked(j) ==
    \/ \E w \in Workers : /\ worker[w].job = j
                          /\ worker[w].beating \/ worker[w].pc \in {"writingSucceeded", "writingFailed"}
    \/ \E r \in Requests : request[r].open /\ request[r].job = j

(* Workers whose lease a write to row j takes away. *)
Bereft(j) == {w \in Workers : ActiveOn(w, j)}

Older(i, j) == \E m, n \in DOMAIN inserted : m < n /\ inserted[m] = i /\ inserted[n] = j

Init ==
    /\ row = [j \in Jobs |-> AbsentRow]
    /\ inserted = << >>
    /\ worker = [w \in Workers |-> WorkerAt("idle", NoJob)]
    /\ request = [r \in Requests |->
                    [step |-> "new", job |-> NoJob, open |-> FALSE, loaded |-> AbsentRow]]
    /\ crashes = 0
    /\ lapsed = {}
    /\ starts = [j \in Jobs |-> 0]
    /\ upserts = [j \in Jobs |-> 0]
----------------------------------------------------------------------------
(* claim_next_pending.  In one transaction the worker walks the rows that  *)
(* are ready, oldest first: the exhausted ones it marks failed, the first  *)
(* other one it takes.  skipped are the rows it finds locked.              *)

Offered(skipped) == {j \in Jobs \ skipped : Ready(row[j])}
Exhausted(skipped) == {j \in Offered(skipped) : AttemptsExhausted(row[j])}

ClaimNextPending(w, j, skipped) ==
    LET given_up == {i \in Exhausted(skipped) : Older(i, j)} IN
    /\ worker[w].pc = "idle"
    /\ j \in Offered(skipped) \ Exhausted(skipped)
    /\ \A i \in Offered(skipped) : Older(i, j) => i \in given_up
    /\ row' = [i \in Jobs |-> IF i = j THEN ClaimedBy(row[i], w)
                              ELSE IF i \in given_up THEN FailedAfterExhaustedAttempts(row[i])
                              ELSE row[i]]
    /\ Become(w, WorkerAt("working", j))
    /\ lapsed' = lapsed \ {w}
    /\ starts' = [starts EXCEPT ![j] = @ + 1]
    /\ UNCHANGED <<inserted, request, crashes, upserts>>

(* Nothing but exhausted rows is ready: they fail, and the worker polls.   *)
ClaimNothing(w, skipped) ==
    /\ worker[w].pc = "idle"
    /\ Offered(skipped) = Exhausted(skipped)
    /\ Exhausted(skipped) # {}
    /\ row' = [i \in Jobs |-> IF i \in Exhausted(skipped)
                              THEN FailedAfterExhaustedAttempts(row[i]) ELSE row[i]]
    /\ UNCHANGED <<inserted, worker, request, crashes, lapsed, starts, upserts>>

Skippable == SUBSET {j \in Jobs : MaybeLocked(j)}

Claim(w) == \E skipped \in Skippable :
    \/ \E j \in Jobs : ClaimNextPending(w, j, skipped)
    \/ ClaimNothing(w, skipped)

(* The SELECT of heartbeat.  A heartbeat whose lease check fails is logged *)
(* and tried again after the interval.                                     *)
HeartbeatRead(w) ==
    /\ worker[w].pc = "working" /\ ~worker[w].beating
    /\ LeaseOwned(row[worker[w].job], w)
    /\ Become(w, [worker[w] EXCEPT !.beating = TRUE])
    /\ UNCHANGED <<row, inserted, request, crashes, lapsed, history>>

(* Mutant: its UPDATE names every column of the row it loaded. *)
HeartbeatWriteRow(w) ==
    /\ worker[w].beating
    /\ row' = [row EXCEPT ![worker[w].job] =
                  [@ EXCEPT !.status = "processing", !.owner = w, !.beat = "fresh"]]
    /\ Become(w, [worker[w] EXCEPT !.beating = FALSE])
    /\ UNCHANGED <<inserted, request, crashes, lapsed, history>>

(* Its UPDATE, which names heartbeat_at only. *)
HeartbeatWrite(w) ==
    /\ worker[w].beating
    /\ row' = [row EXCEPT ![worker[w].job] = Beat(@, "fresh")]
    /\ Become(w, [worker[w] EXCEPT !.beating = FALSE])
    /\ UNCHANGED <<inserted, request, crashes, lapsed, history>>

(* process_job: the download and process_prepared_document have returned,  *)
(* or raised.  The heartbeat task is cancelled, and awaited, before the    *)
(* outcome is written: a heartbeat under way is rolled back.               *)
FinishProcessing(w, outcome) ==
    /\ worker[w].pc = "working"
    /\ Become(w, WorkerAt(outcome, worker[w].job))
    /\ UNCHANGED <<row, inserted, request, crashes, lapsed, history>>

(* The SELECT of _update_status, and its lease check. *)
MarkRead(w) ==
    /\ worker[w].pc \in {"succeeded", "failed"}
    /\ LeaseOwned(row[worker[w].job], w)
    /\ Become(w, WorkerAt(IF worker[w].pc = "succeeded" THEN "writingSucceeded"
                           ELSE "writingFailed", worker[w].job))
    /\ UNCHANGED <<row, inserted, request, crashes, lapsed, history>>

(* The loaded row is processing and locked by w, so status and locked_by   *)
(* are always part of the UPDATE, whatever the table holds by now.         *)
MarkWrite(w) ==
    /\ worker[w].pc \in {"writingSucceeded", "writingFailed"}
    /\ row' = [row EXCEPT ![worker[w].job] =
                  Released(@, IF worker[w].pc = "writingSucceeded" THEN "succeeded" ELSE "failed")]
    /\ Become(w, WorkerAt("idle", NoJob))
    /\ lapsed' = lapsed \ {w}
    /\ UNCHANGED <<inserted, request, crashes, history>>

(* The lease check, or the database, raises.  run logs it and goes on with *)
(* the next job; the row stays as it is.                                   *)
MarkRaises(w) ==
    /\ worker[w].pc \in {"succeeded", "failed", "writingSucceeded", "writingFailed"}
    /\ Become(w, WorkerAt("idle", NoJob))
    /\ lapsed' = lapsed \ {w}
    /\ UNCHANGED <<row, inserted, request, crashes, history>>

(* The process dies, or is cancelled, anywhere: what it had not committed  *)
(* is rolled back, the row it held stays "processing" under its id.        *)
Crash(w) ==
    /\ worker[w].pc # "down" /\ crashes < MaxCrashes
    /\ Become(w, WorkerAt("down", NoJob))
    /\ crashes' = crashes + 1
    /\ lapsed' = lapsed \ {w}
    /\ UNCHANGED <<row, inserted, request, history>>

(* In a container the new process has the old one's hostname:pid. *)
Restart(w) ==
    /\ worker[w].pc = "down"
    /\ Become(w, WorkerAt("idle", NoJob))
    /\ UNCHANGED <<row, inserted, request, crashes, lapsed, history>>

(* lease_seconds have passed since heartbeat_at. *)
Attended(j) == \E w \in Workers : ActiveOn(w, j) /\ row[j].owner = w

LeaseExpires(j) ==
    /\ row[j].status = "processing" /\ row[j].beat = "fresh"
    /\ LateHeartbeats \/ ~Attended(j)
    /\ row' = [row EXCEPT ![j] = Beat(@, "stale")]
    /\ lapsed' = lapsed \cup Bereft(j)
    /\ UNCHANGED <<inserted, worker, request, crashes, history>>

----------------------------------------------------------------------------
(* The API requests.  create_pending_job (INGEST_SYNC=false):              *)
(*   upsert, upload, reupsert                                              *)
(* ingest_document (INGEST_SYNC=true):                                     *)
(*   upsert, markProcessing, ingest, markSucceeded                         *)
(* and markFailed when a step inside the try block raises.                 *)

NextStep(step) ==
    CASE step = "upsert" -> IF IngestSync THEN "markProcessing" ELSE "upload"
      [] step = "upload" -> "reupsert"
      [] step = "markProcessing" -> "ingest"
      [] step = "ingest" -> "markSucceeded"
      [] step = "markFailed" -> "error"
      [] OTHER -> "done"

Goto(r, step) ==
    request' = [request EXCEPT ![r] = [step |-> step, open |-> FALSE, loaded |-> AbsentRow,
                                       job |-> IF step \in {"done", "error"} THEN NoJob ELSE @.job]]

(* The request arrives; its document is staged. *)
Receive(r, j) ==
    /\ request[r].step = "new"
    /\ request' = [request EXCEPT ![r] = [@ EXCEPT !.step = "upsert", !.job = j]]
    /\ UNCHANGED <<row, inserted, worker, crashes, lapsed, history>>

(* _get_job, the SELECT of every IngestJobRepository transaction. *)
GetJob(r) ==
    /\ request[r].step \in TxSteps /\ ~request[r].open
    /\ request' = [request EXCEPT ![r] = [@ EXCEPT !.open = TRUE, !.loaded = row[request[r].job]]]
    /\ UNCHANGED <<row, inserted, worker, crashes, lapsed, history>>

(* The row was not there: INSERT, and COMMIT. *)
InsertJob(r) ==
    LET j == request[r].job IN
    /\ request[r].step = "upsert" /\ request[r].open
    /\ request[r].loaded.status = "absent" /\ row[j].status = "absent"
    /\ row' = [row EXCEPT ![j] = ResetPending(@)]
    /\ inserted' = Append(inserted, j)
    /\ upserts' = [upserts EXCEPT ![j] = @ + 1]
    /\ Goto(r, NextStep("upsert"))
    /\ UNCHANGED <<worker, crashes, lapsed, starts>>

(* Another request inserted it meanwhile: IntegrityError, HTTP 500. *)
InsertConflict(r) ==
    /\ request[r].step = "upsert" /\ request[r].open
    /\ request[r].loaded.status = "absent" /\ row[request[r].job].status # "absent"
    /\ Goto(r, "error")
    /\ UNCHANGED <<row, inserted, worker, crashes, lapsed, history>>

(* Flush and COMMIT of a transaction that loaded the row.  Taking the row  *)
(* from a worker that works on it costs that worker its lease.             *)
Commit(r, step, assigned) ==
    LET j == request[r].job
        flushed == Flush(row[j], request[r].loaded, assigned) IN
    /\ request[r].step = step /\ request[r].open
    /\ request[r].loaded.status # "absent"
    /\ row' = [row EXCEPT ![j] = flushed]
    /\ lapsed' = IF flushed = row[j] THEN lapsed ELSE lapsed \cup Bereft(j)
    /\ Goto(r, NextStep(step))
    /\ UNCHANGED <<inserted, worker, crashes, starts>>

(* upsert_job(status="pending") of a row that exists. *)
UpsertPending(r) ==
    /\ \E step \in {"upsert", "reupsert"} : Commit(r, step, ResetPending(request[r].loaded))
    /\ upserts' = [upserts EXCEPT ![request[r].job] = @ + 1]

(* mark_processing, mark_succeeded and mark_failed: no lease is checked. *)
MarkProcessing(r) ==
    Commit(r, "markProcessing", SyncClaimed(request[r].loaded)) /\ UNCHANGED upserts
MarkSucceeded(r) ==
    Commit(r, "markSucceeded", Released(request[r].loaded, "succeeded")) /\ UNCHANGED upserts
MarkFailed(r) ==
    Commit(r, "markFailed", Released(request[r].loaded, "failed")) /\ UNCHANGED upserts

(* The raw upload, or the synchronous processing, returns. *)
StepReturns(r) ==
    /\ request[r].step \in {"upload", "ingest"}
    /\ Goto(r, NextStep(request[r].step))
    /\ UNCHANGED <<row, inserted, worker, crashes, lapsed, history>>

(* A step inside the try block raises. *)
StepRaises(r) ==
    /\ request[r].step \in {"upload", "markProcessing", "ingest", "markSucceeded"}
    /\ Goto(r, "markFailed")
    /\ UNCHANGED <<row, inserted, worker, crashes, lapsed, history>>

(* The API process dies, or a transaction outside the try block raises, or *)
(* the one in _mark_failed does, which is suppressed.                      *)
RequestDies(r) ==
    /\ request[r].step \notin {"new", "done", "error"}
    /\ Goto(r, "error")
    /\ UNCHANGED <<row, inserted, worker, crashes, lapsed, history>>

----------------------------------------------------------------------------
WorkerNext(w) ==
    \/ Claim(w) \/ HeartbeatRead(w) \/ HeartbeatWrite(w)
    \/ \E outcome \in {"succeeded", "failed"} : FinishProcessing(w, outcome)
    \/ MarkRead(w) \/ MarkWrite(w) \/ MarkRaises(w)
    \/ Crash(w) \/ Restart(w)

RequestNext(r) ==
    \/ \E j \in Jobs : Receive(r, j)
    \/ GetJob(r) \/ InsertJob(r) \/ InsertConflict(r) \/ UpsertPending(r)
    \/ MarkProcessing(r) \/ MarkSucceeded(r) \/ MarkFailed(r)
    \/ StepReturns(r) \/ StepRaises(r) \/ RequestDies(r)

Next ==
    \/ \E w \in Workers : WorkerNext(w)
    \/ \E r \in Requests : RequestNext(r)
    \/ \E j \in Jobs : LeaseExpires(j)

Spec == Init /\ [][Next]_vars

(* The event loops run, processing returns, and time passes for a lease    *)
(* nobody renews.  Nothing makes a crash, an error or an expiry under a    *)
(* live worker happen, and no deployment promises a restart.               *)
Fairness ==
    /\ \A w \in Workers :
        /\ WF_vars(Claim(w))
        /\ WF_vars(\E outcome \in {"succeeded", "failed"} : FinishProcessing(w, outcome))
        /\ WF_vars(MarkRead(w) \/ MarkWrite(w) \/ MarkRaises(w))
    /\ \A r \in Requests :
        WF_vars(/\ request[r].step # "new"
                /\ RequestNext(r))
    /\ \A j \in Jobs : WF_vars(~Attended(j) /\ LeaseExpires(j))

FairSpec == Spec /\ Fairness

----------------------------------------------------------------------------
(* Properties.                                                             *)

TypeOK ==
    /\ row \in [Jobs -> Rows]
    /\ inserted \in Seq(Jobs)
    /\ worker \in [Workers -> WorkerStates]
    /\ request \in [Requests -> RequestStates]
    /\ crashes \in 0..MaxCrashes
    /\ lapsed \in SUBSET Workers
    /\ starts \in [Jobs -> Nat]
    /\ upserts \in [Jobs -> Nat]

(* Where a process stands: a worker has a job exactly while it is active,  *)
(* a request from its arrival to its end; only an open transaction has     *)
(* loaded a row; the requests of one deployment are all of one kind.       *)
ProcessesOK ==
    /\ \A w \in Workers :
        /\ Active(w) <=> worker[w].job # NoJob
        /\ worker[w].beating => worker[w].pc = "working"
    /\ \A r \in Requests :
        /\ request[r].step \in {"new", "done", "error"} <=> request[r].job = NoJob
        /\ request[r].open => request[r].step \in TxSteps
        /\ ~IngestSync => request[r].step \notin {"markProcessing", "ingest", "markSucceeded"}
        /\ request[r].open /\ row[request[r].job].status = "absent"
              => request[r].loaded.status = "absent"

(* What makes LeaseExclusive inductive: nobody else can claim the row of a *)
(* worker that has not lost its lease.                                     *)
LeaseIntact ==
    \A w \in Workers \ lapsed : Active(w) =>
        /\ row[worker[w].job].status \notin {"absent", "pending"}
        /\ row[worker[w].job].status = "processing" => row[worker[w].job].beat = "fresh"

(* What makes ExecutionBudget inductive: the attempts spent before the     *)
(* last reset are covered by the upserts before it.                        *)
Account(r, started, upserted) ==
    /\ r.attempts <= MaxAttempts
    /\ IF r.status = "absent"
       THEN started = 0 /\ upserted = 0
       ELSE upserted > 0 /\ started <= r.attempts + MaxAttempts * (upserted - 1)

BudgetAccount ==
    /\ \A w \in Workers : Active(w) => row[worker[w].job].status # "absent"
    /\ ~IngestSync => \A j \in Jobs : Account(row[j], starts[j], upserts[j])

(* README: workers should not double-claim the same active lease.  Two     *)
(* workers are at work on one job only when one of them lost its lease, to *)
(* the clock or to a request: no interleaving of claims, of late           *)
(* heartbeats and of outcomes written by workers that lost the job gives   *)
(* it to a second worker.                                                  *)
LeaseExclusive ==
    \A v, w \in Workers \ lapsed :
        v # w /\ Active(v) => ~ActiveOn(w, worker[v].job)

(* max_attempts bounds how often a job is run: across claims, crashes,     *)
(* expired leases and half-overwritten resets, workers start it at most    *)
(* max_attempts times per committed upsert (two for each async request).   *)
ExecutionBudget ==
    ~IngestSync => \A j \in Jobs : starts[j] <= MaxAttempts * upserts[j]

(* The invariant the proofs of IngestQueueProofs rest on. *)
Inductive ==
    TypeOK /\ ProcessesOK /\ LeaseIntact /\ LeaseExclusive /\ BudgetAccount

(* The queue keeps what LeasedJobs promises: through late heartbeats,      *)
(* outcomes of workers that lost the job and resets flushed in part, a     *)
(* worker starts only an open job nobody holds, within what its upserts    *)
(* pay for, and a job that ended is opened again by nothing but a request. *)
OpenJobs == {j \in Jobs : row[j].status \in {"pending", "processing"}}
Holders == [j \in Jobs |-> {w \in Workers \ lapsed : ActiveOn(w, j)}]

Promise == INSTANCE LeasedJobs WITH open <- OpenJobs, holders <- Holders, Metered <- ~IngestSync

ImplementsLeasedJobs == Promise!Spec

(* Whatever crashes, raises or expires, a job that was accepted ends: it   *)
(* is not left pending or processing for ever.                             *)
JobsSettle ==
    \A j \in Jobs : row[j].status \in {"pending", "processing"} ~> Terminal(row[j])

(* NOTES.md: "prevent stale workers from writing final status after        *)
(* ownership is lost".  The row a worker writes its outcome to is still    *)
(* its own.                                                                *)
StaleWorkersWriteNothing ==
    [][\A w \in Workers :
          worker[w].pc \in {"writingSucceeded", "writingFailed"}
          /\ row'[worker[w].job] # row[worker[w].job]
          /\ worker'[w].pc = "idle"
          => LeaseOwned(row[worker[w].job], w)]_vars
=============================================================================
