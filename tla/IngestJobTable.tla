--------------------------- MODULE IngestJobTable ---------------------------
(***************************************************************************)
(* One row of the ingest_job table and what the two repositories write to  *)
(* it.  A row keeps the columns some guard of the code reads: status,      *)
(* attempt_count, locked_by and heartbeat_at.  heartbeat_at is kept        *)
(* relative to the lease: "none" (NULL), "fresh" (younger than             *)
(* lease_seconds) or "stale".  next_attempt_at is never set to anything    *)
(* but NULL, so the test on it in the claim statement is always true;      *)
(* error, claimed_at, raw_bucket and raw_key are read by no guard, and     *)
(* every column is written and merged on its own, so leaving them out      *)
(* changes nothing for the others.                                         *)
(***************************************************************************)
EXTENDS Naturals

CONSTANTS
    Jobs,           \* the (tenant_id, source_id) pairs
    Workers,        \* worker ids, hostname:pid
    MaxAttempts,    \* the max_attempts column, written from default_max_attempts
    Nobody,         \* locked_by IS NULL
    ApiSync         \* locked_by = "api-sync"

ASSUME MaxAttemptsAssumption == MaxAttempts \in Nat \ {0}
ASSUME OwnersAssumption == Nobody \notin Workers /\ ApiSync \notin Workers /\ Nobody # ApiSync

Statuses == {"absent", "pending", "processing", "succeeded", "failed"}
Owners == Workers \cup {Nobody, ApiSync}
Beats == {"none", "fresh", "stale"}
Rows == [status: Statuses, attempts: Nat, owner: Owners, beat: Beats]

Beat(r, beat) == [r EXCEPT !.beat = beat]

AbsentRow == [status |-> "absent", attempts |-> 0, owner |-> Nobody, beat |-> "none"]
Terminal(r) == r.status \in {"succeeded", "failed"}

----------------------------------------------------------------------------
(* Mutant: rows whose worker died are not offered again. *)
ReadyOnlyPending(r) == r.status = "pending"

(* Mutant: the lease of a processing row is not looked at. *)
ReadyAnyProcessing(r) == r.status \in {"pending", "processing"}

(* The WHERE clause of pending_job_claim_statement. *)
Ready(r) ==
    \/ r.status = "pending"
    \/ r.status = "processing" /\ r.beat # "fresh"

(* Mutant: the attempt limit compared with > instead of >=. *)
AttemptsExhaustedOffByOne(r) == r.attempts > MaxAttempts

(* _job_attempts_exhausted *)
AttemptsExhausted(r) == r.attempts >= MaxAttempts

(* Mutant: the status stays as it is. *)
FailedAfterExhaustedAttemptsStatusKept(r) == [r EXCEPT !.owner = Nobody]

(* _mark_job_failed_after_exhausted_attempts *)
FailedAfterExhaustedAttempts(r) == [r EXCEPT !.status = "failed", !.owner = Nobody]

(* Mutant: the claim does not stamp heartbeat_at. *)
ClaimedByNoHeartbeat(r, w) ==
    [r EXCEPT !.status = "processing", !.attempts = @ + 1, !.owner = w]

(* _claim_job_for_worker *)
ClaimedBy(r, w) ==
    [status |-> "processing", attempts |-> r.attempts + 1, owner |-> w, beat |-> "fresh"]

(* _assert_job_lease_owned *)
LeaseOwned(r, w) == r.status = "processing" /\ r.owner = w

----------------------------------------------------------------------------
(* The values IngestJobRepository assigns to the row its SELECT loaded.    *)
(* "now" stands for a timestamp taken at the assignment: unlike the other  *)
(* values it always differs from the loaded one.                           *)

(* upsert_job with status "pending", and _reset_pending_job *)
ResetPending(loaded) ==
    [status |-> "pending", attempts |-> 0, owner |-> Nobody, beat |-> "none"]

(* _update_status "processing", and _claim_job_for_sync_ingest *)
SyncClaimed(loaded) ==
    [status |-> "processing", attempts |-> loaded.attempts + 1,
     owner |-> ApiSync, beat |-> "now"]

(* _update_status "succeeded" or "failed", and _release_job_lock *)
Released(loaded, status) == [loaded EXCEPT !.status = status, !.owner = Nobody]

(* The UPDATE of a session names only the columns whose assigned value     *)
(* differs from the loaded one; the others keep what the table holds now.  *)
Written(stored, loaded, assigned) == IF assigned = loaded THEN stored ELSE assigned

Flush(stored, loaded, assigned) ==
    [status   |-> Written(stored.status, loaded.status, assigned.status),
     attempts |-> Written(stored.attempts, loaded.attempts, assigned.attempts),
     owner    |-> Written(stored.owner, loaded.owner, assigned.owner),
     beat     |-> IF assigned.beat = "now" THEN "fresh"
                  ELSE Written(stored.beat, loaded.beat, assigned.beat)]
=============================================================================
