----------------------------- MODULE LeasedJobs -----------------------------
(***************************************************************************)
(* What the ingest queue promises, whatever its rows, transactions and     *)
(* heartbeats do: a job that was submitted is run by one worker at a time, *)
(* only while it is open, and not more often than was paid for.            *)
(* IngestQueue implements it; ImplementsLeasedJobs there is the mapping.   *)
(***************************************************************************)
EXTENDS Naturals

CONSTANTS
    Jobs,
    Workers,
    MaxAttempts,
    Metered         \* submissions pay for runs; the API runs no job itself

VARIABLES
    open,           \* the jobs submitted and not ended
    holders,        \* per job, the workers at work on it that kept their lease
    starts,         \* per job, how often a worker began to work on it
    upserts         \* per job, how often it was submitted

jvars == <<open, holders, starts, upserts>>

Init ==
    /\ open = {}
    /\ holders = [j \in Jobs |-> {}]
    /\ starts = [j \in Jobs |-> 0]
    /\ upserts = [j \in Jobs |-> 0]

(* Leases end one by one or together; nobody joins a job this way. *)
LeasesOnlyEnd == \A j \in Jobs : holders'[j] \subseteq holders[j]

(* A submission opens the job.  One that overlaps the end of the job's run *)
(* may find it ended again.                                                *)
Submit(j) ==
    /\ upserts' = [upserts EXCEPT ![j] = @ + 1]
    /\ open' \in {open, open \cup {j}}
    /\ LeasesOnlyEnd
    /\ UNCHANGED starts

(* Where submissions do not pay, the API may take the job for itself. *)
Take(j) ==
    /\ ~Metered
    /\ open' \in {open, open \cup {j}}
    /\ LeasesOnlyEnd
    /\ UNCHANGED <<starts, upserts>>

(* Worker w becomes the only holder of an open job.  Looking for one, it   *)
(* may end others that have no run left.                                   *)
Start(w, j) ==
    /\ j \in open /\ open' \subseteq open /\ j \in open'
    /\ holders[j] = {}
    /\ holders' = [holders EXCEPT ![j] = {w}]
    /\ starts' = [starts EXCEPT ![j] = @ + 1]
    /\ Metered => starts'[j] <= MaxAttempts * upserts[j]
    /\ UNCHANGED upserts

(* Runs end, leases are lost, jobs end. *)
End ==
    /\ open' \subseteq open
    /\ LeasesOnlyEnd
    /\ UNCHANGED <<starts, upserts>>

Next ==
    \/ \E j \in Jobs : Submit(j) \/ Take(j)
    \/ \E w \in Workers, j \in Jobs : Start(w, j)
    \/ End

Spec == Init /\ [][Next]_jvars
=============================================================================
