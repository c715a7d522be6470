----------------------------- MODULE WikiCompile -----------------------------
(***************************************************************************)
(* wiki/compiler.py: a compile request keeps a wiki_compile_job row while  *)
(* it queries the RAG runtime and writes a page and then its claims, each  *)
(* in a transaction of its own (WikiPages), among other editors.  The      *)
(* bookkeeping transactions touch a row only this request knows: each is   *)
(* one step.                                                               *)
(***************************************************************************)
EXTENDS WikiPages

CONSTANTS
    Compilers,      \* the requests that are POST /wiki/compile
    ClaimCount      \* the claims _extract_claim_texts finds, at most MAX_CLAIMS_PER_PAGE

ASSUME CompileAssumption ==
    /\ Compilers \subseteq Requests
    /\ ClaimCount \in Nat

VARIABLES
    job,        \* wiki_compile_job.status of each compile request
    at,         \* where the request stands
    compiled,   \* the revision_no the compile answers with
    unrecorded  \* history: a bookkeeping transaction failed, or the request was killed

cvars == <<vars, job, at, compiled, unrecorded>>

Stages == {"start", "created", "query", "title", "page", "claims", "recordSuccess",
           "recordFailure", "answered", "raised"}
Tried == {"query", "title", "page", "claims", "recordSuccess"}

CInit ==
    /\ Init
    /\ job = [c \in Compilers |-> "absent"]
    /\ at = [c \in Compilers |-> "start"]
    /\ compiled = [c \in Compilers |-> 0]
    /\ unrecorded = {}

Stage(c, stage) == at' = [at EXCEPT ![c] = stage]
Record(c, status) == job' = [job EXCEPT ![c] = status]

(* create_compile_job, in the first transaction of _start_job *)
CreateCompileJob(c) ==
    /\ at[c] = "start"
    /\ Record(c, "pending") /\ Stage(c, "created")
    /\ UNCHANGED <<vars, compiled, unrecorded>>

(* Mutant: the second transaction is forgotten. *)
MarkCompileJobProcessingForgotten(c) ==
    /\ at[c] = "created"
    /\ Stage(c, "query")
    /\ UNCHANGED <<vars, job, compiled, unrecorded>>

(* mark_compile_job_processing, in the second *)
MarkCompileJobProcessing(c) ==
    /\ at[c] = "created"
    /\ Record(c, "processing") /\ Stage(c, "query")
    /\ UNCHANGED <<vars, compiled, unrecorded>>

(* _search_evidence returned *)
SearchEvidence(c) ==
    /\ at[c] = "query" /\ Stage(c, "title")
    /\ UNCHANGED <<vars, job, compiled, unrecorded>>

(* _resolve_page_title reads the page; create_or_update_page is called     *)
(* with the title it has, or the fallback.                                 *)
ResolvePageTitle(c) ==
    /\ at[c] = "title" /\ Stage(c, "page")
    /\ \E s \in Slugs, title \in Titles :
        /\ Exists(page[s]) => title = page[s].title
        /\ Begin(c, [op |-> "write", slug |-> s, title |-> title, status |-> Unset, links |-> {s}], 0)
    /\ UNCHANGED <<job, compiled, unrecorded>>

ClaimCall(c) ==
    [op |-> "claim", slug |-> tx[c].slug, title |-> Unset, status |-> Unset, links |-> {}]

(* Mutant: one claim too few. *)
NextClaimOffByOne(c) ==
    LET stored == IF at[c] = "page" THEN 0 ELSE tx[c].item IN
    /\ at[c] \in {"page", "claims"} /\ At(c, "done")
    /\ compiled' = [compiled EXCEPT ![c] = IF at[c] = "page" THEN tx[c].no ELSE @]
    /\ IF stored + 1 < ClaimCount
       THEN Begin(c, ClaimCall(c), stored + 1) /\ Stage(c, "claims")
       ELSE UNCHANGED vars /\ Stage(c, "recordSuccess")
    /\ UNCHANGED <<job, unrecorded>>

(* create_or_update_page or add_claim_with_sources returned: the next      *)
(* claim, each in a transaction of its own, or the end.                    *)
NextClaim(c) ==
    LET stored == IF at[c] = "page" THEN 0 ELSE tx[c].item IN
    /\ at[c] \in {"page", "claims"} /\ At(c, "done")
    /\ compiled' = [compiled EXCEPT ![c] = IF at[c] = "page" THEN tx[c].no ELSE @]
    /\ IF stored < ClaimCount
       THEN Begin(c, ClaimCall(c), stored + 1) /\ Stage(c, "claims")
       ELSE UNCHANGED vars /\ Stage(c, "recordSuccess")
    /\ UNCHANGED <<job, unrecorded>>

MarkCompileJobSucceeded(c) ==
    /\ at[c] = "recordSuccess"
    /\ Record(c, "succeeded") /\ Stage(c, "answered")
    /\ UNCHANGED <<vars, compiled, unrecorded>>

(* _search_evidence raises: the job is marked failed. *)
SearchRaises(c) ==
    /\ at[c] = "query" /\ Stage(c, "recordFailure")
    /\ UNCHANGED <<vars, job, compiled, unrecorded>>

(* A transaction of the page or of a claim was rolled back, which expires  *)
(* every object of the session, the job among them.  The except clause     *)
(* reads job.id, a query that raises outside of an await: the failure is   *)
(* not recorded.                                                           *)
CompileRaises(c) ==
    /\ at[c] \in {"page", "claims"} /\ At(c, "error")
    /\ Stage(c, "raised")
    /\ UNCHANGED <<vars, job, compiled, unrecorded>>

MarkCompileJobFailed(c) ==
    /\ at[c] = "recordFailure"
    /\ Record(c, "failed") /\ Stage(c, "raised")
    /\ UNCHANGED <<vars, compiled, unrecorded>>

(* The request is cancelled, which "except Exception" does not catch, or   *)
(* its process dies; or the database fails it while it keeps the job row   *)
(* or reads the page.                                                      *)
CompileStops(c) ==
    /\ at[c] \notin {"start", "answered", "raised"}
    /\ Stage(c, "raised")
    /\ unrecorded' = unrecorded \cup {c}
    /\ Raises(c)
    /\ UNCHANGED <<job, compiled>>

----------------------------------------------------------------------------
CompilerStep(c) ==
    \/ CreateCompileJob(c) \/ MarkCompileJobProcessing(c) \/ SearchEvidence(c)
    \/ ResolvePageTitle(c) \/ NextClaim(c) \/ MarkCompileJobSucceeded(c)
    \/ SearchRaises(c) \/ MarkCompileJobFailed(c) \/ CompileRaises(c)

CNext ==
    \/ \E c \in Compilers : CompilerStep(c) \/ CompileStops(c)
    \/ /\ \/ \E r \in Requests \ Compilers : Call(r)
          \/ \E r \in Requests : Statement(r) \/ Fails(r)
       /\ UNCHANGED <<job, at, compiled, unrecorded>>

CSpec == CInit /\ [][CNext]_cvars

(* The database and the RAG runtime answer, or raise. *)
CFairSpec ==
    /\ CSpec
    /\ \A r \in Requests : WF_cvars(Statement(r) /\ UNCHANGED <<job, at, compiled, unrecorded>>)
    /\ \A c \in Compilers : WF_cvars(at[c] # "start" /\ CompilerStep(c))

----------------------------------------------------------------------------
(* Properties.                                                             *)

(* A row is "processing" while its request is inside the try block.        *)
CTypeOK ==
    /\ job \in [Compilers -> {"absent", "pending", "processing", "succeeded", "failed"}]
    /\ at \in [Compilers -> Stages]
    /\ compiled \in [Compilers -> Nat]
    /\ unrecorded \subseteq Compilers
    /\ \A c \in Compilers :
        /\ at[c] \in Tried \cup {"recordFailure"} => job[c] = "processing"
        /\ at[c] = "answered" => job[c] = "succeeded"

ClaimsOf(c) == {claim \in claims : claim.by = c}

(* docs/architecture.md, Wiki Compiler Lifecycle: claims (6) and their     *)
(* provenance (7) are persisted before the job is marked succeeded (8).    *)
(* The claims are stored one transaction at a time, among other editors:   *)
(* a job says "succeeded" only when all of them are there, and the page    *)
(* has the revision the compile answers with.                              *)
SucceededJobsAreComplete ==
    \A c \in Compilers : job[c] = "succeeded" =>
        /\ {claim.item : claim \in ClaimsOf(c)} = 1..ClaimCount
        /\ \E s \in Slugs : {claim.slug : claim \in ClaimsOf(c)} \subseteq {s} /\ compiled[c] \in Numbers(s)

(* A compile request that was accepted is answered, or raises, however it  *)
(* competes with other editors for the page and whoever of them fails.     *)
CompilersEnd ==
    \A c \in Compilers : at[c] # "start" ~> at[c] \in {"answered", "raised"}

(* docs/architecture.md: "Mark compile job `succeeded`, or `failed` with   *)
(* the error text."  Unless the request is killed or the bookkeeping cut   *)
(* off, its job row ends.                                                  *)
CompileJobsEnd ==
    \A c \in Compilers :
        job[c] \in {"pending", "processing"} ~> job[c] \in {"succeeded", "failed"} \/ c \in unrecorded
=============================================================================
