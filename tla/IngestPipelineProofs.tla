------------------------ MODULE IngestPipelineProofs ------------------------
(***************************************************************************)
(* The pipeline implements the queue: every step of IngestPipeline is a    *)
(* step of IngestQueue or leaves the queue alone, so what is proved of the *)
(* queue holds of the pipeline.  Then what the pipeline adds: type         *)
(* correctness, and, where no two processes write one staged file, that an *)
(* answered document is the stored one.                                    *)
(***************************************************************************)
EXTENDS IngestPipeline, LeasedJobsProofs

USE PipelineAssumption

(* One step of the pipeline, seen by the queue. *)
LEMMA StepRefines == [PNext]_pvars => [Next]_vars
<1>1. ASSUME QueueStep PROVE Next
  BY <1>1 DEF QueueStep, Next, WorkerNext, RequestNext
<1>2. ASSUME NEW w \in Workers, Download(w) PROVE UNCHANGED vars
  BY <1>2 DEF Download
<1>3. ASSUME NEW w \in Workers, WorkerSucceeds(w) PROVE Next
  <2>1. FinishProcessing(w, "succeeded")  BY <1>3 DEF WorkerSucceeds
  <2>2. WorkerNext(w)  BY <2>1 DEF WorkerNext
  <2> QED  BY <2>2 DEF Next
<1>4. ASSUME NEW w \in Workers, WorkerStops(w) PROVE Next
  <2>1. WorkerNext(w)  BY <1>4 DEF WorkerStops, WorkerNext
  <2> QED  BY <2>1 DEF Next
<1>5. ASSUME NEW p, ProcessStep(p) PROVE UNCHANGED vars
  BY <1>5 DEF ProcessStep, Parse, WriteArtifact, InsertContent, UploadAsset
<1>6. ASSUME NEW r \in Requests, NEW j \in Jobs, ReceiveDocument(r, j) PROVE Next
  <2>1. RequestNext(r)  BY <1>6 DEF ReceiveDocument, RequestNext
  <2> QED  BY <2>1 DEF Next
<1>7. ASSUME NEW r \in Requests,
             UploadRawDocument(r) \/ SyncSucceeds(r) \/ RequestStops(r) \/ Answer(r)
      PROVE Next
  <2>1. RequestNext(r)
    BY <1>7 DEF UploadRawDocument, SyncSucceeds, RequestStops, Answer, RequestNext
  <2> QED  BY <2>1 DEF Next
<1>8. ASSUME NEW r \in Requests, SyncUploadRawDocument(r) PROVE UNCHANGED vars
  BY <1>8 DEF SyncUploadRawDocument
<1>9. ASSUME UNCHANGED pvars PROVE UNCHANGED vars
  BY <1>9 DEF pvars
<1> QED
  BY <1>1, <1>2, <1>3, <1>4, <1>5, <1>6, <1>7, <1>8, <1>9 DEF PNext

(* The pipeline of app/ingest_service.py and worker/ingest_worker.py is an *)
(* implementation of the job queue, for any workers, requests and limits.  *)
THEOREM PipelineImplementsQueue == PSpec => Spec
<1>1. PInit => Init  BY DEF PInit
<1> QED  BY <1>1, StepRefines, PTL DEF PSpec, Spec

(* No two workers that kept their lease download, process or publish the   *)
(* document of one job at the same time.                                   *)
THEOREM PipelineLeaseSafety == PSpec => []LeaseExclusive
<1>1. Spec => []LeaseExclusive  BY LeaseSafety
<1> QED  BY <1>1, PipelineImplementsQueue, PTL

(* A document is processed at most max_attempts times for each upsert.     *)
THEOREM PipelineBudgetSafety == PSpec => []ExecutionBudget
<1>1. Spec => []ExecutionBudget  BY BudgetSafety
<1> QED  BY <1>1, PipelineImplementsQueue, PTL

(* The abstract promise of the queue, with real documents behind it: a     *)
(* document is processed only while its job is open and by one worker that *)
(* kept its lease.                                                         *)
THEOREM PipelineImplementsLeasedJobs == PSpec => ImplementsLeasedJobs
<1> QED  BY QueueImplementsLeasedJobs, PipelineImplementsQueue, PTL

----------------------------------------------------------------------------
(* Type correctness.  A process is past its fetch only while it processes, *)
(* and then its staged file is there; so is the file of a request under    *)
(* way.                                                                    *)
Processes == Workers \cup Requests

DocsInPlace ==
    /\ \A p \in Processes : doing[p].phase # "fetch" => Processing(p)
    /\ \A p \in Processes : doing[p].phase = "process" => file[DirOf(p)][JobOf(p)] # NoDoc
    /\ \A r \in Requests : request[r].job # NoJob => file[Api][request[r].job] # NoDoc

LEMMA Places ==
    /\ Api \in Dirs
    /\ \A p \in Processes : DirOf(p) \in Dirs
    /\ \A r \in Requests : DirOf(r) = Api /\ r \in Docs /\ r # NoDoc
BY DEF Dirs, DirOf, Processes, Docs

LEMMA JobsInProcess ==
    ASSUME TypeOK, ProcessesOK, NEW p \in Processes, Processing(p)
    PROVE  JobOf(p) \in Jobs
BY JobsOfProcesses DEF Processing, JobOf, Processes, Active

LEMMA MovesEffect ==
    ASSUME PTypeOK, NEW p \in Processes, NEW phase, NEW doc, NEW todo, Moves(p, phase, doc, todo)
    PROVE  /\ doing'[p].phase = phase /\ doing'[p].doc = doc /\ doing'[p].todo = todo
           /\ \A q \in Processes \ {p} : doing'[q] = doing[q]
<1>1. doing'[p] = [phase |-> phase, doc |-> doc, todo |-> todo]
  BY DEF Moves, At, PTypeOK, Processes
<1>2. \A q \in Processes \ {p} : doing'[q] = doing[q]
  BY DEF Moves, PTypeOK, Processes
<1> QED  BY <1>1, <1>2

LEMMA MovesType ==
    ASSUME PTypeOK, NEW p \in Processes, NEW phase \in Phases, NEW doc \in Docs,
           NEW todo \in SUBSET Files, Moves(p, phase, doc, todo),
           phase \in {"write", "publish"} => doc # NoDoc
    PROVE  /\ doing' \in [Workers \cup Requests -> [phase: Phases, doc: Docs, todo: SUBSET Files]]
           /\ \A q \in Workers \cup Requests :
                 doing'[q].phase \in {"write", "publish"} => doing'[q].doc # NoDoc
<1>1. At(phase, doc, todo) \in [phase: Phases, doc: Docs, todo: SUBSET Files]
  BY DEF At
<1>2. doing' \in [Workers \cup Requests -> [phase: Phases, doc: Docs, todo: SUBSET Files]]
  BY <1>1 DEF Moves, PTypeOK
<1>3. ASSUME NEW q \in Processes, doing'[q].phase \in {"write", "publish"}
      PROVE  doing'[q].doc # NoDoc
  <2>1. CASE q = p
    <3>1. doing'[p].phase = phase /\ doing'[p].doc = doc  BY MovesEffect
    <3> QED  BY <1>3, <2>1, <3>1
  <2>2. CASE q # p
    <3>1. doing'[q] = doing[q]  BY <2>2, MovesEffect
    <3> QED  BY <1>3, <3>1 DEF PTypeOK, Processes
  <2> QED  BY <2>1, <2>2
<1> QED  BY <1>2, <1>3 DEF Processes

(* A process that goes on with the document it has. *)
LEMMA KeepsDocType ==
    ASSUME PTypeOK, NEW p \in Processes, NEW phase \in {"write", "publish"},
           doing[p].phase \in {"write", "publish"},
           NEW todo \in SUBSET Files, Moves(p, phase, doing[p].doc, todo)
    PROVE  /\ doing' \in [Workers \cup Requests -> [phase: Phases, doc: Docs, todo: SUBSET Files]]
           /\ \A q \in Workers \cup Requests :
                 doing'[q].phase \in {"write", "publish"} => doing'[q].doc # NoDoc
<1>1. doing[p].doc \in Docs /\ doing[p].doc # NoDoc  BY DEF PTypeOK, Processes
<1>2. phase \in Phases  BY DEF Phases
<1> QED  BY <1>1, <1>2, MovesType

(* What the steps of the queue leave of the processes that are at work on  *)
(* a document.                                                             *)
LEMMA QueueStepRequests ==
    ASSUME TypeOK, ProcessesOK, QueueStep, NEW r \in Requests
    PROVE  \/ request'[r].step = request[r].step /\ request'[r].job = request[r].job
           \/ request'[r].step = "error" /\ request'[r].job = NoJob
           \/ /\ request[r].step \in {"upsert", "markProcessing"}
              /\ request'[r].step \in {"upload", "markProcessing", "ingest"}
              /\ request'[r].step = "upload" => ~IngestSync
              /\ request'[r].job = request[r].job
<1> DEFINE Goal == \/ request'[r].step = request[r].step /\ request'[r].job = request[r].job
                   \/ request'[r].step = "error" /\ request'[r].job = NoJob
                   \/ /\ request[r].step \in {"upsert", "markProcessing"}
                      /\ request'[r].step \in {"upload", "markProcessing", "ingest"}
                      /\ request'[r].step = "upload" => ~IngestSync
                      /\ request'[r].job = request[r].job
<1> SUFFICES Goal
  OBVIOUS
<1>1. CASE request' = request
  BY <1>1
<1>2. ASSUME NEW q \in Requests, GetJob(q) PROVE Goal
  <2>1. request[r] \in RequestStates  BY DEF TypeOK
  <2> QED  BY <1>2, <2>1 DEF GetJob, TypeOK, RequestStates
<1>3. ASSUME NEW q \in Requests, NEW step \in RequestSteps, Goto(q, step),
             \/ step = "error"
             \/ request[q].step = "upsert" /\ step = NextStep("upsert")
             \/ request[q].step = "markProcessing" /\ step = NextStep("markProcessing")
      PROVE  Goal
  <2>1. /\ NextStep("upsert") \in {"markProcessing", "upload"} /\ NextStep("markProcessing") = "ingest"
        /\ NextStep("upsert") = "upload" => ~IngestSync
    BY DEF NextStep
  <2>2. CASE q = r
    BY <1>3, <2>1, <2>2, GotoEffect
  <2>3. CASE q # r
    BY <1>3, <2>3, GotoEffect
  <2> QED  BY <2>2, <2>3
<1>4. ASSUME NEW q \in Requests,
             InsertJob(q) \/ InsertConflict(q) \/ MarkProcessing(q) \/ MarkFailed(q)
      PROVE  Goal
  <2>1. NextStep("markFailed") = "error" /\ NextStep("upsert") \in RequestSteps
        /\ NextStep("markProcessing") \in RequestSteps /\ "error" \in RequestSteps
    BY DEF NextStep, RequestSteps, TxSteps
  <2> QED  BY <1>3, <1>4, <2>1 DEF InsertJob, InsertConflict, MarkProcessing, MarkFailed, Commit
<1> QED
  BY <1>1, <1>2, <1>4 DEF QueueStep, Claim, ClaimNextPending, ClaimNothing, HeartbeatRead, HeartbeatWrite,
     MarkRead, MarkWrite, MarkRaises, Restart, LeaseExpires

LEMMA QueueStepWorkers ==
    ASSUME TypeOK, ProcessesOK, QueueStep, NEW w \in Workers, worker[w].pc = "working"
    PROVE  worker'[w].pc = "working" /\ worker'[w].job = worker[w].job
<1> DEFINE Goal == worker'[w].pc = "working" /\ worker'[w].job = worker[w].job
<1> SUFFICES Goal
  OBVIOUS
<1>1. CASE worker' = worker
  BY <1>1
<1>2. ASSUME NEW v \in Workers, HeartbeatRead(v) \/ HeartbeatWrite(v) PROVE Goal
  <2>1. PICK b \in BOOLEAN : Become(v, [worker[v] EXCEPT !.beating = b])
    BY <1>2 DEF HeartbeatRead, HeartbeatWrite
  <2>2. worker[v] \in WorkerStates  BY DEF TypeOK
  <2>3. worker'[w] \in {worker[w], [worker[w] EXCEPT !.beating = b]}  BY <2>1, OthersStay
  <2> QED  BY <2>3 DEF TypeOK, WorkerStates
<1>3. ASSUME NEW v \in Workers, worker[v].pc # "working", NEW state, Become(v, state) PROVE Goal
  BY <1>3, OthersStay
<1> QED
  BY <1>1, <1>2, <1>3 DEF QueueStep, Claim, ClaimNextPending, ClaimNothing, MarkRead, MarkWrite,
     MarkRaises, Restart, LeaseExpires, GetJob, InsertJob, InsertConflict, MarkProcessing, MarkFailed, Commit

----------------------------------------------------------------------------
(* The files of requests under way stay, and so do those of processes that *)
(* do not move.                                                            *)
LEMMA KeepPlaces ==
    ASSUME TypeOK, ProcessesOK, DocsInPlace,
           \A d \in Dirs, j \in Jobs : file[d][j] # NoDoc => file'[d][j] # NoDoc,
           \A p \in Processes : doing'[p].phase # "fetch" =>
              /\ Processing(p)'
              /\ \/ doing'[p].phase # "process"
                 \/ file'[DirOf(p)][JobOf(p)'] # NoDoc
                 \/ doing'[p].phase = doing[p].phase /\ JobOf(p)' = JobOf(p),
           \A r \in Requests : request'[r].job # NoJob =>
              request'[r].job = request[r].job \/ file'[Api][request'[r].job] # NoDoc
    PROVE  DocsInPlace'
<1>1. ASSUME NEW p \in Processes, doing'[p].phase = "process"
      PROVE  file'[DirOf(p)][JobOf(p)'] # NoDoc
  <2>1. CASE doing'[p].phase = doing[p].phase /\ JobOf(p)' = JobOf(p)
    <3>1. Processing(p) /\ file[DirOf(p)][JobOf(p)] # NoDoc  BY <1>1, <2>1 DEF DocsInPlace
    <3>2. JobOf(p) \in Jobs /\ DirOf(p) \in Dirs  BY <3>1, JobsInProcess, Places
    <3> QED  BY <2>1, <3>1, <3>2
  <2> QED  BY <1>1, <2>1
<1>2. ASSUME NEW r \in Requests, request'[r].job # NoJob
      PROVE  file'[Api][request'[r].job] # NoDoc
  <2>1. CASE request'[r].job = request[r].job
    <3>1. file[Api][request[r].job] # NoDoc  BY <1>2, <2>1 DEF DocsInPlace
    <3>2. request[r].job \in Jobs  BY <1>2, <2>1 DEF TypeOK, RequestStates
    <3> QED  BY <2>1, <3>1, <3>2, Places
  <2> QED  BY <1>2, <2>1
<1>3. \A p \in Processes : doing'[p].phase # "fetch" => Processing(p)'
  OBVIOUS
<1>4. \A p \in Processes : (doing'[p].phase = "process") => file'[DirOf(p)][JobOf(p)'] # NoDoc
  BY <1>1
<1> QED  BY <1>2, <1>3, <1>4 DEF DocsInPlace, DirOf

(* Steps that leave the documents alone, and steps of one process that     *)
(* touch no row.                                                           *)
LEMMA QueueStepPlaces ==
    ASSUME TypeOK, ProcessesOK, DocsInPlace, QueueStep
    PROVE  DocsInPlace'
<1>1. UNCHANGED content  BY DEF QueueStep
<1>2. ASSUME NEW p \in Processes, doing'[p].phase # "fetch"
      PROVE  Processing(p)' /\ doing'[p].phase = doing[p].phase /\ JobOf(p)' = JobOf(p)
  <2>1. Processing(p)  BY <1>1, <1>2 DEF content, DocsInPlace
  <2>2. CASE p \in Workers
    BY <1>1, <2>1, <2>2, QueueStepWorkers DEF Processing, JobOf, content
  <2>3. CASE p \notin Workers
    <3>1. p \in Requests /\ request[p].step = "ingest"  BY <2>1, <2>3 DEF Processes, Processing
    <3>2. request[p].job # NoJob  BY <3>1 DEF ProcessesOK
    <3>3. request'[p].step = "ingest" /\ request'[p].job = request[p].job
      <4>1. ~(request'[p].step = "error")
        BY <3>1 DEF QueueStep, Claim, ClaimNextPending, ClaimNothing, HeartbeatRead, HeartbeatWrite,
           MarkRead, MarkWrite, MarkRaises, Restart, LeaseExpires, GetJob, InsertJob, InsertConflict,
           MarkProcessing, MarkFailed, Commit, Goto, TypeOK, TxSteps
      <4> QED  BY <3>1, <4>1, QueueStepRequests
    <3> QED  BY <1>1, <2>3, <3>3 DEF Processing, JobOf, content
  <2> QED  BY <2>2, <2>3
<1>3. \A r \in Requests : request'[r].job # NoJob => request'[r].job = request[r].job
  BY QueueStepRequests
<1>4. file' = file  BY <1>1 DEF content
<1> QED  BY <1>2, <1>3, <1>4, KeepPlaces

(* A step of process p that leaves the queue alone. *)
LEMMA ContentStepPlaces ==
    ASSUME TypeOK, ProcessesOK, PTypeOK, DocsInPlace, NEW p \in Processes, Processing(p), UNCHANGED vars,
           NEW phase, NEW doc, NEW todo, Moves(p, phase, doc, todo),
           \A d \in Dirs, j \in Jobs : file[d][j] # NoDoc => file'[d][j] # NoDoc,
           phase # "process" \/ file'[DirOf(p)][JobOf(p)] # NoDoc
    PROVE  DocsInPlace'
<1>1. \A q : JobOf(q)' = JobOf(q) /\ (Processing(q)' <=> Processing(q))
  BY DEF vars, JobOf, Processing
<1>2. ASSUME NEW q \in Processes, doing'[q].phase # "fetch"
      PROVE  /\ Processing(q)'
             /\ \/ doing'[q].phase # "process"
                \/ file'[DirOf(q)][JobOf(q)'] # NoDoc
                \/ doing'[q].phase = doing[q].phase /\ JobOf(q)' = JobOf(q)
  <2>1. CASE q = p
    <3>1. doing'[p].phase = phase  BY MovesEffect
    <3>2. Processing(p)'  BY <1>1
    <3> QED  BY <1>1, <2>1, <3>1, <3>2
  <2>2. CASE q # p
    <3>1. doing'[q] = doing[q]  BY <2>2, MovesEffect
    <3> QED  BY <1>1, <1>2, <3>1 DEF DocsInPlace
  <2> QED  BY <2>1, <2>2
<1>3. \A r \in Requests : request'[r].job = request[r].job  BY DEF vars
<1> QED  BY <1>2, <1>3, KeepPlaces

(* A step that ends the work of process p, and changes no other process. *)
LEMMA RestsPlaces ==
    ASSUME TypeOK, ProcessesOK, PTypeOK, DocsInPlace, NEW p \in Processes, Rests(p), file' = file,
           \A q \in Processes \ {p} : Processing(q) => Processing(q)' /\ JobOf(q)' = JobOf(q),
           \A r \in Requests : request'[r].job # NoJob => request'[r].job = request[r].job
    PROVE  DocsInPlace'
<1>1. ASSUME NEW q \in Processes, doing'[q].phase # "fetch"
      PROVE  Processing(q)' /\ doing'[q].phase = doing[q].phase /\ JobOf(q)' = JobOf(q)
  <2>1. doing'[p].phase = "fetch" /\ \A x \in Processes \ {p} : doing'[x] = doing[x]
    BY MovesEffect DEF Rests
  <2>2. q # p  BY <1>1, <2>1
  <2>3. doing'[q] = doing[q]  BY <2>1, <2>2
  <2> QED  BY <1>1, <2>2, <2>3 DEF DocsInPlace
<1> QED  BY <1>1, KeepPlaces

LEMMA OtherRequestsStay ==
    ASSUME TypeOK, NEW r \in Requests, NEW step, Goto(r, step),
           worker' = worker
    PROVE  /\ \A q \in Processes \ {r} : Processing(q) => Processing(q)' /\ JobOf(q)' = JobOf(q)
           /\ \A q \in Requests : request'[q].job # NoJob => request'[q].job = request[q].job
<1>1. \A q \in Requests \ {r} : request'[q] = request[q]  BY GotoEffect
<1>2. request'[r].job # NoJob => request'[r].job = request[r].job  BY GotoEffect
<1> QED  BY <1>1, <1>2 DEF Processes, Processing, JobOf

LEMMA OtherWorkersStay ==
    ASSUME TypeOK, NEW w \in Workers, NEW state, Become(w, state), request' = request
    PROVE  /\ \A q \in Processes \ {w} : Processing(q) => Processing(q)' /\ JobOf(q)' = JobOf(q)
           /\ \A q \in Requests : request'[q].job # NoJob => request'[q].job = request[q].job
<1>1. \A v \in Workers \ {w} : worker'[v] = worker[v]  BY OthersStay
<1> QED  BY <1>1 DEF Processes, Processing, JobOf

(* A request that goes on to another transaction keeps everything in       *)
(* place: it has not started to process.                                   *)
LEMMA GoesOnPlaces ==
    ASSUME TypeOK, ProcessesOK, DocsInPlace, NEW r \in Requests, NEW step, Goto(r, step),
           request[r].step # "ingest", worker' = worker, file' = file, doing' = doing
    PROVE  DocsInPlace'
<1>1. /\ \A q \in Processes \ {r} : Processing(q) => Processing(q)' /\ JobOf(q)' = JobOf(q)
      /\ \A q \in Requests : request'[q].job # NoJob => request'[q].job = request[q].job
  BY OtherRequestsStay
<1>2. ASSUME NEW q \in Processes, doing'[q].phase # "fetch"
      PROVE  Processing(q)' /\ doing'[q].phase = doing[q].phase /\ JobOf(q)' = JobOf(q)
  <2>1. Processing(q)  BY <1>2 DEF DocsInPlace
  <2>2. q # r  BY <2>1 DEF Processing
  <2> QED  BY <1>1, <2>1, <2>2
<1> QED  BY <1>1, <1>2, KeepPlaces

LEMMA FileGrows ==
    ASSUME PTypeOK, NEW e \in Dirs, NEW i \in Jobs, NEW doc \in Docs, doc # NoDoc,
           file' = [file EXCEPT ![e][i] = doc]
    PROVE  /\ file' \in [Dirs -> [Jobs -> Docs]]
           /\ \A d \in Dirs, j \in Jobs : file[d][j] # NoDoc => file'[d][j] # NoDoc
           /\ file'[e][i] = doc
           /\ \A d \in Dirs, j \in Jobs : d # e \/ j # i => file'[d][j] = file[d][j]
BY DEF PTypeOK

LEMMA ProcessStepPlaces ==
    ASSUME TypeOK, ProcessesOK, PTypeOK, DocsInPlace, NEW p \in Processes, ProcessStep(p)
    PROVE  DocsInPlace'
<1>1. PICK phase, doc, todo : phase # "process" /\ Moves(p, phase, doc, todo)
  <2>1. CASE Parse(p)
    BY <2>1 DEF Parse
  <2>2. CASE WriteArtifact(p) \/ UploadAsset(p)
    BY <2>2 DEF WriteArtifact, UploadAsset
  <2>3. CASE InsertContent(p)
    BY <2>3 DEF InsertContent
  <2> QED  BY <2>1, <2>2, <2>3 DEF ProcessStep
<1>2. Processing(p) /\ UNCHANGED vars /\ file' = file
  BY DEF ProcessStep, Parse, WriteArtifact, InsertContent, UploadAsset
<1> QED  BY <1>1, <1>2, ContentStepPlaces

LEMMA PlacesStep ==
    ASSUME TypeOK, ProcessesOK, PTypeOK, DocsInPlace, [PNext]_pvars
    PROVE  DocsInPlace'
<1>1. CASE QueueStep
  BY <1>1, QueueStepPlaces
<1>2. ASSUME NEW w \in Workers, Download(w) PROVE DocsInPlace'
  <2>1. w \in Processes /\ Processing(w) /\ JobOf(w) = worker[w].job /\ UNCHANGED vars
    BY <1>2 DEF Processes, Processing, JobOf, Download
  <2>2. JobOf(w) \in Jobs /\ DirOf(w) \in Dirs  BY <2>1, JobsInProcess, Places
  <2>3. raw[JobOf(w)] \in Docs /\ raw[JobOf(w)] # NoDoc  BY <1>2, <2>1, <2>2 DEF Download, PTypeOK
  <2>4. file' = [file EXCEPT ![DirOf(w)][JobOf(w)] = raw[JobOf(w)]]  BY <1>2, <2>1 DEF Download
  <2>5. /\ \A d \in Dirs, j \in Jobs : file[d][j] # NoDoc => file'[d][j] # NoDoc
        /\ file'[DirOf(w)][JobOf(w)] # NoDoc
    BY <2>2, <2>3, <2>4, FileGrows
  <2>6. Moves(w, "process", NoDoc, {})  BY <1>2 DEF Download
  <2> QED  BY <2>1, <2>5, <2>6, ContentStepPlaces
<1>3. ASSUME NEW w \in Workers, WorkerSucceeds(w) \/ WorkerStops(w) PROVE DocsInPlace'
  <2>1. PICK state : Become(w, state)
    BY <1>3 DEF WorkerSucceeds, WorkerStops, FinishProcessing, Crash
  <2>2. request' = request /\ file' = file /\ Rests(w) /\ w \in Processes
    BY <1>3 DEF WorkerSucceeds, WorkerStops, Processed, FinishProcessing, Crash, Processes
  <2>3. /\ \A q \in Processes \ {w} : Processing(q) => Processing(q)' /\ JobOf(q)' = JobOf(q)
        /\ \A q \in Requests : request'[q].job # NoJob => request'[q].job = request[q].job
    BY <2>1, <2>2, OtherWorkersStay
  <2> QED  BY <2>2, <2>3, RestsPlaces
<1>4. ASSUME NEW p \in Workers \cup Requests, ProcessStep(p) PROVE DocsInPlace'
  BY <1>4, ProcessStepPlaces DEF Processes
<1>5. ASSUME NEW r \in Requests, NEW j \in Jobs, ReceiveDocument(r, j) PROVE DocsInPlace'
  <2>1. /\ file' = [file EXCEPT ![Api][j] = r]
        /\ request' = [request EXCEPT ![r] = [@ EXCEPT !.step = "upsert", !.job = j]]
        /\ request[r].step = "new" /\ worker' = worker /\ doing' = doing
    BY <1>5 DEF ReceiveDocument, Receive, Stage
  <2>2. /\ \A d \in Dirs, i \in Jobs : file[d][i] # NoDoc => file'[d][i] # NoDoc
        /\ file'[Api][j] # NoDoc
    <3>1. Api \in Dirs /\ r \in Docs /\ r # NoDoc  BY Places
    <3>2. file' = [file EXCEPT ![Api][j] = r]  BY <2>1
    <3> QED  BY <3>1, <3>2, FileGrows
  <2>3. \A q \in Requests \ {r} : request'[q] = request[q]  BY <2>1 DEF TypeOK
  <2>4. request'[r].job = j  BY <2>1 DEF TypeOK, RequestStates
  <2>5. ASSUME NEW q \in Processes, doing'[q].phase # "fetch"
        PROVE  Processing(q)' /\ doing'[q].phase = doing[q].phase /\ JobOf(q)' = JobOf(q)
    <3>1. Processing(q)  BY <2>1, <2>5 DEF DocsInPlace
    <3>2. q # r  BY <2>1, <3>1 DEF Processing
    <3> QED  BY <2>1, <2>3, <3>1, <3>2 DEF Processing, JobOf, Processes
  <2>6. \A q \in Requests : request'[q].job # NoJob =>
           request'[q].job = request[q].job \/ file'[Api][request'[q].job] # NoDoc
    BY <2>2, <2>3, <2>4
  <2> QED  BY <2>2, <2>5, <2>6, KeepPlaces
<1>6. ASSUME NEW r \in Requests, SyncUploadRawDocument(r) PROVE DocsInPlace'
  <2>1. r \in Processes /\ Processing(r) /\ JobOf(r) = request[r].job /\ UNCHANGED vars
    BY <1>6 DEF Processes, Processing, JobOf, SyncUploadRawDocument
  <2>2. JobOf(r) \in Jobs  BY <2>1, JobsInProcess
  <2>3. file' = file  BY <1>6 DEF SyncUploadRawDocument, Upload
  <2>4. file'[DirOf(r)][JobOf(r)] # NoDoc
    <3>1. r \notin Workers /\ DirOf(r) = Api  BY PipelineAssumption DEF DirOf
    <3>2. JobOf(r) = request[r].job  BY <3>1 DEF JobOf
    <3>3. request[r].job # NoJob  BY <2>2, <3>2, QueueAssumption
    <3>4. file[Api][request[r].job] # NoDoc  BY <3>3 DEF DocsInPlace
    <3> QED  BY <2>3, <3>1, <3>2, <3>4
  <2>5. Moves(r, "process", NoDoc, {})  BY <1>6 DEF SyncUploadRawDocument
  <2> QED  BY <2>1, <2>3, <2>4, <2>5, ContentStepPlaces
<1>7. ASSUME NEW r \in Requests, SyncSucceeds(r) \/ RequestStops(r) PROVE DocsInPlace'
  <2>1. PICK step : Goto(r, step)
    BY <1>7 DEF SyncSucceeds, RequestStops, StepReturns, StepRaises, RequestDies
  <2>2. worker' = worker /\ file' = file /\ Rests(r) /\ r \in Processes
    BY <1>7 DEF SyncSucceeds, RequestStops, StepReturns, StepRaises, RequestDies, Processed, Processes
  <2>3. /\ \A q \in Processes \ {r} : Processing(q) => Processing(q)' /\ JobOf(q)' = JobOf(q)
        /\ \A q \in Requests : request'[q].job # NoJob => request'[q].job = request[q].job
    BY <2>1, <2>2, OtherRequestsStay
  <2> QED  BY <2>2, <2>3, RestsPlaces
<1>8. ASSUME NEW r \in Requests, UploadRawDocument(r) \/ Answer(r) PROVE DocsInPlace'
  <2>1. PICK step : Goto(r, step)
    BY <1>8 DEF UploadRawDocument, Answer, StepReturns, UpsertPending, MarkSucceeded, Commit
  <2>2. request[r].step # "ingest" /\ worker' = worker /\ file' = file /\ doing' = doing
    BY <1>8 DEF UploadRawDocument, Upload, Answer, StepReturns, UpsertPending, MarkSucceeded, Commit
  <2> QED  BY <2>1, <2>2, GoesOnPlaces
<1>9. CASE UNCHANGED pvars
  <2>1. request' = request /\ worker' = worker /\ file' = file /\ doing' = doing
    BY <1>9 DEF pvars, vars, content
  <2> QED  BY <2>1 DEF DocsInPlace, Processing, JobOf, DirOf
<1> QED
  BY <1>1, <1>2, <1>3, <1>4, <1>5, <1>6, <1>7, <1>8, <1>9 DEF PNext

----------------------------------------------------------------------------
LEMMA ProcessStepType ==
    ASSUME TypeOK, ProcessesOK, PTypeOK, DocsInPlace, NEW p \in Processes, ProcessStep(p)
    PROVE  PTypeOK'
<1> DEFINE d == DirOf(p)
           j == JobOf(p)
<1>1. Processing(p)
  BY DEF ProcessStep, Parse, WriteArtifact, InsertContent, UploadAsset
<1>2. d \in Dirs /\ j \in Jobs  BY <1>1, JobsInProcess, Places
<1>3. doing[p] \in [phase: Phases, doc: Docs, todo: SUBSET Files]  BY DEF PTypeOK, Processes
<1>4. doing[p].phase \in {"write", "publish"} => doing[p].doc # NoDoc  BY DEF PTypeOK, Processes
<1>5. CASE Parse(p)
  <2>1. file[d][j] \in Docs /\ file[d][j] # NoDoc
    BY <1>2, <1>5 DEF Parse, DocsInPlace, PTypeOK
  <2>2. Artifacts(file[d][j]) \in SUBSET Files  BY DEF Artifacts
  <2>3. Moves(p, "write", file[d][j], Artifacts(file[d][j]))  BY <1>5 DEF Parse
  <2>4. UNCHANGED <<file, output, raw, indexed, published, latest, answered>>  BY <1>5 DEF Parse
  <2> QED  BY <2>1, <2>2, <2>3, <2>4, MovesType DEF PTypeOK, Phases
<1>6. CASE WriteArtifact(p)
  <2>1. PICK f \in Files : /\ output' = [output EXCEPT ![d][j][f] = doing[p].doc]
                           /\ Moves(p, "write", doing[p].doc, doing[p].todo \ {f})
    BY <1>6 DEF WriteArtifact
  <2>2. output' \in [Dirs -> [Jobs -> [Files -> Docs]]]
    BY <1>2, <1>3, <2>1 DEF PTypeOK
  <2>3. doing[p].doc \in Docs /\ doing[p].doc # NoDoc /\ doing[p].todo \ {f} \in SUBSET Files
    BY <1>3, <1>4, <1>6 DEF WriteArtifact
  <2>4. UNCHANGED <<file, raw, indexed, published, latest, answered>>  BY <1>6 DEF WriteArtifact
  <2> QED  BY <2>1, <2>2, <2>3, <2>4, MovesType DEF PTypeOK, Phases
<1>7. CASE InsertContent(p)
  <2>1. /\ indexed' = [indexed EXCEPT ![j] = doing[p].doc]
        /\ Moves(p, "publish", doing[p].doc, {f \in Files : Tree(p)[f] # NoDoc})
    BY <1>7 DEF InsertContent
  <2>2. indexed' \in [Jobs -> Docs]  BY <1>2, <1>3, <2>1 DEF PTypeOK
  <2>3. doing[p].doc \in Docs /\ doing[p].doc # NoDoc
        /\ {f \in Files : Tree(p)[f] # NoDoc} \in SUBSET Files
    BY <1>3, <1>4, <1>7 DEF InsertContent
  <2>4. UNCHANGED <<file, output, raw, published, latest, answered>>  BY <1>7 DEF InsertContent
  <2> QED  BY <2>1, <2>2, <2>3, <2>4, MovesType DEF PTypeOK, Phases
<1>8. CASE UploadAsset(p)
  <2>1. PICK f \in Files : /\ published' = [published EXCEPT ![j][f] = Tree(p)[f]]
                           /\ Moves(p, "publish", doing[p].doc, doing[p].todo \ {f})
    BY <1>8 DEF UploadAsset
  <2>2. Tree(p)[f] \in Docs  BY <1>2 DEF Tree, PTypeOK
  <2>3. published' \in [Jobs -> [Files -> Docs]]
    <3>1. [published[j] EXCEPT ![f] = Tree(p)[f]] \in [Files -> Docs]
      BY <1>2, <2>2 DEF PTypeOK
    <3>2. published' = [published EXCEPT ![j] = [published[j] EXCEPT ![f] = Tree(p)[f]]]
      BY <2>1
    <3> QED  BY <1>2, <3>1, <3>2 DEF PTypeOK
  <2>4. doing[p].phase = "publish" /\ doing[p].todo \ {f} \in SUBSET Files
    BY <1>3, <1>8 DEF UploadAsset
  <2>5. UNCHANGED <<file, output, raw, indexed, latest, answered>>  BY <1>8 DEF UploadAsset
  <2>6. /\ doing' \in [Workers \cup Requests -> [phase: Phases, doc: Docs, todo: SUBSET Files]]
        /\ \A q \in Workers \cup Requests :
              doing'[q].phase \in {"write", "publish"} => doing'[q].doc # NoDoc
    BY <2>1, <2>4, KeepsDocType
  <2> QED  BY <2>3, <2>5, <2>6 DEF PTypeOK
<1> QED  BY <1>5, <1>6, <1>7, <1>8 DEF ProcessStep

LEMMA RestsType ==
    ASSUME PTypeOK, NEW p \in Processes, Rests(p),
           UNCHANGED <<file, output, raw, indexed, published, latest, answered>>
    PROVE  PTypeOK'
<1>1. NoDoc \in Docs /\ {} \in SUBSET Files /\ "fetch" \in Phases  BY DEF Docs, Phases
<1> QED  BY <1>1, MovesType DEF Rests, PTypeOK

LEMMA PTypeStep ==
    ASSUME TypeOK, ProcessesOK, PTypeOK, DocsInPlace, [PNext]_pvars
    PROVE  PTypeOK'
<1>1. CASE QueueStep \/ UNCHANGED pvars
  BY <1>1 DEF QueueStep, PTypeOK, content, pvars
<1>2. ASSUME NEW w \in Workers, Download(w) PROVE PTypeOK'
  <2>1. w \in Processes /\ Processing(w) /\ JobOf(w) = worker[w].job
    BY <1>2 DEF Processes, Processing, JobOf, Download
  <2>2. JobOf(w) \in Jobs /\ DirOf(w) \in Dirs  BY <2>1, JobsInProcess, Places
  <2>3. raw[JobOf(w)] \in Docs /\ raw[JobOf(w)] # NoDoc  BY <1>2, <2>1, <2>2 DEF Download, PTypeOK
  <2>4. file' = [file EXCEPT ![DirOf(w)][JobOf(w)] = raw[JobOf(w)]]  BY <1>2, <2>1 DEF Download
  <2>5. file' \in [Dirs -> [Jobs -> Docs]]  BY <2>2, <2>3, <2>4, FileGrows
  <2>6. Moves(w, "process", NoDoc, {}) /\ NoDoc \in Docs /\ "process" \in Phases
    BY <1>2 DEF Download, Docs, Phases
  <2>7. UNCHANGED <<output, raw, indexed, published, latest, answered>>  BY <1>2 DEF Download
  <2> QED  BY <2>1, <2>5, <2>6, <2>7, MovesType DEF PTypeOK
<1>3. ASSUME NEW w \in Workers, WorkerSucceeds(w) \/ WorkerStops(w) PROVE PTypeOK'
  BY <1>3, RestsType DEF WorkerSucceeds, WorkerStops, Processed, Processes
<1>4. ASSUME NEW p \in Workers \cup Requests, ProcessStep(p) PROVE PTypeOK'
  BY <1>4, ProcessStepType DEF Processes
<1>5. ASSUME NEW r \in Requests, NEW j \in Jobs, ReceiveDocument(r, j) PROVE PTypeOK'
  <2>1. Api \in Dirs /\ r \in Docs /\ r # NoDoc  BY Places
  <2>2. file' = [file EXCEPT ![Api][j] = r]  BY <1>5 DEF ReceiveDocument, Stage
  <2>3. file' \in [Dirs -> [Jobs -> Docs]]  BY <2>1, <2>2, FileGrows
  <2>4. latest' \in [Jobs -> Docs]  BY <1>5, <2>1 DEF ReceiveDocument, PTypeOK
  <2>5. UNCHANGED <<output, raw, indexed, published, doing, answered>>  BY <1>5 DEF ReceiveDocument
  <2> QED  BY <2>3, <2>4, <2>5 DEF PTypeOK
<1>6. ASSUME NEW r \in Requests, Upload(r), request[r].step \in {"upload", "ingest"}
      PROVE  /\ raw' \in [Jobs -> Docs]
             /\ UNCHANGED <<file, output, indexed, published, latest, answered>>
  <2>1. request[r].job \in Jobs  BY <1>6, JobsOfProcesses
  <2>2. file[Api][request[r].job] \in Docs  BY <2>1, Places DEF PTypeOK
  <2> QED  BY <1>6, <2>2 DEF Upload, PTypeOK
<1>7. ASSUME NEW r \in Requests, UploadRawDocument(r) PROVE PTypeOK'
  BY <1>6, <1>7 DEF UploadRawDocument, PTypeOK
<1>8. ASSUME NEW r \in Requests, SyncUploadRawDocument(r) PROVE PTypeOK'
  <2>1. r \in Processes /\ Moves(r, "process", NoDoc, {}) /\ NoDoc \in Docs /\ "process" \in Phases
    BY <1>8 DEF SyncUploadRawDocument, Docs, Phases, Processes
  <2> QED  BY <1>6, <1>8, <2>1, MovesType DEF SyncUploadRawDocument, PTypeOK
<1>9. ASSUME NEW r \in Requests, SyncSucceeds(r) \/ RequestStops(r) PROVE PTypeOK'
  BY <1>9, RestsType DEF SyncSucceeds, RequestStops, Processed, Processes
<1>10. ASSUME NEW r \in Requests, Answer(r) PROVE PTypeOK'
  <2>1. r \in Docs  BY Places
  <2>2. answered' \in [Jobs -> Docs]  BY <1>10, <2>1 DEF Answer, PTypeOK
  <2> QED  BY <1>10, <2>2 DEF Answer, PTypeOK
<1> QED
  BY <1>1, <1>2, <1>3, <1>4, <1>5, <1>7, <1>8, <1>9, <1>10 DEF PNext

LEMMA PInitType == PInit => PTypeOK /\ DocsInPlace
<1> SUFFICES ASSUME PInit PROVE PTypeOK /\ DocsInPlace
  OBVIOUS
<1>1. NoDoc \in Docs /\ "fetch" \in Phases  BY DEF Docs, Phases
<1>2. doing = [p \in Workers \cup Requests |-> [phase |-> "fetch", doc |-> NoDoc, todo |-> {}]]
  BY DEF PInit, At
<1>3. PTypeOK  BY <1>1, <1>2 DEF PInit, PTypeOK, NoTree
<1>4. \A r \in Requests : request[r].job = NoJob  BY DEF PInit, Init
<1> QED  BY <1>2, <1>3, <1>4 DEF DocsInPlace, Processes

LEMMA PInvariant == PSpec => [](TypeOK /\ ProcessesOK /\ PTypeOK /\ DocsInPlace)
<1> DEFINE QInv == TypeOK /\ ProcessesOK
           PInv == PTypeOK /\ DocsInPlace
<1>1. Spec => []QInv
  <2>1. Inductive => QInv  BY DEF Inductive
  <2> QED  BY <2>1, InductiveInvariant, PTL
<1>2. PInit => PInv  BY PInitType
<1>3. QInv /\ PInv /\ [PNext]_pvars => PInv'
  BY PTypeStep, PlacesStep
<1>4. QInv /\ PInv => TypeOK /\ ProcessesOK /\ PTypeOK /\ DocsInPlace
  OBVIOUS
<1> HIDE DEF QInv, PInv
<1> QED  BY <1>1, <1>2, <1>3, <1>4, PipelineImplementsQueue, PTL DEF PSpec

(* What every process of app/rag_runtime.py parses, inserts and publishes  *)
(* is a document somebody uploaded: a staged file is there whenever it is  *)
(* read, for any workers, requests and directories.                        *)
THEOREM PipelineTypeCorrect == PSpec => []PTypeOK
BY PInvariant, PTL

----------------------------------------------------------------------------
(* Where the workers have input directories of their own and a source is   *)
(* uploaded again only once its last upload is over, the bytes of a        *)
(* request under way stay in place until its raw object is stored, and     *)
(* nothing replaces the object before the request is answered.             *)
Separated == ~SharedInputs /\ ~Overlapping

Delivered(r) ==
    \/ request[r].step \in {"reupsert", "markSucceeded"}
    \/ request[r].step = "ingest" /\ doing[r].phase # "fetch"

HandedOver ==
    /\ \A r \in Requests : request[r].job # NoJob =>
          latest[request[r].job] = r /\ file[Api][request[r].job] = r
    /\ \A r \in Requests : Delivered(r) => raw[request[r].job] = r
    /\ \A r \in Requests : request[r].step = "new" => \A j \in Jobs : answered[j] # r
    /\ \A j \in Jobs : answered[j] = latest[j] => raw[j] = answered[j]

LEMMA DeliveredHasJob ==
    ASSUME TypeOK, ProcessesOK, NEW r \in Requests, Delivered(r)
    PROVE  request[r].job \in Jobs
BY JobsOfProcesses DEF Delivered

(* Steps that touch no file of the API and no raw object, and end or keep  *)
(* what the requests have delivered.                                       *)
LEMMA KeepHandedOver ==
    ASSUME TypeOK, ProcessesOK, HandedOver,
           UNCHANGED <<raw, latest, answered>>, file'[Api] = file[Api],
           \A r \in Requests :
              /\ request'[r].job # NoJob => request'[r].job = request[r].job
              /\ request'[r].step = "new" => request[r].step = "new"
              /\ Delivered(r)' => Delivered(r) /\ request'[r].job = request[r].job
    PROVE  HandedOver'
<1>1. \A r \in Requests : request'[r].job # NoJob =>
         latest'[request'[r].job] = r /\ file'[Api][request'[r].job] = r
  BY DEF HandedOver
<1>2. \A r \in Requests : Delivered(r)' => raw'[request'[r].job] = r
  BY DEF HandedOver
<1>3. \A r \in Requests : request'[r].step = "new" => \A j \in Jobs : answered'[j] # r
  BY DEF HandedOver
<1>4. \A j \in Jobs : answered'[j] = latest'[j] => raw'[j] = answered'[j]
  BY DEF HandedOver
<1> QED  BY <1>1, <1>2, <1>3, <1>4 DEF HandedOver

(* A step of the queue delivers nothing. *)
LEMMA QueueStepDelivers ==
    ASSUME TypeOK, ProcessesOK, DocsInPlace, QueueStep, NEW r \in Requests, Delivered(r)'
    PROVE  Delivered(r) /\ request'[r].job = request[r].job
<1>1. doing' = doing  BY DEF QueueStep, content
<1>2. CASE request'[r].step = request[r].step /\ request'[r].job = request[r].job
  BY <1>1, <1>2 DEF Delivered
<1>3. CASE request'[r].step = "error"
  BY <1>3 DEF Delivered
<1>4. CASE request[r].step \in {"upsert", "markProcessing"} /\ request'[r].step \in {"upload", "markProcessing", "ingest"}
  <2>1. doing[r].phase = "fetch"  BY <1>4 DEF DocsInPlace, Processes, Processing
  <2> QED  BY <1>1, <1>4, <2>1 DEF Delivered
<1> QED  BY <1>2, <1>3, <1>4, QueueStepRequests

LEMMA QueueStepHandedOver ==
    ASSUME TypeOK, ProcessesOK, PTypeOK, DocsInPlace, HandedOver, QueueStep
    PROVE  HandedOver'
<1>1. UNCHANGED <<raw, latest, answered, file>>  BY DEF QueueStep, content
<1>2. \A r \in Requests : /\ request'[r].job # NoJob => request'[r].job = request[r].job
                          /\ request'[r].step = "new" => request[r].step = "new"
  BY QueueStepRequests
<1> QED  BY <1>1, <1>2, QueueStepDelivers, KeepHandedOver

(* A step of one process that leaves the requests alone. *)
LEMMA ContentStepHandedOver ==
    ASSUME TypeOK, ProcessesOK, HandedOver,
           UNCHANGED <<raw, latest, answered, request>>, file'[Api] = file[Api],
           \A r \in Requests : request[r].step = "ingest" /\ doing'[r].phase # "fetch" =>
                                 doing[r].phase # "fetch"
    PROVE  HandedOver'
<1>1. \A r \in Requests : Delivered(r)' => Delivered(r)
  BY DEF Delivered
<1> QED  BY <1>1, KeepHandedOver

(* A request that goes on, to a step it has paid for. *)
LEMMA GoesOnHandedOver ==
    ASSUME TypeOK, ProcessesOK, HandedOver, NEW r \in Requests, NEW step, Goto(r, step), step # "new",
           UNCHANGED <<raw, latest, answered>>, file' = file,
           step \in {"reupsert", "markSucceeded"} => Delivered(r),
           step # "ingest",
           \A q \in Requests \ {r} : doing'[q] = doing[q]
    PROVE  HandedOver'
<1>1. \A q \in Requests \ {r} : request'[q] = request[q]  BY GotoEffect
<1>2. /\ request'[r].step = step
      /\ request'[r].job # NoJob => request'[r].job = request[r].job
      /\ step \notin {"done", "error"} => request'[r].job = request[r].job
  BY GotoEffect
<1>3. \A q \in Requests : Delivered(q)' => Delivered(q) /\ request'[q].job = request[q].job
  BY <1>1, <1>2 DEF Delivered
<1> QED  BY <1>1, <1>2, <1>3, KeepHandedOver

(* The raw upload sends the request's own document: nobody else has staged *)
(* one of this source meanwhile.                                           *)
LEMMA UploadHandedOver ==
    ASSUME TypeOK, ProcessesOK, PTypeOK, HandedOver, NEW r \in Requests, Upload(r),
           request[r].step \in {"upload", "ingest"},
           \A q \in Requests \ {r} : request'[q] = request[q] /\ doing'[q] = doing[q],
           request'[r].job = request[r].job, request'[r].step # "new"
    PROVE  HandedOver'
<1> DEFINE j == request[r].job
<1>1. j \in Jobs /\ j # NoJob
  <2>1. request[r].job \in Jobs  BY JobsOfProcesses
  <2> QED  BY <2>1, QueueAssumption
<1>2. latest[j] = r /\ file[Api][j] = r  BY <1>1 DEF HandedOver
<1>3. raw' = [raw EXCEPT ![j] = r] /\ UNCHANGED <<file, latest, answered>>  BY <1>2 DEF Upload
<1>4. raw'[j] = r /\ \A i \in Jobs \ {j} : raw'[i] = raw[i]  BY <1>1, <1>3 DEF PTypeOK
<1>5. \A q \in Requests : request'[q].job = request[q].job
  OBVIOUS
<1>6. \A q \in Requests : request'[q].job # NoJob =>
         latest'[request'[q].job] = q /\ file'[Api][request'[q].job] = q
  BY <1>3, <1>5 DEF HandedOver
<1>7. ASSUME NEW q \in Requests, Delivered(q)' PROVE raw'[request'[q].job] = q
  <2>1. CASE q = r
    BY <1>4, <1>5, <2>1
  <2>2. CASE q # r
    <3>1. Delivered(q)  BY <1>7, <2>2 DEF Delivered
    <3>2. request[q].job \in Jobs /\ raw[request[q].job] = q  BY <3>1, DeliveredHasJob DEF HandedOver
    <3>3. request[q].job # j  BY <1>2, <2>2, <3>2, QueueAssumption DEF HandedOver
    <3> QED  BY <1>4, <1>5, <3>2, <3>3
  <2> QED  BY <2>1, <2>2
<1>8. \A q \in Requests : request'[q].step = "new" => \A i \in Jobs : answered'[i] # q
  BY <1>3 DEF HandedOver
<1>9. \A i \in Jobs : answered'[i] = latest'[i] => raw'[i] = answered'[i]
  BY <1>2, <1>3, <1>4 DEF HandedOver
<1> QED  BY <1>6, <1>7, <1>8, <1>9 DEF HandedOver

LEMMA ReceiveHandedOver ==
    ASSUME TypeOK, ProcessesOK, PTypeOK, DocsInPlace, HandedOver, ~Overlapping,
           NEW r \in Requests, NEW j \in Jobs, ReceiveDocument(r, j)
    PROVE  HandedOver'
<1>1. /\ request[r].step = "new" /\ request' = [request EXCEPT ![r] = [@ EXCEPT !.step = "upsert", !.job = j]]
      /\ file' = [file EXCEPT ![Api][j] = r] /\ latest' = [latest EXCEPT ![j] = r]
      /\ UNCHANGED <<raw, answered, doing>>
      /\ \A q \in Requests : request[q].job # j
  BY DEF ReceiveDocument, Receive, Stage, InFlight
<1>2. request'[r].step = "upsert" /\ request'[r].job = j /\ \A q \in Requests \ {r} : request'[q] = request[q]
  BY <1>1 DEF TypeOK, RequestStates
<1>3. /\ file'[Api][j] = r /\ \A i \in Jobs \ {j} : file'[Api][i] = file[Api][i]
      /\ latest'[j] = r /\ \A i \in Jobs \ {j} : latest'[i] = latest[i]
  <2>1. Api \in Dirs  BY Places
  <2> QED  BY <1>1, <2>1 DEF PTypeOK
<1>4. ASSUME NEW q \in Requests, request'[q].job # NoJob
      PROVE  latest'[request'[q].job] = q /\ file'[Api][request'[q].job] = q
  <2>1. CASE q = r
    BY <1>2, <1>3, <2>1
  <2>2. CASE q # r
    <3>1. request'[q] = request[q] /\ request[q].job # NoJob /\ request[q].job # j
      BY <1>1, <1>2, <1>4, <2>2
    <3>2. request[q].job \in Jobs \ {j}  BY <3>1 DEF TypeOK, RequestStates
    <3> QED  BY <1>3, <3>1, <3>2 DEF HandedOver
  <2> QED  BY <2>1, <2>2
<1>5. ASSUME NEW q \in Requests, Delivered(q)' PROVE raw'[request'[q].job] = q
  <2>1. q # r  BY <1>2, <1>5 DEF Delivered
  <2>2. request'[q] = request[q] /\ Delivered(q)  BY <1>1, <1>2, <1>5, <2>1 DEF Delivered
  <2> QED  BY <1>1, <2>2 DEF HandedOver
<1>6. \A q \in Requests : request'[q].step = "new" => \A i \in Jobs : answered'[i] # q
  BY <1>1, <1>2 DEF HandedOver
<1>7. \A i \in Jobs : answered'[i] = latest'[i] => raw'[i] = answered'[i]
  BY <1>1, <1>3 DEF HandedOver
<1> QED  BY <1>4, <1>5, <1>6, <1>7 DEF HandedOver

LEMMA AnswerHandedOver ==
    ASSUME TypeOK, ProcessesOK, PTypeOK, HandedOver, NEW r \in Requests, Answer(r)
    PROVE  HandedOver'
<1>1. PICK step \in {"upsert", "reupsert", "markSucceeded"} :
         request[r].step = step /\ Goto(r, NextStep(step))
  BY DEF Answer, UpsertPending, MarkSucceeded, Commit
<1>2. UNCHANGED <<file, raw, latest, doing>>  BY DEF Answer
<1>3. CASE step = "upsert"
  <2>1. NextStep("upsert") \in {"markProcessing", "upload"}  BY DEF NextStep
  <2>2. answered' = answered  BY <1>1, <1>3 DEF Answer
  <2> QED  BY <1>1, <1>2, <1>3, <2>1, <2>2, GoesOnHandedOver
<1>4. CASE step # "upsert"
  <2> DEFINE j == request[r].job
  <2>1. Delivered(r) /\ j \in Jobs /\ j # NoJob
    BY <1>1, <1>4, DeliveredHasJob, QueueAssumption DEF Delivered
  <2>2. latest[j] = r /\ raw[j] = r  BY <2>1 DEF HandedOver
  <2>3. NextStep(step) = "done"  BY <1>4 DEF NextStep
  <2>4. /\ request'[r].step = "done" /\ request'[r].job = NoJob
        /\ \A q \in Requests \ {r} : request'[q] = request[q]
    BY <1>1, <2>3, GotoEffect
  <2>5. answered' = [answered EXCEPT ![j] = r]  BY <1>1, <1>4 DEF Answer
  <2>6. answered'[j] = r /\ \A i \in Jobs \ {j} : answered'[i] = answered[i]
    BY <2>1, <2>5 DEF PTypeOK
  <2>7. \A q \in Requests : request'[q].job # NoJob =>
           latest'[request'[q].job] = q /\ file'[Api][request'[q].job] = q
    BY <1>2, <2>4 DEF HandedOver
  <2>8. \A q \in Requests : Delivered(q)' => raw'[request'[q].job] = q
    BY <1>2, <2>4 DEF HandedOver, Delivered
  <2>9. \A q \in Requests : request'[q].step = "new" => \A i \in Jobs : answered'[i] # q
    BY <2>4, <2>6 DEF HandedOver
  <2>10. \A i \in Jobs : answered'[i] = latest'[i] => raw'[i] = answered'[i]
    BY <1>2, <2>2, <2>6 DEF HandedOver
  <2> QED  BY <2>7, <2>8, <2>9, <2>10 DEF HandedOver
<1> QED  BY <1>3, <1>4

LEMMA HandedOverStep ==
    ASSUME TypeOK, ProcessesOK, PTypeOK, DocsInPlace, HandedOver, Separated, [PNext]_pvars
    PROVE  HandedOver'
<1> USE DEF Separated
<1>1. CASE QueueStep
  BY <1>1, QueueStepHandedOver
<1>2. ASSUME NEW w \in Workers, Download(w) PROVE HandedOver'
  <2>1. DirOf(w) # Api  BY DEF DirOf
  <2>2. file'[Api] = file[Api]  BY <1>2, <2>1, Places DEF Download, PTypeOK
  <2>3. UNCHANGED <<raw, latest, answered, request>>  BY <1>2 DEF Download, vars
  <2>4. w \in Processes /\ Moves(w, "process", NoDoc, {})  BY <1>2 DEF Download, Processes
  <2>5. \A r \in Requests : doing'[r] = doing[r]  BY <2>4, MovesEffect DEF Processes
  <2> QED  BY <2>2, <2>3, <2>5, ContentStepHandedOver
<1>3. ASSUME NEW w \in Workers, WorkerSucceeds(w) \/ WorkerStops(w) PROVE HandedOver'
  <2>1. UNCHANGED <<raw, latest, answered, request, file>> /\ Rests(w)
    BY <1>3 DEF WorkerSucceeds, WorkerStops, Processed, FinishProcessing, Crash
  <2>2. \A r \in Requests : doing'[r] = doing[r]  BY <2>1, MovesEffect DEF Rests, Processes
  <2> QED  BY <2>1, <2>2, ContentStepHandedOver
<1>4. ASSUME NEW p \in Workers \cup Requests, ProcessStep(p) PROVE HandedOver'
  <2>1. UNCHANGED <<raw, latest, answered, request, file>> /\ doing[p].phase # "fetch"
    BY <1>4 DEF ProcessStep, Parse, WriteArtifact, InsertContent, UploadAsset, vars
  <2>2. PICK phase, doc, todo : Moves(p, phase, doc, todo)
    BY <1>4 DEF ProcessStep, Parse, WriteArtifact, InsertContent, UploadAsset
  <2>3. \A r \in Processes \ {p} : doing'[r] = doing[r]  BY <2>2, MovesEffect DEF Processes
  <2> QED  BY <2>1, <2>3, ContentStepHandedOver DEF Processes
<1>5. ASSUME NEW r \in Requests, NEW j \in Jobs, ReceiveDocument(r, j) PROVE HandedOver'
  BY <1>5, ReceiveHandedOver
<1>6. ASSUME NEW r \in Requests, UploadRawDocument(r) PROVE HandedOver'
  <2>1. request[r].step = "upload" /\ Goto(r, NextStep("upload")) /\ Upload(r) /\ doing' = doing
    BY <1>6 DEF UploadRawDocument, StepReturns
  <2>2. NextStep("upload") = "reupsert"  BY DEF NextStep
  <2>3. /\ \A q \in Requests \ {r} : request'[q] = request[q]
        /\ request'[r].step = "reupsert" /\ request'[r].job = request[r].job
    BY <2>1, <2>2, GotoEffect
  <2> QED  BY <2>1, <2>3, UploadHandedOver
<1>7. ASSUME NEW r \in Requests, SyncUploadRawDocument(r) PROVE HandedOver'
  <2>1. /\ request[r].step = "ingest" /\ request' = request /\ Upload(r)
        /\ Moves(r, "process", NoDoc, {}) /\ r \in Processes
    BY <1>7 DEF SyncUploadRawDocument, vars, Processes
  <2>2. \A q \in Requests \ {r} : doing'[q] = doing[q]  BY <2>1, MovesEffect DEF Processes
  <2> QED  BY <2>1, <2>2, UploadHandedOver
<1>8. ASSUME NEW r \in Requests, SyncSucceeds(r) \/ RequestStops(r) PROVE HandedOver'
  <2>1. PICK step : /\ Goto(r, step) /\ step \in {"markSucceeded", "markFailed", "error"}
                    /\ step = "markSucceeded" => Delivered(r)
    <3>1. CASE SyncSucceeds(r)
      <4>1. NextStep("ingest") = "markSucceeded"  BY DEF NextStep
      <4>2. request[r].step = "ingest" /\ doing[r].phase # "fetch" /\ Goto(r, NextStep("ingest"))
        BY <3>1 DEF SyncSucceeds, StepReturns, Processed
      <4> QED  BY <4>1, <4>2 DEF Delivered
    <3>2. CASE RequestStops(r)
      BY <3>2 DEF RequestStops, StepRaises, RequestDies
    <3> QED  BY <1>8, <3>1, <3>2
  <2>2. UNCHANGED <<raw, latest, answered, file>> /\ Rests(r) /\ r \in Processes
    BY <1>8 DEF SyncSucceeds, RequestStops, Processed, Processes
  <2>3. \A q \in Requests \ {r} : doing'[q] = doing[q]  BY <2>2, MovesEffect DEF Rests, Processes
  <2> QED  BY <2>1, <2>2, <2>3, GoesOnHandedOver
<1>9. ASSUME NEW r \in Requests, Answer(r) PROVE HandedOver'
  BY <1>9, AnswerHandedOver
<1>10. CASE UNCHANGED pvars
  <2>1. UNCHANGED <<raw, latest, answered, request, file, doing>>  BY <1>10 DEF pvars, vars, content
  <2> QED  BY <2>1, ContentStepHandedOver
<1> QED
  BY <1>1, <1>2, <1>3, <1>4, <1>5, <1>6, <1>7, <1>8, <1>9, <1>10 DEF PNext

LEMMA HandedOverAlways ==
    Separated => (PSpec => [](TypeOK /\ ProcessesOK /\ PTypeOK /\ DocsInPlace /\ HandedOver))
<1> SUFFICES ASSUME Separated
             PROVE  PSpec => [](TypeOK /\ ProcessesOK /\ PTypeOK /\ DocsInPlace /\ HandedOver)
  OBVIOUS
<1> DEFINE PInv == TypeOK /\ ProcessesOK /\ PTypeOK /\ DocsInPlace
<1>1. PInit => HandedOver
  <2>1. SUFFICES ASSUME PInit PROVE HandedOver
    OBVIOUS
  <2>2. \A r \in Requests : request[r].job = NoJob /\ request[r].step = "new"
    BY <2>1 DEF PInit, Init
  <2>3. \A j \in Jobs : answered[j] = NoDoc /\ raw[j] = NoDoc  BY <2>1 DEF PInit
  <2> QED  BY <2>2, <2>3 DEF HandedOver, Delivered
<1>2. PInv /\ HandedOver /\ [PNext]_pvars => HandedOver'
  BY HandedOverStep
<1>3. PInv /\ HandedOver => TypeOK /\ ProcessesOK /\ PTypeOK /\ DocsInPlace /\ HandedOver
  OBVIOUS
<1>4. PSpec => []PInv
  BY PInvariant
<1> HIDE DEF PInv
<1> QED  BY <1>1, <1>2, <1>3, <1>4, PTL DEF PSpec

(* The raw object of a source whose last upload was answered with success  *)
(* is that upload, for any number of workers and requests, when a worker   *)
(* has an input directory of its own and uploads of one source do not      *)
(* overlap.  The run IngestPipelineShared shows why the directories must   *)
(* be separate.                                                            *)
THEOREM AnsweredIsStored == Separated => (PSpec => []AnsweredDocumentStored)
<1> SUFFICES ASSUME Separated PROVE PSpec => []AnsweredDocumentStored
  OBVIOUS
<1>1. HandedOver => AnsweredDocumentStored
  BY DEF HandedOver, AnsweredDocumentStored
<1> QED  BY <1>1, HandedOverAlways, PTL
=============================================================================
