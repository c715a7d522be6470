------------------------ MODULE IngestServingProofs ------------------------
(***************************************************************************)
(* What a job that says succeeded serves: its stored document, with all of *)
(* its files, for any number of jobs and requests and any failures between *)
(* two files.  Twice: for a deployment with INGEST_SYNC and no worker,     *)
(* which may upload a source again, and for sources that are uploaded      *)
(* once, by any deployment.                                                *)
(***************************************************************************)
EXTENDS IngestPipelineProofs

USE PipelineAssumption

Solitary == Separated /\ IngestSync /\ Workers = {}

(* The document d of job j is in the index, and its files in the bucket.   *)
Complete(j, d) == indexed[j] = d /\ \A f \in Artifacts(d) : published[j][f] = d

(* What the request r has made of its own document by its phase: the files *)
(* it wrote are in the output tree, and those it sent are in the bucket,   *)
(* whatever earlier documents left of other files.                         *)
Made(r) ==
    LET j == request[r].job
        work == doing[r] IN
    /\ work.phase \in {"write", "publish"} => work.doc = r
    /\ work.phase = "write" => \A f \in Artifacts(r) \ work.todo : output[Api][j][f] = r
    /\ work.phase = "publish" =>
          /\ \A f \in Artifacts(r) : output[Api][j][f] = r
          /\ indexed[j] = r
          /\ \A f \in Artifacts(r) \ work.todo : published[j][f] = r

Ended(r) == request[r].step \in {"done", "error"}

Serving ==
    /\ \A r \in Requests : request[r].step \notin {"upload", "reupsert"}
    /\ \A r \in Requests : ~Ended(r) => \A j \in Jobs : answered[j] # r
    /\ \A r \in Requests : request[r].step = "ingest" => Made(r)
    /\ \A r \in Requests : request[r].step = "markSucceeded" => Complete(request[r].job, r)
    /\ \A j \in Jobs : answered[j] = latest[j] => Complete(j, answered[j])

(* The job of a request under way is its own, and was not answered since.  *)
LEMMA OwnJob ==
    ASSUME TypeOK, ProcessesOK, HandedOver, Serving, NEW r \in Requests,
           request[r].step \in {"ingest", "markSucceeded"}
    PROVE  /\ request[r].job \in Jobs
           /\ file[Api][request[r].job] = r
           /\ answered[request[r].job] # latest[request[r].job]
           /\ \A q \in Requests \ {r} : request[q].job # request[r].job
<1>1. request[r].job # NoJob  BY DEF ProcessesOK
<1>2. request[r].job \in Jobs  BY <1>1 DEF TypeOK, RequestStates
<1>3. latest[request[r].job] = r /\ file[Api][request[r].job] = r  BY <1>1 DEF HandedOver
<1>4. answered[request[r].job] # r  BY <1>2 DEF Serving, Ended
<1>5. \A q \in Requests \ {r} : request[q].job # request[r].job
  BY <1>1, <1>3 DEF HandedOver
<1> QED  BY <1>2, <1>3, <1>4, <1>5

(* Steps that leave tree, index, bucket and answers alone, and start or    *)
(* continue no processing beyond the fetch.                                *)
LEMMA KeepServing ==
    ASSUME Serving, UNCHANGED <<output, indexed, published, latest, answered>>,
           \A r \in Requests :
              /\ request'[r].step \notin {"upload", "reupsert"}
              /\ Ended(r) => Ended(r)'
              /\ request'[r].step = "ingest" =>
                    \/ doing'[r].phase \in {"fetch", "process"}
                    \/ request'[r].job = request[r].job /\ request[r].step = "ingest"
                       /\ doing'[r] = doing[r]
              /\ request'[r].step = "markSucceeded" =>
                    \/ Complete(request'[r].job, r)
                    \/ request'[r].job = request[r].job /\ request[r].step = "markSucceeded"
    PROVE  Serving'
<1>1. \A i, d : Complete(i, d)' <=> Complete(i, d)  BY DEF Complete
<1>2. \A r \in Requests : ~Ended(r)' => \A j \in Jobs : answered'[j] # r
  BY DEF Serving
<1>3. ASSUME NEW r \in Requests, request'[r].step = "ingest" PROVE Made(r)'
  <2>1. CASE doing'[r].phase \in {"fetch", "process"}
    BY <2>1 DEF Made
  <2>2. CASE request'[r].job = request[r].job /\ request[r].step = "ingest" /\ doing'[r] = doing[r]
    <3>1. Made(r)  BY <2>2 DEF Serving
    <3> QED  BY <2>2, <3>1 DEF Made
  <2> QED  BY <1>3, <2>1, <2>2
<1>4. \A r \in Requests : (request'[r].step = "markSucceeded") => Complete(request[r].job, r)'
  BY <1>1 DEF Serving, Complete
<1>5. \A j \in Jobs : answered'[j] = latest'[j] => Complete(j, answered[j])'
  BY <1>1 DEF Serving
<1> QED  BY <1>2, <1>3, <1>4, <1>5 DEF Serving

(* A request whose next step is not one of processing. *)
LEMMA GoesOnServing ==
    ASSUME TypeOK, Serving, NEW r \in Requests, NEW step, Goto(r, step), ~Ended(r),
           step \in {"markProcessing", "markSucceeded", "markFailed", "error"},
           step = "markSucceeded" => Complete(request[r].job, r),
           \A q \in Requests \ {r} : doing'[q] = doing[q],
           UNCHANGED <<output, indexed, published, latest, answered>>
    PROVE  Serving'
<1>1. /\ \A q \in Requests \ {r} : request'[q] = request[q]
      /\ request'[r].step = step
      /\ step \notin {"done", "error"} => request'[r].job = request[r].job
  BY GotoEffect
<1>2. \A q \in Requests :
          /\ request'[q].step \notin {"upload", "reupsert"}
          /\ Ended(q) => Ended(q)'
  BY <1>1 DEF Serving, Ended
<1>3. \A q \in Requests :
          /\ request'[q].step = "ingest" =>
                request'[q].job = request[q].job /\ request[q].step = "ingest" /\ doing'[q] = doing[q]
          /\ request'[q].step = "markSucceeded" =>
                \/ Complete(request'[q].job, q)
                \/ request'[q].job = request[q].job /\ request[q].step = "markSucceeded"
  BY <1>1
<1> QED  BY <1>2, <1>3, KeepServing

LEMMA QueueStepServing ==
    ASSUME TypeOK, ProcessesOK, DocsInPlace, Serving, IngestSync, QueueStep
    PROVE  Serving'
<1>1. UNCHANGED <<output, indexed, published, latest, answered, doing>>  BY DEF QueueStep, content
<1>2. ASSUME NEW r \in Requests
      PROVE  /\ request'[r].step \notin {"upload", "reupsert"}
             /\ Ended(r) => Ended(r)'
             /\ request'[r].step = "ingest" =>
                   \/ doing'[r].phase \in {"fetch", "process"}
                   \/ request'[r].job = request[r].job /\ request[r].step = "ingest" /\ doing'[r] = doing[r]
             /\ request'[r].step = "markSucceeded" =>
                   request'[r].job = request[r].job /\ request[r].step = "markSucceeded"
  <2>1. CASE request'[r].step = request[r].step /\ request'[r].job = request[r].job
    BY <1>1, <2>1 DEF Serving, Ended
  <2>2. CASE request'[r].step = "error"
    BY <2>2 DEF Ended
  <2>3. CASE /\ request[r].step \in {"upsert", "markProcessing"}
             /\ request'[r].step \in {"upload", "markProcessing", "ingest"}
             /\ request'[r].step = "upload" => ~IngestSync
    <3>1. doing[r].phase = "fetch"  BY <2>3 DEF DocsInPlace, Processes, Processing
    <3> QED  BY <1>1, <2>3, <3>1 DEF Ended
  <2> QED  BY <2>1, <2>2, <2>3, QueueStepRequests
<1> QED  BY <1>1, <1>2, KeepServing

(* The processing of r touches what belongs to its own job. *)
LEMMA OthersServe ==
    ASSUME TypeOK, ProcessesOK, HandedOver, Serving, NEW r \in Requests, request[r].step = "ingest",
           UNCHANGED <<request, latest, answered>>,
           \A q \in Requests \ {r} : doing'[q] = doing[q],
           \A i \in Jobs \ {request[r].job} :
              /\ output'[Api][i] = output[Api][i]
              /\ indexed'[i] = indexed[i] /\ published'[i] = published[i],
           Made(r)'
    PROVE  Serving'
<1>1. /\ answered[request[r].job] # latest[request[r].job]
      /\ \A q \in Requests \ {r} : request[q].job # request[r].job
  BY OwnJob
<1>2. ASSUME NEW q \in Requests \ {r}, request[q].step \in {"ingest", "markSucceeded"}
      PROVE  /\ request[q].job \in Jobs \ {request[r].job}
             /\ Made(q) => Made(q)'
             /\ Complete(request[q].job, q) => Complete(request[q].job, q)'
  <2>1. request[q].job \in Jobs \ {request[r].job}  BY <1>1, <1>2, OwnJob
  <2> QED  BY <2>1 DEF Made, Complete
<1>3. \A q \in Requests : request'[q].step = "ingest" => Made(q)'
  BY <1>2 DEF Serving
<1>4. \A q \in Requests : request'[q].step = "markSucceeded" => Complete(request[q].job, q)'
  BY <1>2 DEF Serving
<1>5. \A i \in Jobs : answered'[i] = latest'[i] => Complete(i, answered[i])'
  <2> SUFFICES ASSUME NEW i \in Jobs, answered[i] = latest[i] PROVE Complete(i, answered[i])'
    OBVIOUS
  <2>1. i # request[r].job /\ Complete(i, answered[i])  BY <1>1 DEF Serving
  <2> QED  BY <2>1 DEF Complete
<1>6. /\ \A q \in Requests : request'[q].step \notin {"upload", "reupsert"}
      /\ \A q \in Requests : ~Ended(q)' => \A i \in Jobs : answered'[i] # q
  BY DEF Serving, Ended
<1> QED  BY <1>3, <1>4, <1>5, <1>6 DEF Serving

(* One file after the other. *)
LEMMA ProcessStepServing ==
    ASSUME TypeOK, ProcessesOK, PTypeOK, HandedOver, Serving, NEW r \in Requests, ProcessStep(r)
    PROVE  Serving'
<1> DEFINE j == request[r].job
<1>1. r \notin Workers /\ DirOf(r) = Api /\ JobOf(r) = j /\ r \in Processes
  BY DEF DirOf, JobOf, Processes
<1>2. request[r].step = "ingest" /\ UNCHANGED <<request, latest, answered>>
  BY <1>1 DEF ProcessStep, Parse, WriteArtifact, InsertContent, UploadAsset, Processing, vars
<1>3. Made(r) /\ j \in Jobs /\ file[Api][j] = r /\ Api \in Dirs /\ r # NoDoc
  BY <1>2, OwnJob, Places DEF Serving
<1>4. Artifacts(r) \subseteq Files /\ Tree(r) = output[Api][j]  BY <1>1 DEF Artifacts, Tree
<1>5. PICK phase, doc, todo : Moves(r, phase, doc, todo)
  BY DEF ProcessStep, Parse, WriteArtifact, InsertContent, UploadAsset
<1>6. \A q \in Requests \ {r} : doing'[q] = doing[q]  BY <1>1, <1>5, MovesEffect DEF Processes
<1> DEFINE Only == \A i \in Jobs \ {j} : /\ output'[Api][i] = output[Api][i]
                                        /\ indexed'[i] = indexed[i] /\ published'[i] = published[i]
<1>7. CASE Parse(r)
  <2>1. Moves(r, "write", r, Artifacts(r)) /\ UNCHANGED <<output, indexed, published>>
    BY <1>1, <1>3, <1>7 DEF Parse
  <2>2. doing'[r].phase = "write" /\ doing'[r].doc = r /\ doing'[r].todo = Artifacts(r)
    BY <1>1, <2>1, MovesEffect
  <2>3. Made(r)'  BY <2>2 DEF Made
  <2>4. Only  BY <2>1
  <2> QED  BY <1>2, <1>6, <2>3, <2>4, OthersServe
<1>8. CASE WriteArtifact(r)
  <2>1. PICK f \in Files : /\ output' = [output EXCEPT ![Api][j][f] = doing[r].doc]
                           /\ Moves(r, "write", doing[r].doc, doing[r].todo \ {f})
    BY <1>1, <1>8 DEF WriteArtifact
  <2>2. doing[r].phase = "write" /\ UNCHANGED <<indexed, published>>  BY <1>8 DEF WriteArtifact
  <2>3. doing[r].doc = r /\ \A g \in Artifacts(r) \ doing[r].todo : output[Api][j][g] = r
    BY <1>3, <2>2 DEF Made
  <2>4. /\ output'[Api][j][f] = r /\ \A g \in Files \ {f} : output'[Api][j][g] = output[Api][j][g]
        /\ \A i \in Jobs \ {j} : output'[Api][i] = output[Api][i]
    BY <1>3, <2>1, <2>3 DEF PTypeOK
  <2>5. doing'[r].phase = "write" /\ doing'[r].doc = r /\ doing'[r].todo = doing[r].todo \ {f}
    BY <1>1, <2>1, <2>3, MovesEffect
  <2>6. \A g \in Artifacts(r) \ doing'[r].todo : output'[Api][j][g] = r
    BY <1>4, <2>3, <2>4, <2>5
  <2>7. Made(r)'  BY <1>2, <2>5, <2>6 DEF Made
  <2>8. Only  BY <2>2, <2>4
  <2> QED  BY <1>2, <1>6, <2>7, <2>8, OthersServe
<1>9. CASE InsertContent(r)
  <2>1. /\ doing[r].phase = "write" /\ doing[r].todo = {}
        /\ indexed' = [indexed EXCEPT ![j] = doing[r].doc]
        /\ Moves(r, "publish", doing[r].doc, {f \in Files : Tree(r)[f] # NoDoc})
        /\ UNCHANGED <<output, published>>
    BY <1>1, <1>9 DEF InsertContent
  <2>2. doing[r].doc = r /\ \A f \in Artifacts(r) : output[Api][j][f] = r
    BY <1>3, <2>1 DEF Made
  <2>3. indexed'[j] = r /\ \A i \in Jobs \ {j} : indexed'[i] = indexed[i]
    BY <1>3, <2>1, <2>2 DEF PTypeOK
  <2>4. /\ doing'[r].phase = "publish" /\ doing'[r].doc = r
        /\ doing'[r].todo = {f \in Files : Tree(r)[f] # NoDoc}
    BY <1>1, <2>1, <2>2, MovesEffect
  <2>5. Artifacts(r) \subseteq doing'[r].todo  BY <1>3, <1>4, <2>2, <2>4
  <2>6. Made(r)'  BY <1>2, <2>1, <2>2, <2>3, <2>4, <2>5 DEF Made
  <2>7. Only  BY <2>1, <2>3
  <2> QED  BY <1>2, <1>6, <2>6, <2>7, OthersServe
<1>10. CASE UploadAsset(r)
  <2>1. PICK f \in Files : /\ published' = [published EXCEPT ![j][f] = Tree(r)[f]]
                           /\ Moves(r, "publish", doing[r].doc, doing[r].todo \ {f})
    BY <1>1, <1>10 DEF UploadAsset
  <2>2. doing[r].phase = "publish" /\ UNCHANGED <<output, indexed>>  BY <1>10 DEF UploadAsset
  <2>3. /\ doing[r].doc = r /\ indexed[j] = r
        /\ \A g \in Artifacts(r) : output[Api][j][g] = r
        /\ \A g \in Artifacts(r) \ doing[r].todo : published[j][g] = r
    BY <1>3, <2>2 DEF Made
  <2>4. /\ published'[j][f] = output[Api][j][f]
        /\ \A g \in Files \ {f} : published'[j][g] = published[j][g]
        /\ \A i \in Jobs \ {j} : published'[i] = published[i]
    BY <1>3, <1>4, <2>1 DEF PTypeOK
  <2>5. doing'[r].phase = "publish" /\ doing'[r].doc = r /\ doing'[r].todo = doing[r].todo \ {f}
    BY <1>1, <2>1, <2>3, MovesEffect
  <2>6. \A g \in Artifacts(r) \ doing'[r].todo : published'[j][g] = r
    BY <1>4, <2>3, <2>4, <2>5
  <2>7. Made(r)'  BY <1>2, <2>2, <2>3, <2>5, <2>6 DEF Made
  <2>8. Only  BY <2>2, <2>4
  <2> QED  BY <1>2, <1>6, <2>7, <2>8, OthersServe
<1> QED  BY <1>7, <1>8, <1>9, <1>10 DEF ProcessStep

(* Until it is answered, the new upload of a source hides the last answer. *)
LEMMA ReceiveServing ==
    ASSUME TypeOK, ProcessesOK, PTypeOK, DocsInPlace, Serving, NEW r \in Requests, NEW j \in Jobs,
           ReceiveDocument(r, j)
    PROVE  Serving'
<1>1. /\ request[r].step = "new" /\ request' = [request EXCEPT ![r] = [@ EXCEPT !.step = "upsert", !.job = j]]
      /\ latest' = [latest EXCEPT ![j] = r]
      /\ UNCHANGED <<output, indexed, published, answered, doing>>
  BY DEF ReceiveDocument, Receive
<1>2. request'[r].step = "upsert" /\ \A q \in Requests \ {r} : request'[q] = request[q]
  BY <1>1 DEF TypeOK, RequestStates
<1>3. latest'[j] = r /\ \A i \in Jobs \ {j} : latest'[i] = latest[i]  BY <1>1 DEF PTypeOK
<1>4. \A i, d : Complete(i, d)' <=> Complete(i, d)  BY <1>1 DEF Complete
<1>5. \A q \in Requests : request'[q].step = "ingest" => Made(q)'
  BY <1>1, <1>2 DEF Serving, Made
<1>6. \A q \in Requests : request'[q].step = "markSucceeded" => Complete(request[q].job, q)'
  BY <1>2, <1>4 DEF Serving
<1>7. \A q \in Requests : request'[q].step = "markSucceeded" => request'[q].job = request[q].job
  BY <1>2
<1>8. \A i \in Jobs : answered'[i] = latest'[i] => Complete(i, answered[i])'
  <2>1. answered[j] # r  BY <1>1 DEF Serving, Ended
  <2> QED  BY <1>1, <1>3, <1>4, <2>1 DEF Serving
<1>9. /\ \A q \in Requests : request'[q].step \notin {"upload", "reupsert"}
      /\ \A q \in Requests : ~Ended(q)' => \A i \in Jobs : answered'[i] # q
  BY <1>1, <1>2 DEF Serving, Ended
<1> QED  BY <1>1, <1>5, <1>6, <1>7, <1>8, <1>9 DEF Serving, Complete

(* The answer comes when everything is in place. *)
LEMMA AnswerServing ==
    ASSUME TypeOK, ProcessesOK, PTypeOK, HandedOver, Serving, IngestSync, NEW r \in Requests, Answer(r)
    PROVE  Serving'
<1>1. PICK step \in {"upsert", "markSucceeded"} :
         request[r].step = step /\ Goto(r, NextStep(step))
  BY DEF Answer, UpsertPending, MarkSucceeded, Commit, Serving
<1>2. UNCHANGED <<output, indexed, published, latest, doing>>  BY DEF Answer
<1>3. CASE step = "upsert"
  <2>1. NextStep("upsert") = "markProcessing"  BY DEF NextStep
  <2>2. answered' = answered  BY <1>1, <1>3 DEF Answer
  <2>3. ~Ended(r)  BY <1>1, <1>3 DEF Ended
  <2> QED  BY <1>1, <1>2, <1>3, <2>1, <2>2, <2>3, GoesOnServing
<1>4. CASE step = "markSucceeded"
  <2> DEFINE j == request[r].job
  <2>1. j \in Jobs /\ Complete(j, r)  BY <1>1, <1>4, OwnJob DEF Serving
  <2>2. NextStep("markSucceeded") = "done"  BY DEF NextStep
  <2>3. request'[r].step = "done" /\ \A q \in Requests \ {r} : request'[q] = request[q]
    BY <1>1, <1>4, <2>2, GotoEffect
  <2>4. answered' = [answered EXCEPT ![j] = r]  BY <1>1, <1>4 DEF Answer
  <2>5. answered'[j] = r /\ \A i \in Jobs \ {j} : answered'[i] = answered[i]
    BY <2>1, <2>4 DEF PTypeOK
  <2>6. \A i, d : Complete(i, d)' <=> Complete(i, d)  BY <1>2 DEF Complete
  <2>7. \A q \in Requests : request'[q].step = "ingest" => Made(q)'
    BY <1>2, <2>3 DEF Serving, Made
  <2>8. \A q \in Requests : request'[q].step = "markSucceeded" => Complete(request[q].job, q)'
    <3> SUFFICES ASSUME NEW q \in Requests, request'[q].step = "markSucceeded"
                 PROVE  Complete(request[q].job, q)'
      OBVIOUS
    <3>1. request'[q] = request[q]  BY <2>3
    <3>2. Complete(request[q].job, q)  BY <3>1 DEF Serving
    <3> QED  BY <1>2, <3>1, <3>2 DEF Complete
  <2>9. \A i \in Jobs : answered'[i] = latest'[i] => Complete(i, answered[i])'
    <3> SUFFICES ASSUME NEW i \in Jobs, answered'[i] = latest'[i] PROVE Complete(i, answered[i])'
      OBVIOUS
    <3>1. Complete(i, answered'[i])  BY <1>2, <2>1, <2>5 DEF Serving
    <3> QED  BY <1>2, <3>1 DEF Complete
  <2>10. /\ \A q \in Requests : request'[q].step \notin {"upload", "reupsert"}
         /\ \A q \in Requests : ~Ended(q)' => \A i \in Jobs : answered'[i] # q
    BY <2>3, <2>5 DEF Serving, Ended
  <2> QED  BY <2>7, <2>8, <2>9, <2>10 DEF Serving
<1> QED  BY <1>1, <1>3, <1>4

LEMMA ServingStep ==
    ASSUME TypeOK, ProcessesOK, PTypeOK, DocsInPlace, HandedOver, Serving, Solitary, [PNext]_pvars
    PROVE  Serving'
<1> USE DEF Solitary
<1>1. CASE QueueStep
  BY <1>1, QueueStepServing
<1>2. ASSUME NEW p \in Workers \cup Requests, ProcessStep(p) PROVE Serving'
  BY <1>2, ProcessStepServing
<1>3. ASSUME NEW r \in Requests, NEW j \in Jobs, ReceiveDocument(r, j) PROVE Serving'
  BY <1>3, ReceiveServing
<1>4. ASSUME NEW r \in Requests, UploadRawDocument(r) PROVE Serving'
  BY <1>4 DEF UploadRawDocument, Serving
<1>5. ASSUME NEW r \in Requests, SyncUploadRawDocument(r) PROVE Serving'
  <2>1. /\ UNCHANGED <<request, output, indexed, published, latest, answered>>
        /\ Moves(r, "process", NoDoc, {}) /\ r \in Processes
    BY <1>5 DEF SyncUploadRawDocument, Upload, vars, Processes
  <2>2. doing'[r].phase = "process" /\ \A q \in Requests \ {r} : doing'[q] = doing[q]
    BY <2>1, MovesEffect DEF Processes
  <2> QED  BY <2>1, <2>2, KeepServing DEF Serving, Ended
<1>6. ASSUME NEW r \in Requests, SyncSucceeds(r) \/ RequestStops(r) PROVE Serving'
  <2>1. PICK step : /\ Goto(r, step) /\ step \in {"markSucceeded", "markFailed", "error"}
                    /\ step = "markSucceeded" => Complete(request[r].job, r)
    <3>1. CASE SyncSucceeds(r)
      <4>1. NextStep("ingest") = "markSucceeded"  BY DEF NextStep
      <4>2. /\ request[r].step = "ingest" /\ Goto(r, NextStep("ingest"))
            /\ doing[r].phase = "publish" /\ doing[r].todo = {}
        BY <3>1 DEF SyncSucceeds, StepReturns, Processed
      <4>3. Made(r)  BY <4>2 DEF Serving
      <4>4. Complete(request[r].job, r)  BY <4>2, <4>3 DEF Made, Complete
      <4> QED  BY <4>1, <4>2, <4>4
    <3>2. CASE RequestStops(r)
      BY <3>2 DEF RequestStops, StepRaises, RequestDies
    <3> QED  BY <1>6, <3>1, <3>2
  <2>2. /\ UNCHANGED <<output, indexed, published, latest, answered>> /\ Rests(r) /\ r \in Processes
        /\ ~Ended(r)
    BY <1>6 DEF SyncSucceeds, RequestStops, StepRaises, RequestDies, Processed, Processes, Ended
  <2>3. \A q \in Requests \ {r} : doing'[q] = doing[q]  BY <2>2, MovesEffect DEF Rests, Processes
  <2> QED  BY <2>1, <2>2, <2>3, GoesOnServing
<1>7. ASSUME NEW r \in Requests, Answer(r) PROVE Serving'
  BY <1>7, AnswerServing
<1>8. CASE UNCHANGED pvars
  <2>1. UNCHANGED <<output, indexed, published, latest, answered, request, doing>>
    BY <1>8 DEF pvars, vars, content
  <2> QED  BY <2>1, KeepServing DEF Serving, Ended
<1> QED  BY <1>1, <1>2, <1>3, <1>4, <1>5, <1>6, <1>7, <1>8 DEF PNext

(* With INGEST_SYNC and no worker, a job that says succeeded serves the    *)
(* stored document and all of its files, whatever uploads that raised or   *)
(* died between two files of process_prepared_document left, for any       *)
(* number of sources and of uploads that do not overlap.  Worker outcomes  *)
(* can land on the row of a later upload, which is why there is none.      *)
THEOREM SucceededIsServed == Solitary => (PSpec => []SucceededServesStored)
<1> SUFFICES ASSUME Solitary PROVE PSpec => []SucceededServesStored
  OBVIOUS
<1> DEFINE PInv == TypeOK /\ ProcessesOK /\ PTypeOK /\ DocsInPlace /\ HandedOver
<1>1. PInit => Serving
  <2>1. SUFFICES ASSUME PInit PROVE Serving
    OBVIOUS
  <2>2. \A r \in Requests : request[r].step = "new" /\ r # NoDoc
    BY <2>1 DEF PInit, Init
  <2>3. \A j \in Jobs : /\ answered[j] = NoDoc /\ indexed[j] = NoDoc
                        /\ \A f \in Files : published[j][f] = NoDoc
    BY <2>1 DEF PInit, NoTree
  <2>4. \A d : Artifacts(d) \subseteq Files  BY DEF Artifacts
  <2> QED  BY <2>2, <2>3, <2>4 DEF Serving, Complete
<1>2. PInv /\ Serving /\ [PNext]_pvars => Serving'
  BY ServingStep
<1>3. PInv /\ Serving => SucceededServesStored
  BY DEF HandedOver, Serving, Complete, SucceededServesStored
<1>4. PSpec => []PInv
  BY HandedOverAlways DEF Solitary
<1> HIDE DEF PInv
<1> QED  BY <1>1, <1>2, <1>3, <1>4, PTL DEF PSpec

----------------------------------------------------------------------------
(* Sources that are uploaded once, with any workers beside any requests:   *)
(* every copy of a source is its one document, or is not there yet, and    *)
(* what has been copied stays.  Whoever processes the job, even workers    *)
(* that lost it, adds to the same copies.                                  *)
Copy(doc, j) == doc \in {NoDoc, latest[j]}

Copies ==
    /\ \A d \in Dirs, j \in Jobs : Copy(file[d][j], j)
    /\ \A d \in Dirs, j \in Jobs, f \in Files : Copy(output[d][j][f], j)
    /\ \A j \in Jobs : Copy(raw[j], j) /\ Copy(indexed[j], j) /\ Copy(answered[j], j)
    /\ \A j \in Jobs, f \in Files : Copy(published[j][f], j)

(* What a process has copied by its phase. *)
Copied(p) ==
    LET j == JobOf(p)
        work == doing[p] IN
    /\ work.phase \in {"write", "publish"} => work.doc = latest[j]
    /\ work.phase = "write" => \A f \in Artifacts(work.doc) \ work.todo : Tree(p)[f] # NoDoc
    /\ work.phase = "publish" =>
          /\ \A f \in Artifacts(work.doc) \cup work.todo : Tree(p)[f] # NoDoc
          /\ indexed[j] # NoDoc
          /\ \A f \in Artifacts(work.doc) \ work.todo : published[j][f] # NoDoc

OneDocument ==
    /\ Copies
    /\ \A p \in Processes : Copied(p)
    /\ \A r \in Requests : request[r].job # NoJob => latest[request[r].job] = r

Stays(before, after) == before # NoDoc => after = before

Grows ==
    /\ \A d \in Dirs, j \in Jobs : Stays(file[d][j], file'[d][j])
    /\ \A d \in Dirs, j \in Jobs, f \in Files : Stays(output[d][j][f], output'[d][j][f])
    /\ \A j \in Jobs : /\ Stays(raw[j], raw'[j]) /\ Stays(indexed[j], indexed'[j])
                       /\ Stays(answered[j], answered'[j]) /\ Stays(latest[j], latest'[j])
    /\ \A j \in Jobs, f \in Files : Stays(published[j][f], published'[j][f])

(* The processes a step does not concern, or leaves without a document.    *)
Carries(p) ==
    \/ doing'[p].phase \notin {"write", "publish"}
    \/ doing'[p] = doing[p] /\ JobOf(p)' = JobOf(p)

LEMMA JobAtWork ==
    ASSUME TypeOK, ProcessesOK, DocsInPlace, NEW p \in Processes, doing[p].phase # "fetch"
    PROVE  Processing(p) /\ JobOf(p) \in Jobs /\ DirOf(p) \in Dirs
BY JobsInProcess, Places DEF DocsInPlace

LEMMA CopiedStays ==
    ASSUME TypeOK, ProcessesOK, PTypeOK, DocsInPlace, Grows,
           NEW p \in Processes, Copied(p), Carries(p)
    PROVE  Copied(p)'
<1> DEFINE j == JobOf(p)
           work == doing[p]
<1>1. CASE doing'[p].phase \notin {"write", "publish"}
  BY <1>1 DEF Copied
<1>2. CASE doing'[p].phase \in {"write", "publish"} /\ doing'[p] = doing[p] /\ JobOf(p)' = JobOf(p)
  <2>1. work.phase \in {"write", "publish"} /\ work.doc = latest[j] /\ work.doc # NoDoc
    BY <1>2 DEF Copied, PTypeOK, Processes
  <2>2. j \in Jobs /\ DirOf(p) \in Dirs  BY <2>1, JobAtWork
  <2>3. latest'[j] = latest[j]  BY <2>1, <2>2 DEF Grows, Stays
  <2>4. Artifacts(work.doc) \subseteq Files /\ work.todo \subseteq Files
    BY DEF Artifacts, PTypeOK, Processes
  <2>5. \A f \in Files : Tree(p)[f] # NoDoc => Tree(p)'[f] # NoDoc
    BY <1>2, <2>2 DEF Grows, Stays, Tree, DirOf
  <2>6. indexed[j] # NoDoc => indexed'[j] # NoDoc  BY <2>2 DEF Grows, Stays
  <2>7. \A f \in Files : published[j][f] # NoDoc => published'[j][f] # NoDoc
    BY <2>2 DEF Grows, Stays
  <2> QED  BY <1>2, <2>1, <2>3, <2>4, <2>5, <2>6, <2>7 DEF Copied
<1> QED  BY <1>1, <1>2 DEF Carries

LEMMA KeepOneDocument ==
    ASSUME TypeOK, ProcessesOK, PTypeOK, DocsInPlace, OneDocument, Copies', Grows,
           \A p \in Processes : Carries(p) \/ Copied(p)',
           \A r \in Requests : request'[r].job # NoJob =>
              request'[r].job = request[r].job \/ latest'[request'[r].job] = r
    PROVE  OneDocument'
<1>1. \A p \in Processes : Copied(p)'  BY CopiedStays DEF OneDocument
<1>2. ASSUME NEW r \in Requests, request'[r].job # NoJob PROVE latest'[request'[r].job] = r
  <2>1. CASE request'[r].job = request[r].job
    <3>1. request[r].job \in Jobs  BY <1>2, <2>1 DEF TypeOK, RequestStates
    <3>2. latest[request[r].job] = r /\ r # NoDoc  BY <1>2, <2>1, Places DEF OneDocument
    <3> QED  BY <2>1, <3>1, <3>2 DEF Grows, Stays
  <2> QED  BY <1>2, <2>1
<1> QED  BY <1>1, <1>2 DEF OneDocument

(* Steps that copy nothing. *)
LEMMA NothingCopied ==
    ASSUME Copies, UNCHANGED <<file, output, raw, indexed, published, answered, latest>>
    PROVE  Copies' /\ Grows
BY DEF Copies, Copy, Grows, Stays

LEMMA QueueStepCarries ==
    ASSUME TypeOK, ProcessesOK, DocsInPlace, QueueStep, NEW p \in Processes
    PROVE  Carries(p)
<1>1. doing' = doing  BY DEF QueueStep, content
<1> SUFFICES ASSUME doing[p].phase # "fetch" PROVE JobOf(p)' = JobOf(p)
  BY <1>1 DEF Carries
<1>2. Processing(p)  BY DEF DocsInPlace
<1>3. CASE p \in Workers
  BY <1>2, <1>3, QueueStepWorkers DEF Processing, JobOf
<1>4. CASE p \notin Workers
  <2>1. p \in Requests /\ request[p].step = "ingest"  BY <1>2, <1>4 DEF Processes, Processing
  <2>2. request'[p].step # "error"
    <3>1. Processing(p)'  BY <1>1, QueueStepPlaces DEF DocsInPlace
    <3> QED  BY <1>4, <3>1 DEF Processing
  <2>3. request'[p].job = request[p].job  BY <2>1, <2>2, QueueStepRequests
  <2> QED  BY <1>4, <2>3 DEF JobOf
<1> QED  BY <1>3, <1>4

(* The steps of processing copy the document of the job. *)
LEMMA ProcessStepCopies ==
    ASSUME TypeOK, ProcessesOK, PTypeOK, DocsInPlace, OneDocument, NEW p \in Processes, ProcessStep(p)
    PROVE  Copies' /\ Grows /\ Copied(p)'
<1> DEFINE j == JobOf(p)
           d == DirOf(p)
           work == doing[p]
<1>1. /\ work.phase # "fetch" /\ UNCHANGED <<vars, file, raw, latest, answered>>
  BY DEF ProcessStep, Parse, WriteArtifact, InsertContent, UploadAsset
<1>2. j \in Jobs /\ d \in Dirs /\ JobOf(p)' = j /\ Tree(p) = output[d][j] /\ Tree(p)' = output'[d][j]
  BY <1>1, JobAtWork DEF JobOf, vars, Tree, DirOf
<1>3. Copies /\ Copied(p)  BY DEF OneDocument
<1>4. work.phase \in {"write", "publish"} => work.doc = latest[j] /\ work.doc # NoDoc
  BY <1>3 DEF Copied, PTypeOK, Processes
<1>5. \A doc : Artifacts(doc) \subseteq Files  BY DEF Artifacts
<1>6. CASE Parse(p)
  <2>1. file[d][j] # NoDoc  BY <1>6 DEF Parse, DocsInPlace
  <2>2. file[d][j] = latest[j]  BY <1>2, <1>3, <2>1 DEF Copies, Copy
  <2>3. Moves(p, "write", latest[j], Artifacts(latest[j])) /\ UNCHANGED <<output, indexed, published>>
    BY <1>6, <2>2 DEF Parse
  <2>4. doing'[p].phase = "write" /\ doing'[p].doc = latest[j] /\ doing'[p].todo = Artifacts(latest[j])
    BY <2>3, MovesEffect
  <2>5. Copied(p)'  BY <1>1, <1>2, <2>4 DEF Copied
  <2> QED  BY <1>1, <1>3, <2>3, <2>5, NothingCopied
<1>7. CASE WriteArtifact(p)
  <2>1. PICK f \in Files : /\ output' = [output EXCEPT ![d][j][f] = work.doc]
                           /\ Moves(p, "write", work.doc, work.todo \ {f})
    BY <1>7 DEF WriteArtifact
  <2>2. work.phase = "write" /\ UNCHANGED <<indexed, published>>  BY <1>7 DEF WriteArtifact
  <2>3. /\ output'[d][j][f] = latest[j]
        /\ \A e \in Dirs, i \in Jobs, g \in Files :
              e # d \/ i # j \/ g # f => output'[e][i][g] = output[e][i][g]
    BY <1>2, <1>4, <2>1, <2>2 DEF PTypeOK
  <2>4. Copies' /\ Grows
    BY <1>1, <1>2, <1>3, <2>2, <2>3 DEF Copies, Copy, Grows, Stays
  <2>5. doing'[p].phase = "write" /\ doing'[p].doc = work.doc /\ doing'[p].todo = work.todo \ {f}
    BY <2>1, MovesEffect
  <2>6. \A g \in Artifacts(work.doc) \ doing'[p].todo : output'[d][j][g] # NoDoc
    BY <1>2, <1>3, <1>4, <1>5, <2>2, <2>3, <2>5 DEF Copied
  <2>7. Copied(p)'  BY <1>1, <1>2, <1>4, <2>2, <2>5, <2>6 DEF Copied
  <2> QED  BY <2>4, <2>7
<1>8. CASE InsertContent(p)
  <2>1. /\ work.phase = "write" /\ work.todo = {}
        /\ indexed' = [indexed EXCEPT ![j] = work.doc]
        /\ Moves(p, "publish", work.doc, {f \in Files : Tree(p)[f] # NoDoc})
        /\ UNCHANGED <<output, published>>
    BY <1>8 DEF InsertContent
  <2>2. indexed'[j] = latest[j] /\ \A i \in Jobs \ {j} : indexed'[i] = indexed[i]
    BY <1>2, <1>4, <2>1 DEF PTypeOK
  <2>3. Copies' /\ Grows
    BY <1>1, <1>3, <2>1, <2>2 DEF Copies, Copy, Grows, Stays
  <2>4. /\ doing'[p].phase = "publish" /\ doing'[p].doc = work.doc
        /\ doing'[p].todo = {f \in Files : Tree(p)[f] # NoDoc}
    BY <2>1, MovesEffect
  <2>5. \A f \in Artifacts(work.doc) : Tree(p)[f] # NoDoc  BY <1>3, <2>1 DEF Copied
  <2>6. \A f \in doing'[p].todo : output'[d][j][f] # NoDoc  BY <1>2, <2>1, <2>4
  <2>7. Artifacts(work.doc) \subseteq doing'[p].todo  BY <1>5, <2>4, <2>5
  <2>8. Copied(p)'  BY <1>1, <1>2, <1>4, <2>1, <2>2, <2>4, <2>6, <2>7 DEF Copied
  <2> QED  BY <2>3, <2>8
<1>9. CASE UploadAsset(p)
  <2>1. PICK f \in Files : /\ f \in work.todo
                           /\ published' = [published EXCEPT ![j][f] = Tree(p)[f]]
                           /\ Moves(p, "publish", work.doc, work.todo \ {f})
    BY <1>9 DEF UploadAsset, Comes
  <2>2. work.phase = "publish" /\ UNCHANGED <<output, indexed>>  BY <1>9 DEF UploadAsset
  <2>3. Tree(p)[f] = latest[j]  BY <1>2, <1>3, <2>1, <2>2 DEF Copied, Copies, Copy
  <2>4. /\ published'[j][f] = latest[j]
        /\ \A i \in Jobs, g \in Files : i # j \/ g # f => published'[i][g] = published[i][g]
    BY <1>2, <2>1, <2>3 DEF PTypeOK
  <2>5. Copies' /\ Grows
    BY <1>1, <1>2, <1>3, <2>2, <2>4 DEF Copies, Copy, Grows, Stays
  <2>6. doing'[p].phase = "publish" /\ doing'[p].doc = work.doc /\ doing'[p].todo = work.todo \ {f}
    BY <2>1, MovesEffect
  <2>7. \A g \in Artifacts(work.doc) \ doing'[p].todo : published'[j][g] # NoDoc
    BY <1>2, <1>3, <1>4, <1>5, <2>2, <2>4, <2>6 DEF Copied
  <2>8. Copied(p)'  BY <1>1, <1>2, <1>3, <1>4, <2>2, <2>6, <2>7 DEF Copied
  <2> QED  BY <2>5, <2>8
<1> QED  BY <1>6, <1>7, <1>8, <1>9 DEF ProcessStep

LEMMA DownloadCopies ==
    ASSUME TypeOK, ProcessesOK, PTypeOK, OneDocument, NEW w \in Workers, Download(w)
    PROVE  /\ Copies' /\ Grows
           /\ \A p \in Processes : Carries(p)
<1> DEFINE j == worker[w].job
<1>1. /\ raw[j] # NoDoc /\ file' = [file EXCEPT ![DirOf(w)][j] = raw[j]]
      /\ UNCHANGED <<vars, output, raw, indexed, published, latest, answered>>
      /\ Moves(w, "process", NoDoc, {}) /\ worker[w].pc = "working"
  BY DEF Download
<1>2. j \in Jobs /\ DirOf(w) \in Dirs /\ w \in Processes
  BY <1>1, Places, JobsOfProcesses DEF Processes, Active
<1>3. Copies  BY DEF OneDocument
<1>4. raw[j] = latest[j]  BY <1>1, <1>2, <1>3 DEF Copies, Copy
<1>5. /\ file'[DirOf(w)][j] = latest[j]
      /\ \A d \in Dirs, i \in Jobs : d # DirOf(w) \/ i # j => file'[d][i] = file[d][i]
  BY <1>1, <1>2, <1>4 DEF PTypeOK
<1>6. Copies' /\ Grows  BY <1>1, <1>2, <1>3, <1>5 DEF Copies, Copy, Grows, Stays
<1>7. ASSUME NEW p \in Processes PROVE Carries(p)
  <2>1. doing'[w].phase = "process" /\ (p # w => doing'[p] = doing[p])  BY <1>1, <1>2, MovesEffect
  <2> QED  BY <1>1, <2>1 DEF Carries, JobOf, vars
<1> QED  BY <1>6, <1>7

LEMMA ReceiveCopies ==
    ASSUME TypeOK, ProcessesOK, PTypeOK, DocsInPlace, OneDocument, ~Reuploads,
           NEW r \in Requests, NEW j \in Jobs, ReceiveDocument(r, j)
    PROVE  OneDocument' /\ Grows
<1>1. /\ latest[j] = NoDoc /\ request[r].step = "new"
      /\ file' = [file EXCEPT ![Api][j] = r] /\ latest' = [latest EXCEPT ![j] = r]
      /\ request' = [request EXCEPT ![r] = [@ EXCEPT !.step = "upsert", !.job = j]]
      /\ UNCHANGED <<output, raw, indexed, published, doing, answered, worker>>
  BY DEF ReceiveDocument, Receive, Stage
<1>2. /\ file'[Api][j] = r /\ latest'[j] = r
      /\ \A d \in Dirs, i \in Jobs : d # Api \/ i # j => file'[d][i] = file[d][i]
      /\ \A i \in Jobs \ {j} : latest'[i] = latest[i]
  BY <1>1, Places DEF PTypeOK
<1>3. request'[r].job = j /\ \A q \in Requests \ {r} : request'[q] = request[q]
  BY <1>1 DEF TypeOK, RequestStates
<1>4. Copies  BY DEF OneDocument
<1>5. Copies' /\ Grows  BY <1>1, <1>2, <1>4 DEF Copies, Copy, Grows, Stays
<1>6. ASSUME NEW p \in Processes PROVE Carries(p)
  <2>1. CASE p = r
    BY <1>1, <2>1 DEF Carries, DocsInPlace, Processing, Phases
  <2>2. CASE p # r
    BY <1>1, <1>3, <2>2 DEF Carries, JobOf, Processes
  <2> QED  BY <2>1, <2>2
<1>7. \A q \in Requests : request'[q].job # NoJob =>
         request'[q].job = request[q].job \/ latest'[request'[q].job] = q
  BY <1>2, <1>3
<1> QED  BY <1>5, <1>6, <1>7, KeepOneDocument

(* The raw upload finds the document of its request in place. *)
LEMMA UploadCopies ==
    ASSUME TypeOK, ProcessesOK, PTypeOK, DocsInPlace, OneDocument, NEW r \in Requests, Upload(r),
           request[r].step \in {"upload", "ingest"}
    PROVE  Copies' /\ Grows /\ raw'[request[r].job] # NoDoc
<1> DEFINE j == request[r].job
<1>1. j \in Jobs /\ j # NoJob /\ Api \in Dirs  BY JobsOfProcesses, Places, QueueAssumption
<1>2. Copies /\ file[Api][j] # NoDoc  BY <1>1 DEF OneDocument, DocsInPlace
<1>3. file[Api][j] = latest[j]  BY <1>1, <1>2 DEF Copies, Copy
<1>4. /\ raw' = [raw EXCEPT ![j] = file[Api][j]]
      /\ UNCHANGED <<file, output, indexed, published, latest, answered>>
  BY DEF Upload
<1>5. raw'[j] = latest[j] /\ \A i \in Jobs \ {j} : raw'[i] = raw[i]
  BY <1>1, <1>3, <1>4 DEF PTypeOK
<1>6. Copies' /\ Grows  BY <1>2, <1>4, <1>5 DEF Copies, Copy, Grows, Stays
<1> QED  BY <1>2, <1>3, <1>5, <1>6

LEMMA AnswerCopies ==
    ASSUME TypeOK, ProcessesOK, PTypeOK, OneDocument, NEW r \in Requests, Answer(r)
    PROVE  Copies' /\ Grows
<1> DEFINE j == request[r].job
<1>1. /\ answered' = answered \/ answered' = [answered EXCEPT ![j] = r]
      /\ UNCHANGED <<file, output, raw, indexed, published, latest>>
  BY DEF Answer
<1>2. request[r].step \in TxSteps
  BY DEF Answer, UpsertPending, MarkSucceeded, Commit, TxSteps
<1>3. j \in Jobs /\ j # NoJob  BY <1>2, JobsOfProcesses, QueueAssumption DEF TxSteps
<1>4. latest[j] = r /\ Copies  BY <1>3 DEF OneDocument
<1>5. CASE answered' = answered
  BY <1>1, <1>4, <1>5, NothingCopied
<1>6. CASE answered' = [answered EXCEPT ![j] = r]
  <2>1. answered'[j] = latest[j] /\ \A i \in Jobs \ {j} : answered'[i] = answered[i]
    BY <1>3, <1>4, <1>6 DEF PTypeOK
  <2> QED  BY <1>1, <1>4, <2>1 DEF Copies, Copy, Grows, Stays
<1> QED  BY <1>1, <1>5, <1>6

(* A request goes on, and has no document in hand before or after. *)
LEMMA GoesOnCarries ==
    ASSUME TypeOK, ProcessesOK, PTypeOK, DocsInPlace, NEW r \in Requests, NEW step, Goto(r, step),
           worker' = worker, (doing' = doing /\ request[r].step # "ingest") \/ Rests(r)
    PROVE  /\ \A p \in Processes : Carries(p)
           /\ \A q \in Requests : request'[q].job # NoJob => request'[q].job = request[q].job
<1>1. \A q \in Requests \ {r} : request'[q] = request[q]  BY GotoEffect
<1>2. \A p \in Processes \ {r} : JobOf(p)' = JobOf(p)  BY <1>1 DEF JobOf, Processes
<1>3. r \in Processes  BY DEF Processes
<1>4. CASE doing' = doing /\ request[r].step # "ingest"
  <2>1. doing[r].phase = "fetch"  BY <1>3, <1>4 DEF DocsInPlace, Processing
  <2>2. \A p \in Processes : Carries(p)  BY <1>2, <1>4, <2>1 DEF Carries
  <2> QED  BY <1>1, <2>2, GotoEffect
<1>5. CASE Rests(r)
  <2>1. doing'[r].phase = "fetch" /\ \A p \in Processes \ {r} : doing'[p] = doing[p]
    BY <1>3, <1>5, MovesEffect DEF Rests
  <2>2. \A p \in Processes : Carries(p)  BY <1>2, <2>1 DEF Carries
  <2> QED  BY <1>1, <2>2, GotoEffect
<1> QED  BY <1>4, <1>5

LEMMA OneDocumentStep ==
    ASSUME TypeOK, ProcessesOK, PTypeOK, DocsInPlace, OneDocument, ~Reuploads, [PNext]_pvars
    PROVE  OneDocument' /\ Grows
<1>1. CASE QueueStep
  <2>1. Copies' /\ Grows  BY <1>1, NothingCopied DEF QueueStep, content, OneDocument
  <2>2. \A p \in Processes : Carries(p)  BY <1>1, QueueStepCarries
  <2>3. \A r \in Requests : request'[r].job # NoJob => request'[r].job = request[r].job
    BY <1>1, QueueStepRequests
  <2> QED  BY <2>1, <2>2, <2>3, KeepOneDocument
<1>2. ASSUME NEW w \in Workers, Download(w) PROVE OneDocument' /\ Grows
  <2>1. request' = request  BY <1>2 DEF Download, vars
  <2> QED  BY <1>2, <2>1, DownloadCopies, KeepOneDocument
<1>3. ASSUME NEW w \in Workers, WorkerSucceeds(w) \/ WorkerStops(w) PROVE OneDocument' /\ Grows
  <2>1. /\ UNCHANGED <<file, output, raw, indexed, published, answered, latest, request>>
        /\ Rests(w) /\ w \in Processes
    BY <1>3 DEF WorkerSucceeds, WorkerStops, Processed, FinishProcessing, Crash, Processes
  <2>2. PICK state : Become(w, state)
    BY <1>3 DEF WorkerSucceeds, WorkerStops, FinishProcessing, Crash
  <2>3. ASSUME NEW p \in Processes PROVE Carries(p)
    <3>1. doing'[w].phase = "fetch" /\ (p # w => doing'[p] = doing[p])  BY <2>1, MovesEffect DEF Rests
    <3>2. p # w => JobOf(p)' = JobOf(p)  BY <2>1, <2>2, OthersStay DEF JobOf
    <3> QED  BY <3>1, <3>2 DEF Carries
  <2>4. Copies' /\ Grows  BY <2>1, NothingCopied DEF OneDocument
  <2> QED  BY <2>1, <2>3, <2>4, KeepOneDocument
<1>4. ASSUME NEW p \in Workers \cup Requests, ProcessStep(p) PROVE OneDocument' /\ Grows
  <2>1. p \in Processes  BY DEF Processes
  <2>2. Copies' /\ Grows /\ Copied(p)'  BY <1>4, <2>1, ProcessStepCopies
  <2>3. UNCHANGED vars
    BY <1>4 DEF ProcessStep, Parse, WriteArtifact, InsertContent, UploadAsset
  <2>4. PICK phase, doc, todo : Moves(p, phase, doc, todo)
    BY <1>4 DEF ProcessStep, Parse, WriteArtifact, InsertContent, UploadAsset
  <2>5. \A q \in Processes \ {p} : Carries(q)
    BY <2>1, <2>3, <2>4, MovesEffect DEF Carries, JobOf, vars
  <2> QED  BY <2>2, <2>3, <2>5, KeepOneDocument DEF vars
<1>5. ASSUME NEW r \in Requests, NEW j \in Jobs, ReceiveDocument(r, j) PROVE OneDocument' /\ Grows
  BY <1>5, ReceiveCopies
<1>6. ASSUME NEW r \in Requests, UploadRawDocument(r) PROVE OneDocument' /\ Grows
  <2>1. /\ request[r].step = "upload" /\ Upload(r) /\ doing' = doing /\ worker' = worker
        /\ Goto(r, NextStep("upload"))
    BY <1>6 DEF UploadRawDocument, StepReturns
  <2>2. Copies' /\ Grows  BY <2>1, UploadCopies
  <2> QED  BY <2>1, <2>2, GoesOnCarries, KeepOneDocument
<1>7. ASSUME NEW r \in Requests, SyncUploadRawDocument(r) PROVE OneDocument' /\ Grows
  <2>1. /\ request[r].step = "ingest" /\ Upload(r) /\ Moves(r, "process", NoDoc, {})
        /\ UNCHANGED vars /\ r \in Processes
    BY <1>7 DEF SyncUploadRawDocument, Processes
  <2>2. Copies' /\ Grows  BY <2>1, UploadCopies
  <2>3. \A p \in Processes : Carries(p)
    BY <2>1, MovesEffect DEF Carries, JobOf, vars
  <2> QED  BY <2>1, <2>2, <2>3, KeepOneDocument DEF vars
<1>8. ASSUME NEW r \in Requests, SyncSucceeds(r) \/ RequestStops(r) PROVE OneDocument' /\ Grows
  <2>1. PICK step : Goto(r, step)
    BY <1>8 DEF SyncSucceeds, RequestStops, StepReturns, StepRaises, RequestDies
  <2>2. /\ UNCHANGED <<file, output, raw, indexed, published, answered, latest, worker>> /\ Rests(r)
    BY <1>8 DEF SyncSucceeds, RequestStops, StepReturns, StepRaises, RequestDies, Processed
  <2>3. Copies' /\ Grows  BY <2>2, NothingCopied DEF OneDocument
  <2> QED  BY <2>1, <2>2, <2>3, GoesOnCarries, KeepOneDocument
<1>9. ASSUME NEW r \in Requests, Answer(r) PROVE OneDocument' /\ Grows
  <2>1. PICK step : Goto(r, step)
    BY <1>9 DEF Answer, UpsertPending, MarkSucceeded, Commit
  <2>2. request[r].step # "ingest" /\ worker' = worker /\ doing' = doing
    BY <1>9 DEF Answer, UpsertPending, MarkSucceeded, Commit
  <2>3. Copies' /\ Grows  BY <1>9, AnswerCopies
  <2> QED  BY <2>1, <2>2, <2>3, GoesOnCarries, KeepOneDocument
<1>10. CASE UNCHANGED pvars
  <2>1. UNCHANGED <<file, output, raw, indexed, published, answered, latest, request, worker, doing>>
    BY <1>10 DEF pvars, vars, content
  <2>2. Copies' /\ Grows  BY <2>1, NothingCopied DEF OneDocument
  <2>3. \A p \in Processes : Carries(p)  BY <2>1 DEF Carries, JobOf
  <2> QED  BY <2>1, <2>2, <2>3, KeepOneDocument
<1> QED
  BY <1>1, <1>2, <1>3, <1>4, <1>5, <1>6, <1>7, <1>8, <1>9, <1>10 DEF PNext

(* The raw object of an answered source is there, and so is that of a      *)
(* request which has delivered it.                                         *)
Stored ==
    /\ \A r \in Requests : Delivered(r) => raw[request[r].job] # NoDoc
    /\ \A j \in Jobs : answered[j] # NoDoc => raw[j] # NoDoc

LEMMA KeepStored ==
    ASSUME TypeOK, ProcessesOK, Stored, Grows, answered' = answered,
           \A r \in Requests : Delivered(r)' =>
              \/ Delivered(r) /\ request'[r].job = request[r].job
              \/ raw'[request'[r].job] # NoDoc
    PROVE  Stored'
<1>1. ASSUME NEW r \in Requests, Delivered(r)' PROVE raw'[request'[r].job] # NoDoc
  <2>1. CASE Delivered(r) /\ request'[r].job = request[r].job
    <3>1. request[r].job \in Jobs /\ raw[request[r].job] # NoDoc
      BY <2>1, DeliveredHasJob DEF Stored
    <3> QED  BY <2>1, <3>1 DEF Grows, Stays
  <2> QED  BY <1>1, <2>1
<1>2. \A j \in Jobs : answered'[j] # NoDoc => raw'[j] # NoDoc
  BY DEF Stored, Grows, Stays
<1> QED  BY <1>1, <1>2 DEF Stored

LEMMA StoredStep ==
    ASSUME TypeOK, ProcessesOK, PTypeOK, DocsInPlace, OneDocument, Stored, Grows, [PNext]_pvars
    PROVE  Stored'
<1>1. CASE QueueStep
  BY <1>1, QueueStepDelivers, KeepStored DEF QueueStep, content
<1>2. ASSUME NEW w \in Workers, Download(w) PROVE Stored'
  <2>1. w \in Processes /\ Moves(w, "process", NoDoc, {}) /\ UNCHANGED <<answered, request>>
    BY <1>2 DEF Download, vars, Processes
  <2>2. \A r \in Requests : doing'[r] = doing[r]
    BY <2>1, MovesEffect DEF Processes
  <2> QED  BY <2>1, <2>2, KeepStored DEF Delivered
<1>3. ASSUME NEW w \in Workers, WorkerSucceeds(w) \/ WorkerStops(w) PROVE Stored'
  <2>1. w \in Processes /\ Rests(w) /\ UNCHANGED <<answered, request>>
    BY <1>3 DEF WorkerSucceeds, WorkerStops, Processed, FinishProcessing, Crash, Processes
  <2>2. \A r \in Requests : doing'[r] = doing[r]
    BY <2>1, MovesEffect DEF Rests, Processes
  <2> QED  BY <2>1, <2>2, KeepStored DEF Delivered
<1>4. ASSUME NEW p \in Workers \cup Requests, ProcessStep(p) PROVE Stored'
  <2>1. /\ UNCHANGED <<answered, request>> /\ doing[p].phase # "fetch" /\ p \in Processes
    BY <1>4 DEF ProcessStep, Parse, WriteArtifact, InsertContent, UploadAsset, vars, Processes
  <2>2. PICK phase, doc, todo : Moves(p, phase, doc, todo)
    BY <1>4 DEF ProcessStep, Parse, WriteArtifact, InsertContent, UploadAsset
  <2>3. \A q \in Processes \ {p} : doing'[q] = doing[q]  BY <2>1, <2>2, MovesEffect
  <2> QED  BY <2>1, <2>3, KeepStored DEF Delivered, Processes
<1>5. ASSUME NEW r \in Requests, NEW j \in Jobs, ReceiveDocument(r, j) PROVE Stored'
  <2>1. /\ UNCHANGED <<answered, doing>>
        /\ request' = [request EXCEPT ![r] = [@ EXCEPT !.step = "upsert", !.job = j]]
    BY <1>5 DEF ReceiveDocument, Receive
  <2>2. request'[r].step = "upsert" /\ \A q \in Requests \ {r} : request'[q] = request[q]
    BY <2>1 DEF TypeOK, RequestStates
  <2> QED  BY <2>1, <2>2, KeepStored DEF Delivered
<1>6. ASSUME NEW r \in Requests, UploadRawDocument(r) PROVE Stored'
  <2>1. /\ request[r].step = "upload" /\ Upload(r) /\ doing' = doing
        /\ Goto(r, NextStep("upload")) /\ answered' = answered
    BY <1>6 DEF UploadRawDocument, StepReturns, Upload
  <2>2. NextStep("upload") = "reupsert"  BY DEF NextStep
  <2>3. request'[r].job = request[r].job /\ \A q \in Requests \ {r} : request'[q] = request[q]
    BY <2>1, <2>2, GotoEffect
  <2>4. raw'[request[r].job] # NoDoc  BY <2>1, UploadCopies
  <2> QED  BY <2>1, <2>3, <2>4, KeepStored DEF Delivered
<1>7. ASSUME NEW r \in Requests, SyncUploadRawDocument(r) PROVE Stored'
  <2>1. /\ request[r].step = "ingest" /\ Upload(r) /\ Moves(r, "process", NoDoc, {})
        /\ UNCHANGED <<answered, request>> /\ r \in Processes
    BY <1>7 DEF SyncUploadRawDocument, Upload, vars, Processes
  <2>2. raw'[request[r].job] # NoDoc  BY <2>1, UploadCopies
  <2>3. \A q \in Requests \ {r} : doing'[q] = doing[q]  BY <2>1, MovesEffect DEF Processes
  <2> QED  BY <2>1, <2>2, <2>3, KeepStored DEF Delivered
<1>8. ASSUME NEW r \in Requests, SyncSucceeds(r) \/ RequestStops(r) PROVE Stored'
  <2>1. PICK step : /\ Goto(r, step) /\ step \in {"markSucceeded", "markFailed", "error"}
                    /\ step = "markSucceeded" => Delivered(r)
    <3>1. CASE SyncSucceeds(r)
      <4>1. NextStep("ingest") = "markSucceeded"  BY DEF NextStep
      <4>2. request[r].step = "ingest" /\ doing[r].phase # "fetch" /\ Goto(r, NextStep("ingest"))
        BY <3>1 DEF SyncSucceeds, StepReturns, Processed
      <4> QED  BY <4>1, <4>2 DEF Delivered
    <3>2. CASE RequestStops(r)
      BY <3>2 DEF RequestStops, StepRaises, RequestDies
    <3> QED  BY <1>8, <3>1, <3>2
  <2>2. answered' = answered /\ Rests(r) /\ r \in Processes
    BY <1>8 DEF SyncSucceeds, RequestStops, Processed, Processes
  <2>3. \A q \in Requests \ {r} : doing'[q] = doing[q]  BY <2>2, MovesEffect DEF Rests, Processes
  <2>4. /\ \A q \in Requests \ {r} : request'[q] = request[q]
        /\ request'[r].step = step /\ (step = "markSucceeded" => request'[r].job = request[r].job)
    BY <2>1, GotoEffect
  <2> QED  BY <2>1, <2>2, <2>3, <2>4, KeepStored DEF Delivered
<1>9. ASSUME NEW r \in Requests, Answer(r) PROVE Stored'
  <2>1. PICK step \in {"upsert", "reupsert", "markSucceeded"} :
           request[r].step = step /\ Goto(r, NextStep(step))
    BY <1>9 DEF Answer, UpsertPending, MarkSucceeded, Commit
  <2>2. UNCHANGED <<raw, doing>>  BY <1>9 DEF Answer
  <2>3. /\ NextStep(step) \in {"markProcessing", "upload", "done"}
        /\ \A q \in Requests \ {r} : request'[q] = request[q]
        /\ request'[r].step = NextStep(step)
    BY <2>1, GotoEffect DEF NextStep
  <2>4. \A q \in Requests : Delivered(q)' => raw'[request'[q].job] # NoDoc
    BY <2>2, <2>3 DEF Delivered, Stored
  <2>5. \A j \in Jobs : answered'[j] # answered[j] => raw[j] # NoDoc
    <3>1. answered' = answered \/ Delivered(r)  BY <1>9, <2>1 DEF Answer, Delivered
    <3>2. answered' = answered \/ answered' = [answered EXCEPT ![request[r].job] = r]
      BY <1>9 DEF Answer
    <3> QED  BY <3>1, <3>2 DEF Stored, PTypeOK
  <2> QED  BY <2>2, <2>4, <2>5 DEF Stored
<1>10. CASE UNCHANGED pvars
  BY <1>10, KeepStored DEF Delivered, pvars, vars, content
<1> QED
  BY <1>1, <1>2, <1>3, <1>4, <1>5, <1>6, <1>7, <1>8, <1>9, <1>10 DEF PNext

(* The document of the job is in the index, and its files in the bucket;   *)
(* whoever is about to say succeeded has seen to it.                       *)
Served(j) ==
    /\ latest[j] # NoDoc /\ indexed[j] # NoDoc
    /\ \A f \in Artifacts(latest[j]) : published[j][f] # NoDoc

Succeeding(w) == worker[w].pc \in {"succeeded", "writingSucceeded"}

Outcomes ==
    /\ \A w \in Workers : Succeeding(w) => Served(worker[w].job)
    /\ \A r \in Requests : request[r].step = "markSucceeded" => Served(request[r].job)
    /\ \A j \in Jobs : row[j].status = "succeeded" => Served(j)

(* Who writes succeeded. *)
SucceededBy(j) ==
    \/ row[j].status = "succeeded"
    \/ \E w \in Workers : Succeeding(w) /\ worker[w].job = j
    \/ \E r \in Requests : request[r].step = "markSucceeded" /\ request[r].job = j

LEMMA ServedStays ==
    ASSUME Grows, NEW j \in Jobs, Served(j)
    PROVE  /\ latest'[j] # NoDoc /\ indexed'[j] # NoDoc
           /\ \A f \in Artifacts(latest'[j]) : published'[j][f] # NoDoc
BY DEF Served, Grows, Stays, Artifacts

LEMMA KeepOutcomes ==
    ASSUME TypeOK, ProcessesOK, Outcomes, Grows,
           \A w \in Workers : Succeeding(w)' =>
              /\ worker'[w].job = worker[w].job /\ worker[w].job \in Jobs
              /\ Succeeding(w) \/ Served(worker[w].job),
           \A r \in Requests : request'[r].step = "markSucceeded" =>
              /\ request'[r].job = request[r].job /\ request[r].job \in Jobs
              /\ request[r].step = "markSucceeded" \/ Served(request[r].job),
           \A j \in Jobs : row'[j].status = "succeeded" => SucceededBy(j)
    PROVE  Outcomes'
<1>1. ASSUME NEW w \in Workers, Succeeding(w)' PROVE Served(worker[w].job)'
  <2>1. worker'[w].job = worker[w].job /\ worker[w].job \in Jobs /\ Served(worker[w].job)
    BY <1>1 DEF Outcomes
  <2> QED  BY <2>1, ServedStays DEF Served
<1>2. ASSUME NEW r \in Requests, request'[r].step = "markSucceeded" PROVE Served(request[r].job)'
  <2>1. request'[r].job = request[r].job /\ request[r].job \in Jobs /\ Served(request[r].job)
    BY <1>2 DEF Outcomes
  <2> QED  BY <2>1, ServedStays DEF Served
<1>3. ASSUME NEW j \in Jobs, row'[j].status = "succeeded" PROVE Served(j)'
  <2>1. Served(j)  BY <1>3 DEF Outcomes, SucceededBy
  <2> QED  BY <2>1, ServedStays DEF Served
<1> QED  BY <1>1, <1>2, <1>3 DEF Outcomes

(* Steps of the queue. *)
LEMMA QueueStepSucceeding ==
    ASSUME TypeOK, ProcessesOK, QueueStep, NEW w \in Workers, Succeeding(w)'
    PROVE  Succeeding(w) /\ worker'[w].job = worker[w].job
<1>1. CASE worker' = worker
  BY <1>1 DEF Succeeding
<1>2. ASSUME NEW v \in Workers, NEW state, Become(v, state),
             state.pc \in {"working", "idle", "writingFailed"}
      PROVE  Succeeding(w) /\ worker'[w].job = worker[w].job
  BY <1>2, OthersStay DEF Succeeding
<1>3. ASSUME NEW v \in Workers, HeartbeatRead(v) \/ HeartbeatWrite(v)
      PROVE  Succeeding(w) /\ worker'[w].job = worker[w].job
  <2>1. PICK b \in BOOLEAN : Become(v, [worker[v] EXCEPT !.beating = b])
    BY <1>3 DEF HeartbeatRead, HeartbeatWrite
  <2>2. worker'[w] \in {worker[w], [worker[w] EXCEPT !.beating = b]}  BY <2>1, OthersStay
  <2>3. worker'[w].pc = worker[w].pc /\ worker'[w].job = worker[w].job
    BY <2>2 DEF TypeOK, WorkerStates
  <2> QED  BY <2>3 DEF Succeeding
<1>4. ASSUME NEW v \in Workers, MarkRead(v)
      PROVE  Succeeding(w) /\ worker'[w].job = worker[w].job
  BY <1>4, OthersStay DEF MarkRead, Succeeding, WorkerAt
<1>5. ASSUME NEW v \in Workers, Claim(v) \/ MarkWrite(v) \/ MarkRaises(v) \/ Restart(v)
      PROVE  Succeeding(w) /\ worker'[w].job = worker[w].job
  <2>1. CASE \E j : Become(v, WorkerAt("working", j))
    BY <1>2, <2>1 DEF WorkerAt
  <2>2. CASE Become(v, WorkerAt("idle", NoJob))
    BY <1>2, <2>2 DEF WorkerAt
  <2> QED
    BY <1>1, <1>5, <2>1, <2>2 DEF Claim, ClaimNextPending, ClaimNothing, MarkWrite, MarkRaises, Restart
<1> QED
  BY <1>1, <1>3, <1>4, <1>5 DEF QueueStep, LeaseExpires, GetJob, InsertJob, InsertConflict,
     MarkProcessing, MarkFailed, Commit

LEMMA CommittedStatus ==
    ASSUME TypeOK, NEW r \in Requests, NEW step, NEW assigned, Commit(r, step, assigned),
           NEW j \in Jobs, row'[j].status = "succeeded"
    PROVE  row[j].status = "succeeded" \/ (assigned.status = "succeeded" /\ request[r].job = j)
<1>1. CASE request[r].job = j
  <2>1. row'[j] = Flush(row[j], request[r].loaded, assigned)  BY <1>1 DEF Commit, TypeOK
  <2>2. row'[j].status = Written(row[j].status, request[r].loaded.status, assigned.status)
    BY <2>1 DEF Flush
  <2> QED  BY <1>1, <2>2 DEF Written
<1>2. CASE request[r].job # j
  BY <1>2 DEF Commit, TypeOK
<1> QED  BY <1>1, <1>2

LEMMA SucceededRows ==
    ASSUME TypeOK, ProcessesOK, QueueStep \/ (\E r \in Requests : Answer(r)),
           NEW j \in Jobs, row'[j].status = "succeeded"
    PROVE  SucceededBy(j)
<1> SUFFICES ASSUME row[j].status # "succeeded" PROVE SucceededBy(j)
  BY DEF SucceededBy
<1>1. row' # row  OBVIOUS
<1>2. row[j] \in Rows  BY DEF TypeOK
<1>3. ASSUME NEW w \in Workers, Claim(w) PROVE FALSE
  <2>1. FailedAfterExhaustedAttempts(row[j]).status = "failed"  BY <1>2, RowFields DEF Beats
  <2>2. ClaimedBy(row[j], w).status = "processing"  BY DEF ClaimedBy
  <2> QED  BY <1>3, <2>1, <2>2, ClaimRows, GiveUpRows DEF Claim
<1>4. ASSUME NEW i, NEW beat \in Beats, row' = [row EXCEPT ![i] = Beat(@, beat)] PROVE FALSE
  BY <1>2, <1>4, RowFields DEF TypeOK
<1>5. ASSUME NEW w \in Workers, MarkWrite(w) PROVE SucceededBy(j)
  <2>1. worker[w].pc \in {"writingSucceeded", "writingFailed"}
        /\ row' = [row EXCEPT ![worker[w].job] =
                     Released(@, IF worker[w].pc = "writingSucceeded" THEN "succeeded" ELSE "failed")]
    BY <1>5 DEF MarkWrite
  <2>2. worker[w].job = j  BY <2>1 DEF TypeOK
  <2>3. worker[w].pc = "writingSucceeded"  BY <1>2, <2>1, <2>2, RowFields DEF TypeOK
  <2> QED  BY <2>2, <2>3 DEF SucceededBy, Succeeding
<1>6. ASSUME NEW r \in Requests, InsertJob(r) PROVE FALSE
  BY <1>6 DEF InsertJob, ResetPending, TypeOK
<1>7. ASSUME NEW r \in Requests, UpsertPending(r) \/ MarkProcessing(r) \/ MarkFailed(r) PROVE FALSE
  <2>1. request[r].loaded \in Rows  BY DEF TypeOK, RequestStates
  <2>2. PICK step, assigned : Commit(r, step, assigned) /\ assigned.status \in {"pending", "processing", "failed"}
    BY <1>7, <2>1, RowFields DEF UpsertPending, MarkProcessing, MarkFailed, ResetPending, SyncClaimed
  <2> QED  BY <2>2, CommittedStatus
<1>8. ASSUME NEW r \in Requests, MarkSucceeded(r) PROVE SucceededBy(j)
  <2>1. request[r].job = j /\ request[r].step = "markSucceeded"
    BY <1>8, CommittedStatus DEF MarkSucceeded, Commit
  <2> QED  BY <2>1 DEF SucceededBy
<1>9. ASSUME NEW w \in Workers, HeartbeatWrite(w) PROVE FALSE
  BY <1>4, <1>9 DEF HeartbeatWrite, Beats
<1>10. ASSUME NEW i \in Jobs, LeaseExpires(i) PROVE FALSE
  BY <1>4, <1>10 DEF LeaseExpires, Beats
<1> QED
  BY <1>1, <1>3, <1>5, <1>6, <1>7, <1>8, <1>9, <1>10
     DEF QueueStep, Answer, HeartbeatRead, MarkRead, MarkRaises, Restart, GetJob, InsertConflict

LEMMA OutcomesStep ==
    ASSUME TypeOK, ProcessesOK, PTypeOK, DocsInPlace, OneDocument, Outcomes, Grows, [PNext]_pvars
    PROVE  Outcomes'
<1> DEFINE WorkersKeep == \A w \in Workers : Succeeding(w)' =>
                             worker'[w].job = worker[w].job /\ Succeeding(w)
           RequestsKeep == \A r \in Requests : request'[r].step = "markSucceeded" =>
                              request'[r].job = request[r].job /\ request[r].step = "markSucceeded"
<1>1. ASSUME WorkersKeep, RequestsKeep,
             \A j \in Jobs : row'[j].status = "succeeded" => SucceededBy(j)
      PROVE  Outcomes'
  <2>1. \A w \in Workers : Succeeding(w) => worker[w].job \in Jobs
    BY JobsOfProcesses DEF Succeeding, Active
  <2>2. \A r \in Requests : request[r].step = "markSucceeded" => request[r].job \in Jobs
    BY JobsOfProcesses
  <2> QED  BY <1>1, <2>1, <2>2, KeepOutcomes
<1>2. ASSUME NEW p \in Processes, doing[p].phase = "publish", doing[p].todo = {}
      PROVE  Served(JobOf(p)) /\ JobOf(p) \in Jobs
  <2>1. Copied(p) /\ JobOf(p) \in Jobs  BY <1>2, JobAtWork DEF OneDocument
  <2>2. doing[p].doc = latest[JobOf(p)] /\ doing[p].doc # NoDoc
    BY <1>2, <2>1 DEF Copied, PTypeOK, Processes
  <2> QED  BY <1>2, <2>1, <2>2 DEF Copied, Served
<1>3. ASSUME row' = row PROVE \A j \in Jobs : row'[j].status = "succeeded" => SucceededBy(j)
  BY <1>3 DEF SucceededBy
<1>4. ASSUME worker' = worker PROVE WorkersKeep
  BY <1>4 DEF Succeeding
<1>5. CASE QueueStep
  <2>1. WorkersKeep  BY <1>5, QueueStepSucceeding
  <2>2. RequestsKeep  BY <1>5, QueueStepRequests
  <2> QED  BY <1>1, <1>5, <2>1, <2>2, SucceededRows
<1>6. ASSUME UNCHANGED <<row, worker, request>> PROVE Outcomes'
  BY <1>1, <1>3, <1>4, <1>6
<1>7. ASSUME NEW w \in Workers, WorkerSucceeds(w) PROVE Outcomes'
  <2>1. /\ worker[w].pc = "working" /\ Become(w, WorkerAt("succeeded", worker[w].job))
        /\ UNCHANGED <<row, request>> /\ doing[w].phase = "publish" /\ doing[w].todo = {}
    BY <1>7 DEF WorkerSucceeds, FinishProcessing, Processed
  <2>2. Served(worker[w].job) /\ worker[w].job \in Jobs  BY <1>2, <2>1 DEF Processes, JobOf
  <2>3. \A v \in Workers : worker'[v] = IF v = w THEN WorkerAt("succeeded", worker[w].job) ELSE worker[v]
    BY <2>1, OthersStay
  <2>4. \A v \in Workers : Succeeding(v)' =>
           /\ worker'[v].job = worker[v].job /\ worker[v].job \in Jobs
           /\ Succeeding(v) \/ Served(worker[v].job)
    BY <2>2, <2>3, JobsOfProcesses DEF Succeeding, WorkerAt, Active
  <2>5. \A r \in Requests : request[r].step = "markSucceeded" => request[r].job \in Jobs
    BY JobsOfProcesses
  <2> QED  BY <1>3, <2>1, <2>4, <2>5, KeepOutcomes
<1>8. ASSUME NEW w \in Workers, WorkerStops(w) PROVE Outcomes'
  <2>1. /\ \E state : Become(w, state) /\ state.pc \in {"failed", "down"}
        /\ UNCHANGED <<row, request>>
    BY <1>8 DEF WorkerStops, FinishProcessing, Crash, WorkerAt
  <2>2. WorkersKeep  BY <2>1, OthersStay DEF Succeeding
  <2> QED  BY <1>1, <1>3, <2>1, <2>2
<1>9. ASSUME NEW r \in Requests, NEW j \in Jobs, ReceiveDocument(r, j) PROVE Outcomes'
  <2>1. /\ UNCHANGED <<row, worker>>
        /\ request' = [request EXCEPT ![r] = [@ EXCEPT !.step = "upsert", !.job = j]]
    BY <1>9 DEF ReceiveDocument, Receive
  <2>2. RequestsKeep  BY <2>1 DEF TypeOK, RequestStates
  <2> QED  BY <1>1, <1>3, <1>4, <2>1, <2>2
<1>10. ASSUME NEW r \in Requests, NEW step, Goto(r, step), step # "markSucceeded",
              worker' = worker, row' = row
       PROVE  Outcomes'
  <2>1. RequestsKeep  BY <1>10, GotoEffect
  <2> QED  BY <1>1, <1>3, <1>4, <1>10, <2>1
<1>11. ASSUME NEW r \in Requests, UploadRawDocument(r) \/ RequestStops(r) PROVE Outcomes'
  <2>1. NextStep("upload") = "reupsert"  BY DEF NextStep
  <2>2. worker' = worker /\ row' = row /\ \E step : Goto(r, step) /\ step # "markSucceeded"
    BY <1>11, <2>1 DEF UploadRawDocument, RequestStops, StepReturns, StepRaises, RequestDies
  <2> QED  BY <1>10, <2>2
<1>12. ASSUME NEW r \in Requests, SyncSucceeds(r) PROVE Outcomes'
  <2>1. NextStep("ingest") = "markSucceeded"  BY DEF NextStep
  <2>2. /\ UNCHANGED <<row, worker>> /\ Goto(r, "markSucceeded")
        /\ doing[r].phase = "publish" /\ doing[r].todo = {}
    BY <1>12, <2>1 DEF SyncSucceeds, StepReturns, Processed
  <2>3. r \in Processes /\ JobOf(r) = request[r].job  BY DEF Processes, JobOf
  <2>4. Served(request[r].job) /\ request[r].job \in Jobs  BY <1>2, <2>2, <2>3
  <2>5. \A q \in Requests : request'[q].step = "markSucceeded" =>
           /\ request'[q].job = request[q].job /\ request[q].job \in Jobs
           /\ request[q].step = "markSucceeded" \/ Served(request[q].job)
    BY <2>2, <2>4, GotoEffect, JobsOfProcesses
  <2>6. \A w \in Workers : Succeeding(w) => worker[w].job \in Jobs
    BY JobsOfProcesses DEF Succeeding, Active
  <2> QED  BY <1>3, <1>4, <2>2, <2>5, <2>6, KeepOutcomes
<1>13. ASSUME NEW r \in Requests, Answer(r) PROVE Outcomes'
  <2>1. PICK step \in {"upsert", "reupsert", "markSucceeded"} : Goto(r, NextStep(step))
    BY <1>13 DEF Answer, UpsertPending, MarkSucceeded, Commit
  <2>2. NextStep(step) # "markSucceeded"  BY DEF NextStep
  <2>3. RequestsKeep  BY <2>1, <2>2, GotoEffect
  <2>4. worker' = worker  BY <1>13 DEF Answer, UpsertPending, MarkSucceeded, Commit
  <2> QED  BY <1>1, <1>4, <1>13, <2>3, <2>4, SucceededRows
<1> QED
  BY <1>5, <1>6, <1>7, <1>8, <1>9, <1>11, <1>12, <1>13
     DEF PNext, Download, ProcessStep, Parse, WriteArtifact, InsertContent, UploadAsset,
         SyncUploadRawDocument, pvars, vars

(* Where a source is uploaded once, what was answered is stored, and a job *)
(* that says succeeded serves it with all of its files: for any number of  *)
(* sources, requests and workers, through lost leases, crashes between two *)
(* files and workers that go on with a job another one runs by now, and    *)
(* whether or not they share the API's input directory.                    *)
THEOREM UploadedOnceIsServed ==
    ~Reuploads => (PSpec => [](AnsweredDocumentStored /\ SucceededServesStored))
<1> SUFFICES ASSUME ~Reuploads PROVE PSpec => [](AnsweredDocumentStored /\ SucceededServesStored)
  OBVIOUS
<1> DEFINE PInv == TypeOK /\ ProcessesOK /\ PTypeOK /\ DocsInPlace
           Once == OneDocument /\ Stored /\ Outcomes
<1>1. PInit => Once
  <2> SUFFICES ASSUME PInit PROVE Once
    OBVIOUS
  <2>1. /\ \A p \in Processes : doing[p].phase = "fetch"
        /\ \A r \in Requests : request[r].job = NoJob /\ request[r].step = "new"
        /\ \A w \in Workers : worker[w].pc = "idle"
        /\ \A j \in Jobs : row[j].status = "absent"
    BY DEF PInit, Init, At, Processes, WorkerAt, AbsentRow
  <2>2. Copies  BY DEF PInit, Copies, Copy, NoTree
  <2>3. \A j \in Jobs : answered[j] = NoDoc  BY DEF PInit
  <2> QED  BY <2>1, <2>2, <2>3 DEF OneDocument, Copied, Stored, Delivered, Outcomes, Succeeding
<1>2. PInv /\ Once /\ [PNext]_pvars => Once'
  BY OneDocumentStep, StoredStep, OutcomesStep
<1>3. PInv /\ Once => AnsweredDocumentStored /\ SucceededServesStored
  <2> SUFFICES ASSUME PInv, Once PROVE AnsweredDocumentStored /\ SucceededServesStored
    OBVIOUS
  <2>1. ASSUME NEW j \in Jobs, answered[j] = latest[j] PROVE raw[j] = latest[j]
    BY <2>1 DEF OneDocument, Copies, Copy, Stored
  <2>2. ASSUME NEW j \in Jobs, Served(j)
        PROVE  indexed[j] = latest[j] /\ \A f \in Artifacts(latest[j]) : published[j][f] = latest[j]
    BY <2>2 DEF Served, OneDocument, Copies, Copy, Artifacts
  <2> QED  BY <2>1, <2>2 DEF AnsweredDocumentStored, SucceededServesStored, Outcomes
<1>4. PSpec => []PInv
  BY PInvariant
<1> HIDE DEF PInv, Once
<1> QED  BY <1>1, <1>2, <1>3, <1>4, PTL DEF PSpec
=============================================================================
