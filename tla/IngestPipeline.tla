--------------------------- MODULE IngestPipeline ---------------------------
(***************************************************************************)
(* What the ingest queue is for: the bytes of a document, from the upload  *)
(* to the index.  Extends IngestQueue with the staged files, the raw       *)
(* objects in S3, the parsed output file by file and the index, and with   *)
(* the steps of process_prepared_document.  A document is named by the     *)
(* request that uploads it; all uploads of one source carry the same file  *)
(* name, so they share the staged path, the raw key and the paths of the   *)
(* parsed output.                                                          *)
(***************************************************************************)
EXTENDS IngestQueue

CONSTANTS
    NoDoc,          \* no document
    Api,            \* the API's input directory
    SharedInputs,   \* the API and the workers mount one RAG_INPUT_DIR
    Reuploads,      \* a source may be uploaded more than once
    Overlapping,    \* requests for one source may overlap
    Illustrated     \* the documents whose parsed output has a figure

ASSUME PipelineAssumption ==
    /\ NoDoc \notin Requests
    /\ Api \notin Workers
    /\ Workers \cap Requests = {}
    /\ SharedInputs \in BOOLEAN
    /\ Reuploads \in BOOLEAN
    /\ Overlapping \in BOOLEAN
    /\ Illustrated \subseteq Requests

VARIABLES
    file,       \* per data directory: the staged file of each job
    output,     \* per data directory: the output tree of each job, a document
                \* per file
    raw,        \* the raw object of each job in S3
    indexed,    \* the document last inserted into the RAG storages
    published,  \* the output tree of each job in S3
    doing,      \* where each worker and each request stands in its processing
    latest,     \* history: the last request received for the job
    answered    \* history: the last request answered with success

content == <<file, output, raw, indexed, published, doing, latest, answered>>
pvars == <<vars, content>>

Docs == Requests \cup {NoDoc}
Dirs == IF SharedInputs THEN {Api} ELSE {Api} \cup Workers
DirOf(p) == IF p \in Workers /\ ~SharedInputs THEN p ELSE Api

(* The files of an output tree.  TextFirstParser writes a content list and *)
(* a Markdown file; a document that goes to the fallback parser may leave  *)
(* more, here a figure.                                                    *)
Files == {"figure", "content_list", "markdown"}
Artifacts(doc) == IF doc \in Illustrated THEN Files ELSE Files \ {"figure"}
NoTree == [f \in Files |-> NoDoc]

(* The orders in which the parser writes them, and sorted(rglob("*")).     *)
WriteOrder == [figure |-> 1, content_list |-> 2, markdown |-> 3]
UploadOrder == [figure |-> 1, markdown |-> 2, content_list |-> 3]
Comes(f, todo, order) == f \in todo /\ \A g \in todo : order[f] <= order[g]

(* doing[p].doc is the document p has read from its staged file, and todo  *)
(* the files it has still to write, or to upload.                          *)
Phases == {"fetch", "process", "write", "publish"}
At(phase, doc, todo) == [phase |-> phase, doc |-> doc, todo |-> todo]
Moves(p, phase, doc, todo) == doing' = [doing EXCEPT ![p] = At(phase, doc, todo)]
Rests(p) == Moves(p, "fetch", NoDoc, {})

PInit ==
    /\ Init
    /\ file = [d \in Dirs |-> [j \in Jobs |-> NoDoc]]
    /\ output = [d \in Dirs |-> [j \in Jobs |-> NoTree]]
    /\ raw = [j \in Jobs |-> NoDoc]
    /\ indexed = [j \in Jobs |-> NoDoc]
    /\ published = [j \in Jobs |-> NoTree]
    /\ doing = [p \in Workers \cup Requests |-> At("fetch", NoDoc, {})]
    /\ latest = [j \in Jobs |-> NoDoc]
    /\ answered = [j \in Jobs |-> NoDoc]

----------------------------------------------------------------------------
(* Steps of the queue that touch no document. *)
QueueStep ==
    /\ \/ \E w \in Workers : \/ Claim(w) \/ HeartbeatRead(w) \/ HeartbeatWrite(w)
                             \/ MarkRead(w) \/ MarkWrite(w) \/ MarkRaises(w) \/ Restart(w)
       \/ \E r \in Requests : \/ GetJob(r) \/ InsertJob(r) \/ InsertConflict(r)
                              \/ MarkProcessing(r) \/ MarkFailed(r)
       \/ \E j \in Jobs : LeaseExpires(j)
    /\ UNCHANGED content

(* download_raw_document writes the object to the staged path. *)
Download(w) ==
    LET j == worker[w].job IN
    /\ worker[w].pc = "working" /\ doing[w].phase = "fetch"
    /\ raw[j] # NoDoc
    /\ file' = [file EXCEPT ![DirOf(w)][j] = raw[j]]
    /\ Moves(w, "process", NoDoc, {})
    /\ UNCHANGED <<vars, output, raw, indexed, published, latest, answered>>

JobOf(p) == IF p \in Workers THEN worker[p].job ELSE request[p].job
Processing(p) == IF p \in Workers THEN worker[p].pc = "working" ELSE request[p].step = "ingest"

(* runtime.process_document_complete: the parser reads the staged file,    *)
Parse(p) ==
    LET doc == file[DirOf(p)][JobOf(p)] IN
    /\ Processing(p) /\ doing[p].phase = "process"
    /\ Moves(p, "write", doc, Artifacts(doc))
    /\ UNCHANGED <<vars, file, output, raw, indexed, published, latest, answered>>

(* writes its artifacts over those of earlier documents,                   *)
Tree(p) == output[DirOf(p)][JobOf(p)]

WriteArtifact(p) ==
    /\ Processing(p) /\ doing[p].phase = "write"
    /\ \E f \in Files :
        /\ Comes(f, doing[p].todo, WriteOrder)
        /\ output' = [output EXCEPT ![DirOf(p)][JobOf(p)][f] = doing[p].doc]
        /\ Moves(p, "write", doing[p].doc, doing[p].todo \ {f})
    /\ UNCHANGED <<vars, file, raw, indexed, published, latest, answered>>

(* and the content goes into the storages.  Then upload_output_tree lists  *)
(* the files of the tree, whatever document they are of.                   *)
InsertContent(p) ==
    /\ Processing(p) /\ doing[p].phase = "write" /\ doing[p].todo = {}
    /\ indexed' = [indexed EXCEPT ![JobOf(p)] = doing[p].doc]
    /\ Moves(p, "publish", doing[p].doc, {f \in Files : Tree(p)[f] # NoDoc})
    /\ UNCHANGED <<vars, file, output, raw, published, latest, answered>>

(* Mutant: a file that is already in the bucket is not sent again. *)
UploadAssetOnce(p) ==
    /\ Processing(p) /\ doing[p].phase = "publish"
    /\ \E f \in Files :
        /\ Comes(f, doing[p].todo, UploadOrder)
        /\ published' = [published EXCEPT ![JobOf(p)][f] = IF @ = NoDoc THEN Tree(p)[f] ELSE @]
        /\ Moves(p, "publish", doing[p].doc, doing[p].todo \ {f})
    /\ UNCHANGED <<vars, file, output, raw, indexed, latest, answered>>

(* _upload_file of the next file, as it is in the tree by now. *)
UploadAsset(p) ==
    /\ Processing(p) /\ doing[p].phase = "publish"
    /\ \E f \in Files :
        /\ Comes(f, doing[p].todo, UploadOrder)
        /\ published' = [published EXCEPT ![JobOf(p)][f] = Tree(p)[f]]
        /\ Moves(p, "publish", doing[p].doc, doing[p].todo \ {f})
    /\ UNCHANGED <<vars, file, output, raw, indexed, latest, answered>>

ProcessStep(p) == Parse(p) \/ WriteArtifact(p) \/ InsertContent(p) \/ UploadAsset(p)

(* process_prepared_document returns once all assets are uploaded. *)
Processed(p) ==
    /\ doing[p].phase = "publish" /\ doing[p].todo = {}
    /\ Rests(p)
    /\ UNCHANGED <<file, output, raw, indexed, published, latest, answered>>

(* Mutant: the outcome does not wait for the parsed assets. *)
WorkerSucceedsEarly(w) ==
    /\ FinishProcessing(w, "succeeded")
    /\ doing[w].phase = "publish"
    /\ Rests(w)
    /\ UNCHANGED <<file, output, raw, indexed, published, latest, answered>>

WorkerSucceeds(w) == FinishProcessing(w, "succeeded") /\ Processed(w)

(* A download, a runtime or an asset upload that raises, at any phase. *)
WorkerStops(w) ==
    /\ FinishProcessing(w, "failed") \/ Crash(w)
    /\ Rests(w)
    /\ UNCHANGED <<file, output, raw, indexed, published, latest, answered>>

----------------------------------------------------------------------------
InFlight(j) == \E r \in Requests : request[r].job = j

(* Mutant: the upload is not copied to the staged path. *)
StageNothing(r, j) == UNCHANGED file

(* prepare_document: shutil.copy2 to the staged path. *)
Stage(r, j) == file' = [file EXCEPT ![Api][j] = r]

ReceiveDocument(r, j) ==
    /\ Receive(r, j)
    /\ Reuploads \/ latest[j] = NoDoc
    /\ Overlapping \/ ~InFlight(j)
    /\ Stage(r, j)
    /\ latest' = [latest EXCEPT ![j] = r]
    /\ UNCHANGED <<output, raw, indexed, published, doing, answered>>

(* upload_raw_document sends what the staged path holds now. *)
Upload(r) ==
    LET j == request[r].job IN
    /\ raw' = [raw EXCEPT ![j] = file[Api][j]]
    /\ UNCHANGED <<file, output, indexed, published, latest, answered>>

UploadRawDocument(r) ==
    request[r].step = "upload" /\ StepReturns(r) /\ Upload(r) /\ UNCHANGED doing

(* The first call of the synchronous processing. *)
SyncUploadRawDocument(r) ==
    /\ request[r].step = "ingest" /\ doing[r].phase = "fetch"
    /\ Upload(r)
    /\ Moves(r, "process", NoDoc, {})
    /\ UNCHANGED vars

SyncSucceeds(r) == request[r].step = "ingest" /\ StepReturns(r) /\ Processed(r)

RequestStops(r) ==
    /\ StepRaises(r) \/ RequestDies(r)
    /\ Rests(r)
    /\ UNCHANGED <<file, output, raw, indexed, published, latest, answered>>

(* The last transaction of a request answers it: 202, or 200. *)
Answer(r) ==
    /\ UpsertPending(r) \/ MarkSucceeded(r)
    /\ answered' = IF request[r].step = "upsert" THEN answered
                   ELSE [answered EXCEPT ![request[r].job] = r]
    /\ UNCHANGED <<file, output, raw, indexed, published, doing, latest>>

PNext ==
    \/ QueueStep
    \/ \E w \in Workers : Download(w) \/ WorkerSucceeds(w) \/ WorkerStops(w)
    \/ \E p \in Workers \cup Requests : ProcessStep(p)
    \/ \E r \in Requests :
        \/ \E j \in Jobs : ReceiveDocument(r, j)
        \/ UploadRawDocument(r) \/ SyncUploadRawDocument(r) \/ SyncSucceeds(r)
        \/ RequestStops(r) \/ Answer(r)

PSpec == PInit /\ [][PNext]_pvars

(* The fairness of the queue; a call made for a document returns or        *)
(* raises.                                                                 *)
WorkerCallReturns(w) ==
    \/ Download(w) \/ ProcessStep(w) \/ WorkerSucceeds(w)
    \/ FinishProcessing(w, "failed") /\ WorkerStops(w)

RequestCallReturns(r) ==
    \/ (GetJob(r) \/ InsertJob(r) \/ InsertConflict(r) \/ MarkProcessing(r) \/ MarkFailed(r))
        /\ UNCHANGED content
    \/ UploadRawDocument(r) \/ SyncUploadRawDocument(r) \/ ProcessStep(r)
    \/ SyncSucceeds(r) \/ RequestStops(r) \/ Answer(r)

PFairSpec ==
    /\ PSpec
    /\ \A w \in Workers :
        /\ WF_pvars(Claim(w) /\ UNCHANGED content)
        /\ WF_pvars(WorkerCallReturns(w))
        /\ WF_pvars((MarkRead(w) \/ MarkWrite(w) \/ MarkRaises(w)) /\ UNCHANGED content)
    /\ \A r \in Requests : WF_pvars(RequestCallReturns(r))
    /\ \A j \in Jobs : WF_pvars(~Attended(j) /\ LeaseExpires(j) /\ UNCHANGED content)

----------------------------------------------------------------------------
(* Properties.                                                             *)

(* What is processed is a document that was uploaded. *)
PTypeOK ==
    /\ file \in [Dirs -> [Jobs -> Docs]]
    /\ output \in [Dirs -> [Jobs -> [Files -> Docs]]]
    /\ raw \in [Jobs -> Docs]
    /\ indexed \in [Jobs -> Docs]
    /\ published \in [Jobs -> [Files -> Docs]]
    /\ latest \in [Jobs -> Docs]
    /\ answered \in [Jobs -> Docs]
    /\ doing \in [Workers \cup Requests ->
                     [phase: Phases, doc: Docs, todo: SUBSET Files]]
    /\ \A p \in Workers \cup Requests :
          doing[p].phase \in {"write", "publish"} => doing[p].doc # NoDoc

Quiet(j) == ~InFlight(j) /\ \A w \in Workers : ~ActiveOn(w, j)

(* README: the endpoint stages and uploads the raw document, and returns   *)
(* HTTP 202 for the worker to process later.  The raw object of a source   *)
(* whose last upload was answered with success is that upload.             *)
AnsweredDocumentStored ==
    \A j \in Jobs : ~InFlight(j) /\ answered[j] = latest[j] => raw[j] = answered[j]

(* A job that rests as "succeeded" has its stored document in the index    *)
(* and all of its parsed assets in the bucket, not those of an earlier     *)
(* document and not a half of each: whatever an attempt that failed or     *)
(* died between two files left in the output tree and in the bucket.       *)
SucceededServesStored ==
    \A j \in Jobs : Quiet(j) /\ row[j].status = "succeeded" /\ answered[j] = latest[j]
                      => /\ indexed[j] = raw[j]
                         /\ \A f \in Artifacts(raw[j]) : published[j][f] = raw[j]
=============================================================================
