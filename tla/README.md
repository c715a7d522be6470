# Knowledge Alakazam in TLA+

TLA+ models of the parts of this repository that keep state which several
processes share: the ingest job queue and its workers, the way of a document
from upload to index, the tenant runtimes of a process, and the wiki with its
compiler. TLC checks small instances; TLAPS proves the safety of the queue, of
the pipeline, of the runtime registry, of the wiki and of the compiler, what the
wiki's slugs and the compiler's evidence promise, and that the queue and the wiki
implement their abstract specifications, for every value of the constants. All
paths are relative to the repository's root.

## Contents

1. [Inventory](#inventory): the components, their state, what is hard about them
2. [Modules](#modules): which module models what, and what it abstracts
3. [Runs](#runs): what TLC checks, with which bounds
4. [Disagreements](#disagreements-with-the-documents): where code and documents differ
5. [Fairness](#fairness)
6. [Proofs](#proofs)
7. [Not modelled](#not-modelled)
8. [Plan](#plan)
9. [Running](#running)

## Inventory

| Component | State | Operations | Talks to |
| --- | --- | --- | --- |
| Ingest job table (`wiki/models.py` `IngestJob`, `app/ingest_service.py` `IngestJobRepository`) | one row per `(tenant_id, source_id)`: status, attempts, owner, heartbeat | upsert, mark processing / succeeded / failed | written by API requests and workers |
| Ingest worker (`worker/ingest_worker.py`) | the claimed job, a heartbeat task | claim, heartbeat, process, mark, crash and restart | job table, S3, RAG runtime |
| Ingest service (`app/ingest_service.py`, `app/api/ingest.py`) | the staged file of an upload | `create_pending_job` (202), `ingest_document` (200) | job table, S3, RAG runtime |
| S3 asset store (`app/s3_assets.py`) | raw objects, parsed output trees | upload and download raw, upload output tree | MinIO / S3 |
| RAG runtimes (`app/rag_runtime.py`, `app/main.py`) | registry of one runtime per workspace, each with a lock, a LightRAG and a RAGAnything | get, initialize, query / process, shutdown | LightRAG, RAG-Anything |
| Wiki (`wiki/models.py`, `repository.py`, `service.py`, `app/api/wiki.py`) | pages, revisions, links, claims with sources | create or update, revise, publish, claim, rebuild links | PostgreSQL |
| Wiki validators (`wiki/validators.py`) | validation results | validate page | wiki tables |
| Wiki compiler (`wiki/compiler.py`) | compile job rows | compile source, compile topic | RAG runtime, wiki service |
| Slugs and wikilinks (`wiki/service.py`, `wiki/repository.py`, `wiki/compiler.py`) | none | slugify, extract, render links | wiki, compiler |
| Text-first parser (`app/rag_parsers.py`) | the output tree of a document | parse: write the artifacts | RAG-Anything, S3 store |
| Health, observability, configuration, schemas, migrations | none of their own | see [Not modelled](#not-modelled) | |

The components meet in three places. The API and the workers share the
`ingest_job` rows, the raw objects in S3, and, in `docker-compose.yml`, the
volume behind `RAG_INPUT_DIR`. Every wiki request and every compilation is a
PostgreSQL session of its own over the wiki tables. Queries, ingests and
compilations of one process share its runtime registry on one event loop.

What is hard here, and where it bites (`PROJECT.json` lists each with its line):

- **Queue.** The claim is one locked transaction, every other access is a plain
  `SELECT` and a later `UPDATE` of the columns that changed. Heartbeats, outcomes
  of workers that lost the job, resets by new uploads, lease expiry and crashes
  reach a row in any order. *Correct:* an active lease has one holder, a job is
  not run more often than its attempts allow, an accepted job ends.
- **Document.** The row, the staged file, the raw object, the index and the
  published assets change in separate steps of several processes, each of which
  may raise or die, between any two files of a parsed document as well.
  *Correct:* what was answered with success is what is stored, and a job that
  says succeeded serves it, with all of its files.
- **Runtimes.** Concurrent first requests, initializations that fail half way,
  shutdown. *Correct:* one runtime per workspace, never used half initialized,
  its lock is given back, shutdown closes what it can reach.
- **Wiki.** READ COMMITTED without `FOR UPDATE`: revision numbers are computed
  from what was read, unique keys refuse the loser, and statements lock in two
  different orders. *Correct:* a page has a current revision of its own, numbers
  are dense, links belong to the text that became current, a validation misses no
  broken link of the text it is about, every call ends.
- **Compiler.** One transaction for the page and one for each claim, bookkeeping
  in others; evidence in whatever shape the RAG runtime returns it, cut, cleaned
  and deduplicated in several places. *Correct:* a job that says succeeded is
  complete, the request ends, the job row ends; the claims shown are those
  stored, the links are the pages chosen, the sources are those of the evidence.

## Modules

```
LeasedJobs ~~> IngestQueue     ~~> : implemented by, with INSTANCE
WikiHistory ~~> WikiPages

IngestJobTable <- IngestQueue <- IngestPipeline
                       ^               ^
         IngestQueueProofs             |
                       ^               |
          LeasedJobsProofs <- IngestPipelineProofs <- IngestServingProofs

WikiPages <- WikiCompile             RuntimeRegistry <- RuntimeRegistryProofs
    ^             ^
WikiPagesProofs <- WikiCompileProofs

WikiSlugs <- WikiEvidence <- WikiEvidenceProofs
```

An arrow points to the extended module. Each `MC*` module extends one of them
for TLC. A definition whose comment begins with "Mutant" is a wrong version of
the one after it, kept to show that a property notices the difference.

### IngestJobTable

The row as a record and what the code writes to it: `Ready` is the `WHERE` of
`pending_job_claim_statement`, `ClaimedBy`, `LeaseOwned`, `AttemptsExhausted` and
`FailedAfterExhaustedAttempts` are the worker's helpers of those names,
`ResetPending`, `SyncClaimed` and `Released` what `IngestJobRepository` assigns.
`Flush` is the part of SQLAlchemy that matters: an `UPDATE` names the columns
whose assigned value differs from the loaded one, so two sessions can each write
half of a row. `heartbeat_at` is `none`, `fresh` or `stale` relative to the
lease. Left out are columns no guard reads (`error`, `claimed_at`, the raw
location) and `next_attempt_at`, which nothing sets to anything but `NULL`.

### IngestQueue

`worker[w]` is where a worker process stands in `run` / `process_job`, with
`beating` for a heartbeat between its `SELECT` and its `UPDATE`; `request[r]` is
where a request stands, with the row it loaded while its transaction is open.

| Action | Code |
| --- | --- |
| `ClaimNextPending`, `ClaimNothing` | `claim_next_pending`; the exhausted rows before the one taken are failed in the same transaction |
| `HeartbeatRead`, `HeartbeatWrite` | `heartbeat` |
| `FinishProcessing` | the work of `process_job` returns or raises, and the heartbeat task is stopped |
| `MarkRead`, `MarkWrite`, `MarkRaises` | `mark_succeeded` / `mark_failed` through `_update_status` |
| `Crash`, `Restart`, `LeaseExpires` | process death, container restart under the same `hostname:pid`, time |
| `Receive`, `GetJob`, `InsertJob`, `InsertConflict`, `UpsertPending`, `MarkProcessing`, `MarkSucceeded`, `MarkFailed` | the repository calls of `create_pending_job` and `ingest_document` |
| `StepReturns`, `StepRaises`, `RequestDies` | the work between them |

`FOR UPDATE SKIP LOCKED` makes a claim one step; `skipped` are the rows other
open transactions may hold locked, any subset of them. Locks of other
transactions do not matter beyond that: each of them touches one row and is
short. `inserted` is the order of `created_at`; rows inserted by overlapping
requests get the order of their commits. A heartbeat cancelled while it
commits counts as rolled back. A session keeps no row it has no reference to, so
each `_get_job` reads the table. `lapsed`, `starts` and `upserts` are history.

`IngestSync` is a setting of the API, so all requests of an instance are of one
kind.

### LeasedJobs

The promise of the queue without rows, transactions and heartbeats: a set of
`open` jobs and, per job, its `holders`. `Start` makes a worker the only holder
of an open job, and where submissions pay for runs (`Metered`) not more often
than `MaxAttempts` times per submission; nobody becomes a holder in any other
way. `IngestQueue!ImplementsLeasedJobs` is the refinement:

| LeasedJobs | IngestQueue |
| --- | --- |
| `open` | `OpenJobs`: the rows that are pending or processing |
| `holders` | `Holders`: the workers active on the job whose lease never lapsed meanwhile |
| `Metered` | `~IngestSync`: the API runs no job itself |
| `starts`, `upserts` | the same |

A claim that also fails exhausted rows is one `Start`; a second worker's claim of
an expired job is a `Start` because the first stopped being a holder when the
lease lapsed (`LeaseExpires` is an `End`).

### IngestPipeline

Adds the bytes: per data directory the staged `file` and the `output` tree of
each job, `raw` in S3, `indexed` in the RAG storages, the `published` assets. A
document is named by the request that uploads it; uploads of one source carry
one file name, so they share the staged path, the raw key and the paths of the
output. Each action conjoins an action of the queue with what happens to the
documents, or changes documents only:

| Action | Code |
| --- | --- |
| `ReceiveDocument`, `UploadRawDocument`, `SyncUploadRawDocument` | `prepare_document` and `upload_raw_document`, which sends what the staged path holds by then |
| `Download` | `download_raw_document` to the worker's staged path |
| `Parse`, `WriteArtifact`, `InsertContent` | `process_document_complete`: the parser reads the staged file, writes its artifacts one by one over earlier ones, the content is inserted under the document's id, which replaces what was there |
| `UploadAsset` | `upload_output_tree`: the files of the tree as listed, one by one, each as it is when its turn comes; nothing is deleted |
| `WorkerSucceeds`, `SyncSucceeds`, `WorkerStops`, `RequestStops` | `process_prepared_document` returns, raises or dies between any two of these |

`TextFirstParser` writes a content list and a Markdown file. A document that
goes to the fallback parser may leave more: `Illustrated` documents also have a
figure, which a later document without one leaves in place. `SharedInputs` says
whether API and workers see one `RAG_INPUT_DIR`, as the containers of
`docker-compose.yml` do. `Overlapping` says whether two requests for one source
may be in flight at once, `Reuploads` whether a source is uploaded again at all.

### WikiPages

A workflow of `wiki/service.py` or `wiki/validators.py` is one transaction and
`tx[r]` its state: a step per statement, writes visible to others at the commit.
`Calls` are the workflows that are called, with their arguments and the pages
that the text links to. `WaitsFor` says whose locks the next statement meets (the
page row, the key `(tenant_id, slug)`, the key `(page_id, revision_no)`), and
`DeadlockDetected` is PostgreSQL breaking a circle. A unique key that refuses is
a rollback, and so is an error, a cancellation or a death at any statement
(`Fails`). A text stands for its request and its links.

`validate_page` reads the page, its current revision (`ResolveRevision`), the
pages its links lead to (`FindBrokenLinks`), and then deletes and inserts results
(`Delete`, `CommitResults`): each sees a later state of the tables. Texts are
Markdown, which is what the compiler and the API's default write. What the other
three validators find comes with the rows of a validation. The reads that only
build the answer after the commit are left out.

### WikiHistory

The promise of the wiki without transactions: a page has versions without a gap,
one of them current, and the edits under way hold a number each. An edit takes
the number after the last version it sees (`Take`), and stores its text there
(`Store`) or nowhere (`GiveUp`); two edits may take one number, so the later
replaces the text of the earlier. Nothing else changes a version.
`WikiPages!ImplementsWikiHistory` is the refinement:

| WikiHistory | WikiPages |
| --- | --- |
| `versions` | `Versions`: the texts of a page's committed revisions, by number |
| `current` | `Currents`: the number behind `current_revision_id` |
| `edits` | `Edits`: the transactions of `create_or_update_page` and `create_revision` that have computed a number |
| `Take` | `upsert_page_revision` computes max + 1 |
| `Store`, `GiveUp` | the commit; a refused key, an error, a broken lock circle |
| `Show` | the commit of `publish_page` that changes the current revision |

### WikiCompile

`at[c]` is where a compilation stands, `job[c]` its row. Its page write and its
claims are calls of `WikiPages` among those of other editors. Bookkeeping
transactions touch a row nobody else knows and are one step each. After a
rollback SQLAlchemy expires all objects of the session, so the `except` clause
that reads `job.id` raises outside of an awaited call: `CompileRaises` leaves the
job row as it is. Before the first rollback (`SearchRaises`) the failure is
recorded. The claims are a number here, `ClaimCount`. The compiler writes
`page_type` `concept`: the pages it is run on are taken to be of that type, so
that its write changes a page only when another request changed the title since.

### RuntimeRegistry

One event loop: a step ends at an `await` that suspends. `Get` is
`RAGRuntimeRegistry.get` up to the call of `initialize`; `AlreadyInitialized`,
`ConstructLightRAG`, `OpenStorages`, `FinishInitialize`, `ImportRaises` and
`InitializeRaises` are `RAGRuntime.initialize` under its lock, called by `get` and
once more by `query` and `process_document_complete`; `ShutdownBegins`,
`ShutdownNext`, `ShutdownRuntime`, `ShutdownRaises` are the two `shutdown`
methods. The server awaits its requests, and the worker ends its loop, before
either shuts the registry down. `RAG_RUNTIME_DISABLED` leads to none of this.

### WikiSlugs

`Slugify` is `slugify_wiki_target`, `ExtractWikilinks` the extraction of the
targets of links, `Deduped` `_dedupe_slugs`, as operators over sequences of
character classes: two letters that differ are told apart only where the code
does (case, digits, separators, marks, brackets, newlines). The behaviors type
lists of texts, so that TLC enumerates the inputs. Every scan of the code that
keeps some elements of a sequence and drops others is `Picked` by their
positions, so that one set of lemmas serves them all.

### WikiEvidence

What `wiki/compiler.py` makes of the answer and the metadata of a RAG query, as
operators, each named for its function: `StripMarkdownNoise`, `CleanClaim`,
`Truncate`, `DedupeNonEmpty` and `ExtractClaimTexts` for the claims,
`BulletLines` for how they are rendered, `RelatedPages` and `LinkTarget` for the
wikilinks, `Flattened`, `SourceOf` and `ExtractSources` for the sources. The
texts are those of `WikiSlugs`: those listed are what the metadata holds as
claims or as related pages, the last one is the answer. The behaviors type
texts, or offer items of metadata. An item is a text, a mapping with an id, a
chunk or a URI (a *source*), a list or other mapping (a *group*), or a number;
the chunk stands for all that distinguishes two sources of a document. Groups and
sources both hold items: `{"doc_id": ..., "chunks": [...]}` is a source that
holds chunks. `Members` takes a source whole and looks into groups only, as
`_flatten_source_items` does. `MaxNesting` bounds how deep lists and mappings are
nested: the code recurses, `Flattened` takes one level after the other.
`ItemsAssumption` says what an item may be, and that no document is called
`rag-query`, the name the code makes up when it has nothing to cite. Left out of
`BulletLines` is the line that stands for an empty list, which is shown and not
stored.

## Runs

| Run | Instance | Shows |
| --- | --- | --- |
| `IngestQueueAsync` | 1 job, 2 workers, 2 async requests, 2 attempts, 1 crash, late heartbeats | `LeaseExclusive`, `ExecutionBudget`; `ImplementsLeasedJobs`, with submissions paying for starts; `Inductive`, the invariant of the proofs |
| `IngestQueueSync` | 1 job, 2 workers, 1 sync request, 2 attempts, 1 crash, late heartbeats | `LeaseExclusive` and `ImplementsLeasedJobs` where workers may take the request's row; `JobsSettle` |
| `IngestPipelineUpload` | 1 upload of a source (`Reuploads = FALSE`), 2 workers on one input directory, 2 attempts, 1 crash, late heartbeats | `AnsweredDocumentStored`, `SucceededServesStored`, `JobsSettle` |
| `IngestPipelineSync` | 4 synchronous uploads of one source in a row, two of them with figures, no worker | the same safety when uploads raise or die between any two files and are repeated; `PTypeOK` |
| `WikiEditors` | 4 calls of any workflow on one page, 2 titles, 3 statuses, and the creation of a second page it links to | `PagesHaveCurrentRevision`, `RevisionNumbersDense`, `LinksOfCurrentRevision`, `BrokenLinksReported`, `CirclesNeedChangedPage`, `SettledRevisionsKept`, `TypeOK` |
| `WikiCompileConcurrent` | 1 compilation with 2 claims, 2 editors, one page | `SucceededJobsAreComplete`, `CTypeOK`; `ImplementsWikiHistory`; `CompilersEnd` and `RequestsEnd` with lock circles and failures |
| `RuntimeRegistryRequests` | 3 requests, 2 workspaces, 2 runtimes, 3 LightRAG instances, shutdown | `OneRuntimePerWorkspace`, `UsedRuntimeIsReady`, `ShutdownClosesStorages`, `TypeOK`, `RequestsEnd` |
| `WikiSlugsTitles` | all lists of up to 3 texts and an answer, of 4 characters in all, out of 12 classes; all metadata of 2 items, nested twice: lists in lists, documents with a chunk, lists with such a document | `SlugsAreCanonical`, `ShownClaimsAreStored`, `RelatedPagesAreLinked`, `ProvenanceKept` |
| `IngestQueueStale`, `IngestPipelineShared`, `WikiImmutable`, `WikiCompileJobs` | small | violations, see below |

Why the bounds are enough to be interesting:

- *Queue.* A lease changes hands between two workers, a stale one and a new one;
  a third would repeat the second. Two attempts allow a claim, a reclaim and an
  exhausted row. Two requests give the insert race and a reset under a running
  worker. What needs several jobs, the walk over exhausted rows, is only in the
  proofs: the safety theorems hold for any set of jobs.
- *Pipeline.* One asynchronous upload only, because with two the properties fail:
  see `IngestPipelineShared` and the paragraph after it. Two attempts are enough
  for a worker that died between two files and one that starts over. Synchronous
  uploads are checked without workers for the same reason; four of them allow an
  illustrated document, a plain one over it, one that fails half way, and one
  that succeeds.
- *Wiki.* Overwriting a revision takes a page, a writer that computes a number, a
  second that commits it and a third that goes past it: four calls. A missed
  broken link takes the page, its validation and the creation of the page it
  links to. One page to meet on is enough, since the transactions of two pages
  share neither locks nor rows but this reading of links.
- *Compiler.* Two editors make a lock circle with the compilation; two claims
  give a point between claims where another commits or the next one fails.
- *Slugs and evidence.* Two related pages, or two claims, fit in four characters
  beside one that is dropped or repeated. The limits are small in proportion:
  `MaxRelated = 2` and `MaxClaims = 2` for 8 and 8, claims of 2 to 3 characters
  for 12 to 700, a heading of 1 word for 5. Two items of metadata are enough for
  two that collide; `ProvenanceKept` tries each request's document, and none. A
  document holds one item of any kind, with or without a document of its own.

`CHECK_DEADLOCK` is off: requests are finite and all models come to rest.

## Disagreements with the documents

Each is a run in which TLC finds the stated property violated.

- `IngestQueueStale`: `NOTES.md` line 158 says stale workers are prevented from
  writing a final status. `_update_status` checks the lease on what a `SELECT`
  returned and writes in a later, unconditional `UPDATE`: between the two the job
  can be reclaimed, and the old worker's status lands on the new owner's row.
- `IngestPipelineShared`: with one `RAG_INPUT_DIR`, as in `docker-compose.yml`, a
  worker that still runs the first upload of a source downloads the old raw
  object to the path at which the API has just staged the second one. The API
  then uploads the old document and answers 202 for the new one.
- `WikiImmutable`: `docs/architecture.md` line 253 says page revisions are
  immutable. `upsert_page_revision` computes max + 1 and looks the number up
  again; a revision of another editor committed in between is taken for its own
  and gets the new text in place. What does hold is `SettledRevisionsKept`: a
  revision whose number no open transaction has computed is never changed.
- `WikiCompileJobs`: `docs/architecture.md` line 226 says a compile job is marked
  succeeded or failed. When a page or claim transaction is rolled back the
  failure is not recorded and the row stays `processing`.

More of the same kind follows from these models and has no run of its own:

- A `succeeded` whose lease was checked before a *second* upload reset the row can
  overwrite the reset: the new document is then stored but never processed (the
  reason for one upload in `IngestPipelineUpload`).
- `create_pending_job` commits the pending row before the raw upload, in the
  opposite order of `docs/architecture.md` lines 201-202, so a worker may claim a
  job whose object is not there yet, or still the old one.
- Two concurrent validations of one revision delete what they both saw and both
  insert. The claims of one compilation attach to whatever revision is current
  when each is written.
- A file of an earlier document that a later one does not have stays in the
  output tree and is uploaded again with the later one; `SucceededServesStored`
  is about the files the document has.
- `docs/architecture.md` says the compiler does not invent citations. A mapping
  of the metadata that names neither a document, a chunk nor a URI, for instance
  only a quote, is flattened to its values, each of which becomes the id of a
  source when the request named no document; a text of white space becomes a
  blank id.
- `docs/architecture.md` lines 269-271 say that structured references such as the
  chunk ID are stored when available. `_flatten_source_items` returns a mapping
  that has an id, a chunk or a URI whole (lines 563-564) and does not look into
  it: of `{"doc_id": "d1", "chunks": [{"chunk_id": "c1"}]}` only `d1` is cited,
  `c1` is part of the source's raw `locator` at most. A second mapping of `d1`
  that differs in its chunks alone is dropped as a duplicate, its `locator` with
  it; the metadata as a whole is kept in `content_json` of the revision. `ProvenanceKept` says what
  does hold: an outermost source that names a document is cited with it, and a
  chunk is not cited with another document than its own.
- A listed claim that is too short to keep also keeps the lines of the answer
  from being used one by one: the whole answer becomes the claim. If it is short
  and ends with a colon, it is dropped as a heading, and there is no claim.

## Fairness

`FairSpec` of the queue and `PFairSpec` of the pipeline assume that event loops
run and awaited calls return or raise, that a request once received goes on,
and that time passes for a lease nobody renews. They assume nothing of crashes,
errors or the expiry of a live worker's lease, and not that a dead worker is
restarted: `docker-compose.yml` has no restart policy for it. `JobsSettle` holds
because in its runs one of the two workers outlives the only crash. The code has
no timeout around processing: a call that never returns keeps its job in
`processing` for as long as its heartbeat runs, which is assumed away. In the wiki each statement gets an answer, and PostgreSQL breaks
circles (`deadlock_timeout`). In the registry awaits return or raise, and a free
`asyncio.Lock` is taken by a waiter.

All fairness is weak: an idle worker stays able to claim a ready row until some
worker takes it.

## Proofs

Eight modules hold theorems. Their assumptions are those the modules name: owners
and workers are distinct values, `MaxAttempts` is positive, settings are Boolean,
calls are what their types say. Sets of jobs, workers, requests, pages, runtimes
may have any size, and texts, lists and metadata any length.

### The queue

`IngestQueueProofs` proves, for both settings of `IngestSync` and any number of
crashes:

- `TypeCorrect`: `Spec => [](TypeOK /\ ProcessesOK)`.
- `LeaseSafety`: `Spec => []LeaseExclusive`.
- `BudgetSafety`: `Spec => []ExecutionBudget`.

`LeasedJobsProofs` proves `InductiveInvariant`, `Spec => []Inductive`, and from it

- `QueueImplementsLeasedJobs`: `Spec => ImplementsLeasedJobs`, each step is under
  the mapping a step of `LeasedJobs` or a stutter. The one step that is more than
  bookkeeping is the claim: the row it takes is open, nobody holds it
  (`LeaseIntact`), and its start is paid for (`BudgetAccount`).

The inductive invariant is `Inductive == TypeOK /\ ProcessesOK /\ LeaseIntact /\
LeaseExclusive /\ BudgetAccount`, and TLC checks it first.

- `ProcessesOK` says where a process may stand: a worker has a job exactly while
  it is active, a heartbeat is in flight only while it works, an open transaction
  that found no row writes as an insert.
- `LeaseExclusive` alone is not inductive: a claim preserves it only if the row
  of an active worker that kept its lease is not offered. `LeaseIntact` says that:
  such a row is neither absent nor pending, and if it is processing its heartbeat
  is fresh. It survives `MarkWrite` of a stale worker because that only makes a
  row terminal, and `HeartbeatWrite` because that only makes it fresh. This is
  also why the disagreement of `IngestQueueStale` costs the outcome but not the
  exclusion.
- `ExecutionBudget` counts starts against committed upserts. `BudgetAccount` says
  that a row's attempts never exceed `MaxAttempts` and that the starts before the
  last reset are paid for by the upserts before it; a reset flushed in part,
  because a column equalled the loaded one, must still pay.

### The pipeline

`IngestPipelineProofs` proves that the pipeline implements the queue
(`PipelineImplementsQueue`: `PSpec => Spec`, each step is a step of the queue or
leaves it alone), so that `PipelineLeaseSafety`, `PipelineBudgetSafety` and
`PipelineImplementsLeasedJobs` follow. About the documents:

- `PipelineTypeCorrect`: `PSpec => []PTypeOK`. That what is parsed is a document
  needs `DocsInPlace`: a process past its fetch is processing, and its staged
  file is there.
- `AnsweredIsStored`: `Separated => (PSpec => []AnsweredDocumentStored)`, where
  `Separated == ~SharedInputs /\ ~Overlapping`. `HandedOver` follows one document:
  the staged file of a request under way is its own, once it has delivered the
  raw object is its own, and a new request was not answered. `IngestPipelineShared`
  shows that the theorem needs its hypothesis.

`IngestServingProofs` proves `SucceededIsServed`: `Solitary => (PSpec =>
[]SucceededServesStored)`, where `Solitary` is `Separated`, `INGEST_SYNC` and no
worker. `Serving` follows the files: `Made` says which files of its document a
request has in the output tree, in the index and in the bucket by its phase,
whatever earlier documents left there; when it is answered the document is
`Complete`, and stays so until the next upload of the source hides the answer.
With workers the property needs a source to be uploaded once (see
[Disagreements](#disagreements-with-the-documents)). Then it holds for any number
of workers, of crashes and of expired leases, and needs neither separate
directories nor disjoint requests:

- `UploadedOnceIsServed`: `~Reuploads => (PSpec => [](AnsweredDocumentStored /\
  SucceededServesStored))`.

A worker that lost its lease still parses and uploads beside the new owner, but
what it writes is the same document. So the invariant does not ask who wrote a
file. `OneDocument` says that every copy of a source, staged, raw, parsed,
indexed or published, is its one document or absent, and what each process in the
middle of its work has copied by then (`Copied`); `Grows`, proved of every step,
that no copy goes away. `Stored`: a request past its raw upload, and an answer,
have a raw object. `Outcomes`: whoever is about to write `succeeded`, stale or
not, and any row that says it, has its document `Served`. The step that makes a
row say so is found in `SucceededBy`: a row, a worker or a request that already
did, so a reset or an `UPDATE` of half the columns invents no success.

### The registry

`RuntimeRegistryProofs` proves `RegistryTypeCorrect`, `OneRuntime`,
`RuntimeReady` and `ShutdownCloses`, one for each safety invariant, from
`IInv == TypeOK /\ Registered /\ BuiltForHolder /\ Stands /\ Outcome /\ Accounted`.
`Registered`: every runtime made is the one the registry has for its workspace.
`BuiltForHolder`: the instances a runtime holds were built for it, so two
initializations do not mix. `Stands`: where a request in the middle of an
initialization stands, its runtime holds its instance and is not initialized.
`Outcome`: what is left when the lock is free, initialized or given up.
`Accounted`: each open instance is in reach of the shutdown, or was replaced.

### The wiki

`WikiPagesProofs` proves `WikiTypeCorrect`, `ReadablePages`, `DenseNumbers`,
`CurrentLinks`, `BrokenLinksFound` and `CirclesChangePages`, one for each
invariant of `WikiEditors`. The invariant `IInv` has a part for the tables,
`Stored`, and parts for each open transaction:

- `Course`: where each workflow may stand and what it has locked by then.
- `Numbering`: the number a writer holds is 1 or follows one that exists; that it
  still does not exist while it is being inserted is what makes numbers dense.
- `Reading`: what a validation or a `DELETE` read and how much of it still holds:
  a page once seen does not go away, and a text once replaced does not come back.
- `Apart`: two transactions do not hold the same page or revision number. Without
  it `Numbering` is not inductive: two inserts of one number would both commit.

`CirclesChangePages` does not walk along a circle: a request in it that has
locked the page either changed its attributes, or made the page, and then waits
for nobody (`LockersPass`). So none has the page locked, all wait for revision
numbers, and the holder of a revision number waits for a page lock.

Two more theorems are about steps:

- `WikiKeepsHistory`: `Spec => ImplementsWikiHistory`. Each step is under the
  mapping a step of `WikiHistory` or a stutter. That the versions are a sequence
  is dense numbering; that a commit stores under the number of its edit and
  touches no other version is `Numbering`; that a transaction which ends, in any
  way, takes its number with it needs `Course`.
- `SettledRevisionsStay`: `Spec => SettledRevisionsKept`, from the same
  invariant. A new edit takes the number after the last revision, so a number
  once settled is not taken again.

### The compiler

`WikiCompileProofs` proves `CompileTypeCorrect`, `CompleteJobs` (a job that says
succeeded is complete) and `CompileKeepsWiki`: the wiki keeps its invariants
under compilations, which make calls one after the other where a plain request
makes one. `Progress` says what a compilation has written at each stage, `Kept`
that its first claims and its revision are there and stay. That the links of a
page stay those of a committed text while its writer goes on to claims is why
`IInv` speaks of requests that are `Spent`, not of those that ended.
`CompileKeepsHistory`: with compilations among the editors the wiki still
implements `WikiHistory` and keeps settled revisions.

### Slugs and evidence

`WikiEvidenceProofs` proves one theorem for each property of `WikiSlugsTitles`,
for texts of any length, any limits and metadata of any depth:

- `CanonicalSlugs`: `ESpec => []SlugsAreCanonical`.
- `ShownClaimsStored`: `ESpec => []ShownClaimsAreStored`.
- `RelatedPagesLinked`: `ESpec => []RelatedPagesAreLinked`.
- `ClaimProvenanceKept`: `ESpec => []ProvenanceKept`.

The invariant is only that texts are of the alphabet and items are of the
metadata (`EvidenceTyped`); the work is in what the functions make of them.
`LeastNat`, from the well-foundedness of the numbers, gives `Induction` and
`SeqInduction`, stated over sets because the prover cannot instantiate an
operator; `Recursion` that what is computed step by step exists, by which the
recursive functions of the model are unrolled (`PickedUnrolls`, `FlatUnrolls`,
`LevelUnrolls`, `NestedUnrolls`). Then each operator gets a lemma that says how
its result grows when one element is appended.

- A slug is computed in six passes over the text. `Run` reads it in one: `done`
  is the slug so far, `gap` a hyphen that is due before the next letter, `over`
  that a mark was read. Each pass of `slugify_wiki_target` leaves `done` as it is
  (`RunUpTo`, `RunStrip`, `RunLower`, `RunKept`, `StripHyphens`), so the slug is
  `Run(s).done` (`SlugRun`), which is canonical at every step (`RunCanonical`)
  and reads as itself (`CanonicalRun`).
- Claims: normalizing twice is normalizing once (`NormalizedTwice`), so what was
  deduplicated for storing is left alone when it is rendered (`BulletsKept`).
- Links: what `_wikilink`, `_bullet_lines` and the pattern do to a title changes
  none of what `Run` reads (`LinkSlug`), so that the slugs, chosen to differ, come
  back in order and none is lost to the deduplication of lines.
- Sources: `Leaves` says that flattening finds exactly the texts and sources
  among the outermost items, those that lists and groups alone lead to, whatever
  the sources hold themselves; their keys tell sources apart
  (`SourceKeyInjective`), so none is lost to the deduplication.

### Only model-checked

All liveness, which is out of the prover's reach: `JobsSettle`, `CompilersEnd`
and `RequestsEnd`. The four disagreements are shown by counterexamples.

## Not modelled

- `app/api/health.py` reads only; `app/observability.py` formats logs;
  `app/config.py`, `app/db.py`, `app/schemas.py` declare; migrations and
  containers are schema history and wiring.
- Reads of the wiki API, and the answers built after a commit.
- The compiler's key concepts, open questions, summary and conversion to JSON:
  they choose and format texts on which nothing else depends. The rendered page
  apart from its bullet lines and links: a wikilink inside a claim or a summary
  becomes a stored link too.
- What the validators for unsupported claims, stale pages and duplicate titles
  find: each is a rule about rows read in the same transaction, or about an age.
- The decoding of text by the parser and its installation into RAG-Anything.
- LightRAG, RAG-Anything, S3 and PostgreSQL are external: they are modelled by
  what the code relies on. That an insertion under a document's id replaces the
  earlier one is assumed of LightRAG.
- Nested use of `WikiRepository.transaction`, which has no caller in the code.
- Resets an operator makes by hand (`docs/operations.md`).

## Plan

Done, in this order: the job table and queue, their proofs, the pipeline and its
refinement of the queue, the wiki pages, the compiler on top of them, the runtime
registry, the slugs; then the parsed files of a document one by one with the
parser, the abstract queue and its refinement, the theorems of queue, pipeline,
registry, wiki and compiler, the reads of a validation, the compiler's evidence,
what a succeeded job serves with workers, the wiki's history and its refinement,
and the theorems of slugs and evidence.

Left, most important first:

1. The findings of the other three validators, with the rows they read.
2. `RepositoryTransaction`: joining and adopting transactions of
   `WikiRepository.transaction`.
3. The reads that build an answer after the commit, which meet expired objects.

## Running

From this directory, for any run of `PROJECT.json`:

```
tlc -workers 2 -config IngestQueueAsync.cfg MCIngestQueue.tla
tlapm IngestQueueProofs.tla
tlapm LeasedJobsProofs.tla
tlapm IngestPipelineProofs.tla
tlapm IngestServingProofs.tla
tlapm RuntimeRegistryProofs.tla
tlapm WikiPagesProofs.tla
tlapm WikiCompileProofs.tla
tlapm WikiEvidenceProofs.tla
```
