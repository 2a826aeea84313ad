# TractusMind: a TLA+ verification project

TractusMind answers questions about Tractus-X documentation and code. It keeps
a Qdrant index of GitHub repositories up to date, records in PostgreSQL what
that index holds, and answers through a language model with citations pinned to
commits. These modules specify the parts of it whose correctness depends on the
order in which concurrent, failing and retried steps happen, check them with
TLC on small instances, and prove the central invariants with TLAPS for every
instance. Source paths below are relative to `src/app/` unless they start with
`docs/`.

## 1. Inventory

| Component | State it keeps | Operations | Talks to |
|---|---|---|---|
| Incremental sync (`ingestion/sync.py`, `incremental.py`) | local plan of one run | `sync`: discover, load state, start run, fetch, index, relabel, delete, complete, fail | GitHub, state store, Qdrant |
| State store (`state/store.py`) | `source_state`, `source_file_state`, `ingestion_run` | `start_run`, `complete_run`, `fail_run`, loads | PostgreSQL, READ COMMITTED |
| Knowledge store (`retrieval/qdrant_store.py`) | points: id = hash of content commit and path, payload with the snapshot label | upsert, set payload, delete by path and label, search | Qdrant |
| Worker and lock (`workers/sync.py`, `workers/tasks.py`) | Redis lock per source | `run_source_sync`, `sync_source_task` | Redis, Dramatiq, sync |
| Snapshot adoption (`api/routes/snapshot_adopt.py`) | none | check or delete the lock, start and complete a run | Redis, state store |
| CLI (`ingestion/cli.py`) | none | `sync`, `index`, `discover`, `search` | sync without the lock |
| Webhook (`api/routes/github_webhook.py`) | claimed delivery ids in Redis | claim, enqueue the matching sources, give the claim back | Redis, Dramatiq |
| Scheduler (`workers/scheduler.py`) | position in the cycle | enqueue every enabled source, sleep | Dramatiq |
| Ops API (`api/routes/ops.py`) | none | enqueue one or all sources; reports | Dramatiq |
| Circuit breaker (`resilience.py`) | failures, deadline, probe flag | `before_call`, `record_success`, `record_transient_failure` | shared by the LLM and the GitHub client |
| Clients (`generation/llm.py`, `ingestion/github_client.py`) | attempts of a call | `complete`, `get_json` | circuit, HTTP |
| Answering (`generation/*`, `routing/*`, `retrieval/*`, `reranking/*`) | none between requests | route, retrieve, rerank, generate, verify, repair, fall back | Qdrant, LLM |
| Conversations (`conversations/*`, `api/routes/ask.py`) | conversations and turns | check access, load history, save a turn or a failure, list | PostgreSQL |
| Feedback and review (`quality/*`, `api/routes/feedback.py`) | feedback, reviews, regression cases | rate, capture, promote, dismiss | PostgreSQL |
| Accounts (`auth/*`, `api/routes/user_ops.py`) | users, roles, sessions | bootstrap, create, change role, disable, delete | PostgreSQL |
| Request protection (`security/middleware.py`) | a sliding window per client and a shared overflow window, one in-flight counter | let through, refuse (429, 503, 413), enter, leave | every route |
| Chunking (`chunking/*`) | none | scan a document into sections, split each into overlapping windows, name the chunks | sync |
| Backup (`api/routes/backup_ops.py`, `scripts/restore-postgres.sh`) | the backup being generated, the archive | dump, snapshot, archive, restore | PostgreSQL, Qdrant |
| Corpus contract (`evaluation/corpus.py`) | none | read the status, count chunks twice, judge | PostgreSQL, Qdrant |
| Other evaluation (`evaluation/*`), observability, schema, frontend | reports, counters | offline scoring and reporting | |

What is hard in this system:

* **No transaction spans the stores.** A sync writes Redis, PostgreSQL and
  Qdrant; it can fail, be interrupted or die between any two writes, and the
  next run must repair what it left. Correctness: after a success the index
  holds exactly what the state lists; the state never lists half a commit; a
  citation's commit holds the cited bytes.
* **Syncs may overlap.** Workers take the lock, the CLI does not, an adoption
  only looks at it or deletes it, and its TTL can pass. Correctness: without
  the lock at least a commit that moves the snapshot lists all its files, and
  no row cites a commit without the file.
* **Delivery is unreliable.** Webhooks are lost, repeated and concurrent; tasks
  are retried, redelivered and dropped when the lock is taken. Correctness: no
  source goes backwards, redeliveries do not multiply work, every source ends
  up fresh.
* **Results arrive late.** Calls admitted before the circuit opened report
  while it is open or half-open. Correctness: it is open exactly when enough
  failures were reported, probes are spaced, and it recovers.
* **Read, then write.** Under READ COMMITTED a transaction decides on rows it
  has not locked, and an answer takes longer than any transaction. Correctness:
  a turn never lands in somebody else's conversation, every signal is reviewed,
  a review has one case.
* **The model may answer anything.** Correctness: what is returned as grounded
  is what was verified, cites what was retrieved, and rests on evidence that
  fits the prompt.

* **PostgreSQL and Qdrant drift apart.** The index command, a restore of half a
  backup and a changed embedding model each change one without the other.
  Correctness: what a sync publishes afterwards is served, and what the corpus
  contract passes was.
* **Everything is bounded.** Rate limits, bucket tables, in-flight requests,
  windows of text, candidates to rerank. Correctness at the bound: nothing is
  leaked, lost, or counted twice, and what is cut is what should be.

`PROJECT.json` lists each of these hazards at its line with the properties that
watch it, or the reason none does.

## 2. The modules

| Module | Models | Extends |
|---|---|---|
| `SnapshotPublication` | what a sync promises: snapshot and catalog change together, to a commit upstream has had | |
| `SourceSync` | one source's sync by workers, operators and administrators over Redis, PostgreSQL and Qdrant | instantiates `SnapshotPublication` |
| `MCSourceSync` | its symmetry for TLC | `SourceSync` |
| `SourceSyncProofs` | theorems about it | `SourceSync`, TLAPS |
| `ProviderCircuit` | the breaker with concurrent callers of both clients | |
| `ProviderCircuitProofs` | theorems about it | `ProviderCircuit`, TLAPS |
| `IngestionTriggers` | webhook, scheduler, operator, queue, workers and lock, from push to published version | |
| `MCIngestionTriggers` | a value of `Matches` | `IngestionTriggers` |
| `IngestionTriggersProofs` | theorems about it | `IngestionTriggers`, TLAPS |
| `Conversations` | asking in conversations while accounts are created, changed and deleted | |
| `MCConversations` | its symmetry | `Conversations` |
| `ConversationsProofs` | theorems about it | `Conversations`, TLAPS |
| `QualityReviews` | feedback and failures, their reviews, decisions and regression cases | |
| `MCQualityReviews` | its symmetry | `QualityReviews` |
| `QualityReviewsProofs` | theorems about it | `QualityReviews`, TLAPS |
| `DebugRetrieval` | operators: the exact and the hybrid lane of a debug question, and their fusion | |
| `AnswerPipeline` | one question from retrieval to a verified answer, an abstention or an error | `DebugRetrieval` |
| `MCAnswerPipeline` | the sizes of the hits, the quoted terms and what the model may answer | `AnswerPipeline` |
| `AnswerPipelineProofs` | theorems about it and the fusion | `AnswerPipeline`, TLAPS |
| `RequestProtection` | the rate limiter and the concurrency guard in front of every route | |
| `MCRequestProtection` | its symmetry | `RequestProtection` |
| `RequestProtectionProofs` | theorems about it | `RequestProtection`, TLAPS |
| `ChunkWindows` | `split_text_by_lines`, one line of the loop at a time | |
| `Chunking` | a document's scan into sections, their windows and the chunks made of them | `ChunkWindows` |
| `MCChunking` | every small document of each kind | `Chunking` |
| `KnowledgeLifecycle` | one source's index and catalogue through syncs, index commands, backups, restores, model changes and inspections | |
| `MCKnowledgeLifecycle` | its symmetry | `KnowledgeLifecycle` |
| `KnowledgeProofs` | theorems about it, about the window loop and about chunking | `KnowledgeLifecycle`, `Chunking`, TLAPS |

The modules meet where the code does: `IngestionTriggers` decides when a sync
runs and `SourceSync` what it does, `AnswerPipeline` reads the index a sync
writes and produces the turn that `Conversations` saves and `QualityReviews`
judges; `Chunking` says what the points of a file are, and
`KnowledgeLifecycle` puts a sync under its lock, much as `SourceSync` has it,
among everything else that touches the two stores. They are checked apart,
because each relies on another only for what is stated here: a sync ends, an
answer ends, a turn is stored or is not.

Definitions named `Bug...` are the mutants `PROJECT.json` lists: each stands
before the definition it changes and is used by no behaviour of its module.
They show that the property named beside them depends on that line of code.

### SourceSync

Every lock, row and point is keyed by the source id, so one source is enough.
An action is what an actor does between two awaits that matter: one
transaction, one Qdrant request, one Redis command.

| Code | Model |
|---|---|
| lock `tractusmind:source-sync:<id>` | `lock`: a worker, `Free`, or `Orphan` when its holder died |
| `source_state.snapshot_commit_sha`, `last_successful_run_id` | `snapshot`, `lastRun` |
| `source_file_state` rows | `files[path]`: blob, content commit and the snapshot it was last seen in |
| `ingestion_run` rows in order | `runs`: commit and status |
| Qdrant points | `index[path][content commit]`: the snapshot label, or `NoCommit` |
| a call's locals | `pc`, `manifest`, `prevSnap`, `prevFiles`, `stale`, `run`, `todo` |
| the ORM session of `complete_run` | `readSource` and `readFiles`, what it has read; `unflushed`, the row read and not yet flushed |
| GitHub | `tree`, `pushed`, `head` (external) |
| `run_source_sync` lock handling | `AcquireLock`, `Release`, `ExpireLock` |
| `IncrementalSourceSync.sync` | `Discover`, `LoadSnapshot`, `LoadFiles`, `Fetch`, `IndexBatch`, `UpdateUnchanged`, `DeleteModified`, `DeleteRemoved`, `RemoveStale`; its handlers are `RaiseInRun`, `FailRun`, `Unwind` |
| `start_run` | `StartRunRead` and `StartRunWrite`: under READ COMMITTED the select and the writes by key are not atomic |
| `complete_run` | its statements: `ReadSource`, `WriteSource`, `DeleteRows`, `ReadRow` and `WriteRow` for each path, and the commit, `CompleteRun`, whose acknowledgement may be lost; `Conflict` is a flush that finds a row gone or there |
| `adopt_snapshot` | `StartAdoption`, then the same store actions |
| `cli._run_sync` | `StartCliSync`, then the same actions without a lock |

`complete_run` is a READ COMMITTED transaction of an ORM. Each statement reads
what is committed by then; a flush writes the columns that differ from what was
read of that row (`NewRow`, `Merged`) and locks it until the commit. A row that
does not change is neither written nor locked. What the transaction has written is
invisible until its commit, so it is not a variable: `Written` and `HoldsSource`
follow from what the session has read and how far it is, the lock guards
(`RowFree`, `SourceFree`) ask them of the others, and a rollback has nothing to
undo. `last_successful_run_id` differs in every run and is written last, over
whatever snapshot the source row has by then.

Abstractions: a file is one point (its chunks are always written and deleted
together by path); the counters of `ingestion_run`, logs and metrics are left
out; a blob the chunker makes nothing of is in `Chunkless`; a commit, a path
and a blob are model values.

### ProviderCircuit

| Code | Model |
|---|---|
| `_failures` | `failures`, which stops at the threshold: no test tells larger counts apart |
| `_open_until` | `remaining`: ticks until it, or `Closed` |
| `_probe_in_flight` | `probeFlag` |
| `before_call` | `AdmitRegular`, `AdmitProbe`; a rejection changes nothing |
| `record_success`, `record_transient_failure` | operators of the same names, used by the steps that report |
| attempts in `llm.py`, `github_client.py` | `RetryTransient`, `FailTransient`, `Answer`, `RetryJson`, `Vanish` |

`sinceProbe` is a history variable for `ProbesSpaced`.

### IngestionTriggers

A version of a source is the number of pushes to its ref. What SourceSync
models in detail, the sync between resolving the ref and publishing, is the
pair `Discover`, `Publish` here.

| Code | Model |
|---|---|
| Redis key of a delivery (SET NX, TTL) | `claims`, `Claim`, `ExpireClaim` |
| `github_webhook` | `Claim`, `Enqueue` per matching source, `AnswerProcessed`; `EnqueueFails`, `ReleaseClaim`, `ReleaseFails`, `RequestDies` |
| `scheduler.main` | `SchedulerSend`, `SchedulerWake`, `SchedulerFails` (and restart) |
| `ops._enqueue` | `OpsEnqueue` |
| Dramatiq queue | `queue`: sources with their number of retries; FIFO, retried messages at the tail |
| `sync_source_task` | `SkipLocked`, `StartSync`, `Discover`, `Publish`, `FinishJob`, `SyncFails`, `RetryJob`, `WorkerDies` |

`queued` and `releases` are history variables of the properties. A delivery
answered as a duplicate changes nothing and is no step.

### Conversations and QualityReviews

SQLAlchemy opens one transaction per store call and PostgreSQL runs it under
READ COMMITTED. Nothing locks what it reads, so a transaction that decides on
what it read is two actions: what it reads, and what it commits. What PostgreSQL
itself enforces at the commit is a guard there.

| Code | Model |
|---|---|
| `app_user` | `account`: unused, user, admin, disabled or deleted |
| `conversation.owner_user_id` | `owner`, with `Absent` and `Nobody` |
| `answer_interaction` of a conversation | `askers`: who asked its turns |
| a request's locals | `place`, `who`, `about`, `found`, `history`, `detached` |
| `ask` | `BeginAsk`, `LoadHistory`, then `SaveReads` and `Save` (`record_answer` or `record_failure`) |
| `create_user`, `update_user`, OIDC login | `CreateAccount`, `UpdateAccount` |
| `delete_user` | `DeleteReads`, `Detach` (its UPDATE), `DeleteUser` (its DELETE and commit) |
| row locks of the UPDATE | `Locked`: `Save` and `Detach` wait for them |
| unique key of `conversation` | `owner[...] = Absent` in `Save` |
| foreign key with RESTRICT | `OwnedBy(...) \subseteq detached[...]` in `DeleteUser`; `who \in Registered` in `Save` |

| Code | Model |
|---|---|
| `answer_interaction.status` | `status` |
| `answer_feedback.rating` | `rating` |
| `quality_review` | `review` (its status) and `cause` |
| `regression_case` | `case` (its root cause) |
| `record_answer`, `record_failure` and its capture | `RecordTurn`, `Capture` |
| `upsert_feedback` | `RateReads`, `Rate`; the ORM writes only columns that differ from what it read, which `Upsert` models |
| `ensure_review` | `Capture`: one INSERT ... ON CONFLICT DO NOTHING |
| `dismiss_review`, `promote_review` | `DecideReads`, then `Dismiss` or `Promote` |

`missed` is a history variable: the signals whose capture failed, which the code
logs and forgets. Left out: the text of turns and the limits of a loaded
history; a disabled account's role, and the difference between users and
operators; who may rate or decide, which is checked before anything changes. A
turn has one possible trigger of a review, since it either failed or can be
rated.

### AnswerPipeline

`GroundedAnswerService` keeps nothing between questions, so one question at a
time is enough. The language model is the environment: it may answer any member
of `Payloads` or `Verdicts`, or fail.

| Code | Model |
|---|---|
| position in `answer` | `stage` |
| `exact` and the candidates of `RerankedRetrievalService.search` | `exact`, `candidates`, until they are reranked |
| hits after the threshold; `GroundedContext.blocks` | `hits`, `blocks`, `used` |
| `payload.answer` | `text`: who wrote it and the ids cited inline |
| the first `VerificationReport` | `report` |
| `GroundedAnswer`, or the error | `result` |
| `ConversationIntelligence.resolve` | `Resolve`: every outcome leads on to retrieval |
| `RerankedRetrievalService.search` up to its candidates | `Retrieve`; for a debug question `SearchBoth` of `DebugRetrieval` |
| `_conditions`, the scrolls of `debug_search` and their aggregation | `Lookups`, `Matches`, `DebugScore`, `ExactLists` |
| `DebugRetrievalService._fuse` | `Fusions`: scores are compared as fractions, and a tie may go either way |
| `CrossEncoderReranker.rerank` and the threshold | `Rerank` |
| an iteration of `build_grounded_context` | `AddBlock`, `CutFirstBlock`; its end and the first abstention are `CloseContext` |
| generation, inline repair of citations and the gate | `Refuse`, `RejectCitations`, `Generate` |
| `ClaimVerifier.verify` | `Verified`, used by `Verify` and `Recheck` |
| `_repair_after_verification` | `Repair`, `RepairFails`, `Recheck` |
| `LLMGenerationError` and other exceptions | `Fail` |

`weak` and `approved` are history variables. `Hits` are the chunks that the
route's filter, which both lanes apply, lets through; the regular expressions
that find quoted terms in a question are left out, so that a question may quote
any. `FusionAssumption` is the arithmetic of the defaults (30 exact hits, 60,
1.5 and 1.0): the last exact hit still weighs more than the first that only the
hybrid lane has. It is tight: with `debug_exact_k` at 32 it fails, and all four
numbers are settings. The order of inline citations is
left out, and so is the text of prompts and answers. Two things the code does
that a reader of its documents may not expect are in the model and are not
excluded by any property: a model that declares itself ungrounded has its own
text returned, ids in it included and ungated, as an abstention (`Refuse`); and
a claim for which the verifier names no id at all counts as supported
(`Miscited`). A failing model makes a repair abstain but its recheck an error.

### RequestProtection

| Code | Model |
|---|---|
| `SlidingWindowRateLimiter._events` | `events`: the buckets that exist, each a sequence of ages |
| `allow` with its purge and overflow key | `Swept`, `KeyOf`, `BucketOf`; `LetThrough` or `RefuseRate` |
| `_acquire_capacity`, `_release_capacity` | `Enter`, `RefuseBusy`, `Leave` |
| `limited_receive` and the middleware's own 413 | `ExceedBody`, then `Leave` |
| `monotonic()` | `Tick`, half a second at a time, because Retry-After rounds to whole ones |

`admitted`, `wait` and `refused` are history variables: what each client was let
through for, and how a client that waits as it is told fares. Clients that do not
wait come at any time. Both asyncio locks are held over code without an await,
so admitting and releasing are one step each.

### ChunkWindows and Chunking

A line is what the scans look for in it: kind, heading level, length, blank or
not. A section is a part of the document with the arguments of its call of
`split_text_by_lines`; `ChunkWindows` is that call, `TakeLine` its inner loop and
`CloseWindow` the end of an iteration. `SectionsOf` is the dispatch of
`SmartChunker` over the scans: `MarkdownSections`, `YamlSections`,
`TurtleSections`, `Blocks`, `PythonSections`. `Collect` and `TakeWhole` are
`make_chunk`, which may raise, `Finish` the deduplication. The scans are
functions of the line they have come to (`Fence`, `HeadingStack`, `Scanned`), and
`InOrder` collects line numbers as their loops do. Of documents it is assumed
that lines are numbered, that any line may be cut off after a character, that a
blank line is nothing else (the patterns for headings, fences and keys, `@prefix` and
a final `.` each take a character that is not white space), and that a declaration
begins on a line that is not blank, as `ast` has it. Left out: indentation, the text itself but for whether two chunks have the same, and the
grammars of the other languages, whose files are split by lines as the code
does without a parser.

### KnowledgeLifecycle

| Code | Model |
|---|---|
| PostgreSQL's rows of the source | `catalog` |
| Qdrant's collections and points | `collections`, `points`: model, path, commit fetched at, snapshot label |
| `settings.embedding_model` of the processes | `model`; `model_scoped_collection_name` makes it a part of a point |
| `IncrementalSourceSync.sync` | `StartSync` to `Release`, its Qdrant requests one by one; a request to a collection that does not exist fails the run (`Request`) |
| `tractusmind-ingest index [--limit]` | `StartIndex`, `IndexCommandBatch`, `FinishIndex`, `IndexFails` |
| `download_system_backup` | `DumpPostgres`, `SnapshotQdrant`, `BackupFails` |
| `restore-postgres.sh`, with or without the snapshot | `Restore` |
| a deployment with another model | `ChangeModel` |
| `inspect_full_corpus`, `evaluate_corpus_contract` | `ReadStatus`, `CountTotal`, `CountCurrent`, `Report` |

Content is named by the commit that brought it: here the ref moves forward and
a content never comes back (`SourceSync` has both). `catalog.by` and
`catalog.along`, and `served` and `exact` of an inspection, are history.
`PublishedIsServed` speaks of catalogues that were published with the current
model from the start (`by`); `PassedWasServed` also excludes (`along`) that the
collection has followed catalogues of another model since, which takes a
restore of PostgreSQL alone: section 5 says what happens otherwise.
`IndexOverlaps` is FALSE in the runs: with an index command beside a sync
neither property holds, since the command removes what the sync has just
relabelled.

## 3. Runs

| Run | Instance | Shows |
|---|---|---|
| `source_sync_locked` | 2 workers, 2 paths, 2 commits, 3 blobs (one without chunks), 4 runs, 2 faults | under the lock: `StateMatchesManifest`, `RetryRepairs`, `NoRetrievalGap`, `LastRunAgrees`, `OutcomesFinal`, `CitationsPinned`, and that SourceSync implements SnapshotPublication |
| `source_sync_overlap` | a worker, and an outsider that is operator or administrator; the lock may expire, acknowledgements may be lost; from the end of the source's first run, 2 more, or 3 that overlap | what survives without mutual exclusion: `PublishesItsFiles`, `CitedFilesExist` |
| `provider_circuit` | 3 callers, threshold 2, cooldown 3, 2 attempts, JSON mode | `ThresholdDecides`, `ProbesSpaced`, and `Recovers` when probes report |
| `provider_circuit_lost_probe` | the same with cooldown 2 and probes that may vanish | finding 1 |
| `ingestion_triggers` | 1 source, 2 deliveries, 2 concurrent requests, 2 workers, 1 retry, 1 fault | `NeverRegresses`, `QueuedOncePerClaim`, and `EndsFresh` |
| `conversations` | 2 users, 2 conversations, 3 requests, an admin key | `OwnedByOwner`, `HistoryIsOwn`, `OwnersExist`, `NeverClaimed` |
| `quality_reviews` | 2 turns, 2 root causes, 3 requests | `SignalsReviewed`, `ReviewsFollowSignals`, `CasesAgree`, `CasesImmutable` |
| `answer_pipeline` | 3 hits, 2 of them exact, 2 as candidates, 2 as evidence, a question that may quote a path and an identifier, a budget of 6 characters, 2 claims, ids S1 to S3 | `ExactFirst`, `GroundedIsVerified`, `CitationsResolve`, `ClaimsCiteAnswer`, `EvidenceIsLongestPrefix` |
| `request_protection` | 3 clients, 2 of them patient, 2 tasks, limit 2, window 2.5 s, 2 buckets, 1 request inside | `MemoryBounded`, `WindowRespected`, `CapacityCounted`, `PatienceRewarded` |
| `chunking` | every Markdown, YAML, Turtle, Java and other document up to 4 lines and every JSON and Python one up to 5, over up to 7 kinds of lines | `WindowsAdvance`, `NothingLost`, `IdsDistinct`, `Traceable` |
| `knowledge_lifecycle` | 2 paths, 2 models, 3 commits, 3 syncs or index commands, 3 other events | `TypeOK`, `PublishedIsServed`, `PassedWasServed` |
| `knowledge_lifecycle_contract` | the same with 2 events | finding 2 |

What the other modules' `TypeOK` say is proved (section 4), and so is that of
`KnowledgeLifecycle`.

Why the bounds are enough. *SourceSync*: two commits give every diff of two
trees, moving the ref back included; two paths let one file be unchanged while
the other is added, modified or removed; four runs allow a success, a failure, a
retry of it and a supersession; two faults interrupt a run and its repair. The
overlap run, which goes through `complete_run` statement by statement, begins
when the source's first run is over, failed or succeeded, since a run on its own
adds nothing (`OverlapSpec`): two more, of two actors, interleave in every order,
and the actor that ends first may run again. What a lock that expires lets in, a
second worker, goes the same way as the operator's sync.
One path and one ordinary blob keep it small: every property there is of
single paths or of the source row. It takes no faults: an exception in the
transaction changes no row but the run's, a lost acknowledgement is a choice of
the commit, and the theorems cover any number of runs with faults. Two
transactions that wait for each other just wait in this run; PostgreSQL ends one
of them, which is `RaiseInRun` where faults are allowed. *ProviderCircuit*:
three callers are a probe, a call that reports late and one that waits; the
threshold of two tells counting from opening. *IngestionTriggers*: two requests
race on one claim, two workers on one lock, two pushes make an older and a
newer version; sources meet only in the queue, which one source fills as well
as two. *Conversations*: three requests are an asker, one who races to
create or save in the same conversation, and a deletion; two users and two
conversations tell one's own from another's. *QualityReviews*: three requests
are two that race on one review or rating and one that goes on with the other
turn. *AnswerPipeline*: the smallest and the middle hit fill the budget exactly
with their separator, the largest has to be cut, and what then fits depends on
how much the cut strips; S3 never exists, S2 only sometimes; the verifier may
return one claim more than the limit; the fusion's constants (2 exact hits,
2, 3 and 2) are as tight as the defaults, and two candidates of three hits make
it cut. *RequestProtection*: with two buckets the third client meets a full
table, one that a purge empties or the overflow; five half-seconds are an odd
window, so that Retry-After is rounded; two tasks compete for one place.
*Chunking*: lines fill a window, exceed it or share it, and up to five of them
give two windows with an overlap between sections; deeper nesting only repeats
the stack's step. *KnowledgeLifecycle*: two commits make an incremental sync,
the third a sync after a restore or a failure; three jobs are a sync, one that
fails or an index command, and the one that must repair; three events are a
dump, a restore and one more. `MaxQueue` bounds how many messages a sender finds, not how many a
retry or a returned message may add; the code has no bound.

Deadlock is checked in every run but those of `QualityReviews`, where in the end
every turn has been recorded, rated and decided, of `Chunking`, whose call
returns, and of `KnowledgeLifecycle`, whose bounds run out. No other system here
may stop.

### Fairness

Safety runs assume none. Where liveness is claimed:

* `ProviderCircuit`: the clock ticks, and every attempt ends. httpx has
  timeouts and the backoff is bounded. Nobody is obliged to call, so `Recovers`
  says that the circuit admits, not that a call succeeds.
* `IngestionTriggers`: the scheduler's loop goes on (`while True`, and
  `restart: unless-stopped` in `docker-compose.prod.yml` when it dies),
  workers consume while there are messages, a running task goes on or fails,
  and Redis expires a dead worker's lock. GitHub need not deliver and operators
  need not act: `EndsFresh` rests on the scheduler alone, as
  `docs/source-update-triggers.md` says. Failures are finitely many; a source
  whose syncs fail for ever cannot become fresh.

`LockOutlivesTask` is the defaults' arithmetic: the lock's TTL is 43 200 s and
Dramatiq ends a task after 4 h. Both are settings, so the overlap run drops it.

## 4. Proofs

Every theorem holds for every value of the constants that satisfies the named
`ASSUME`s of its module, and so for any number of actors, paths, commits,
callers, sources and runs.

| Theorem | States | Argument |
|---|---|---|
| `SyncTyped` | `Spec => []TypeOK` | one lemma per action; what the provers need about trees, rows and points is split off as lemmas on the operators |
| `SyncPublishesItsFiles` | `Spec => PublishesItsFiles` | `SessionInv`: while a transaction that moves the snapshot holds the source row nobody else commits, so every row it has read is still as it read it, and the columns it leaves alone are the ones it wants. Which run it credits follows from `CreditInv`: no step removes an audit row or changes its commit. No lock is needed |
| `SyncCitesFiles` | `Spec => []CitedFilesExist` | `CitedInv`: a row is there or not as a whole, what is written has one holder, and the row a flush updates stays there until its commit; each column of a mixed row then comes from a row that cited commits with the file. No lock is needed |
| `SyncStateMatches` | `Spec => []StateMatchesManifest` under `Exclusive` | the lock invariant (whoever is past `AcquireLock` holds it, so nobody else is), that the loaded rows are still the stored ones while a run is on its way, and so is what its transaction has read (`SessionCurrent`) |
| `SyncPublishes` | `Spec => PublishesSnapshots` under `Exclusive` | refinement of `SnapshotPublication` from the same invariant: `CompleteRun` is the publication or a stutter, every other action a stutter |
| `SyncPinned` | `Spec => []CitationsPinned` under `Exclusive` | `PinnedInv`: the invariant of the two above with pinned rows; the loaded rows are the stored ones, so what `NewRow` keeps of them is pinned too, and the trees of pushed commits never change |
| `SyncLastRunAgrees`, `SyncOutcomesFinal` | `Spec => []LastRunAgrees`, `Spec => OutcomesFinal` under `Exclusive` and acknowledged commits | `AuditInv`: the row of a run under way is running, and so are the rows a `start_run` has read and not yet superseded; hence only running rows change status |
| `SyncRetryRepairs`, `SyncNoRetrievalGap` | `Spec => []RetryRepairs`, `Spec => []NoRetrievalGap` under the same | `RecoveryInv`, below |
| `CircuitTyped`, `CircuitThreshold`, `CircuitSpacing` | the three invariants of `ProviderCircuit` | `ThresholdDecides` is inductive with the types; `ProbesSpaced` needs it, since only an open circuit has a probe |
| `TriggersTyped` | `Spec => []TypeOK` | |
| `TriggersOrdered` | `Spec => NeverRegresses` | `OrderInv`: a busy worker holds its source's lock, so no two work on one source; what a worker has seen is at least what is published and at most what is upstream |
| `TriggersQueueOnce` | `Spec => []QueuedOncePerClaim` | `CountInv`: messages queued, requests that may still queue one, and a free claim together are at most one more than the claim's releases. The invariant itself says nothing of requests under way and so is not inductive |
| `ConversationsProofs`: `TypeCorrect`, `AlwaysOwnedByOwner`, `HistoryAlwaysOwn`, `OwnersAlwaysExist`, `OwnersNeverClaim` | the invariants and the action property of `Conversations` | `OwnershipHolds`: what each request may still rely on of the ownership it read. An owner changes only from `Absent` to a registered account and from it, as it is deleted, to nobody; row locks and the foreign key close the gap in the deletion |
| `QualityReviewsProofs`: `TypeCorrect`, `SignalsAlwaysReviewed`, `ReviewsAlwaysFollow`, `CasesAlwaysAgree`, `CasesStay` | the same of `QualityReviews` | `LocalsHold`: a request under way is about a turn whose signal, rating or review has not been taken away since |
| `AnswerPipelineProofs`: `ExactAlwaysFirst` | `Spec => []ExactFirst` | `ExactOutscores`: at any rank an exact hit outscores one that only the hybrid lane has, from `FusionAssumption`; `FusionFavoursExact` carries it over the sorting and the cut |
| `AnswerPipelineProofs`: `TypeCorrect`, `GroundedAlwaysVerified`, `CitationsAlwaysResolve`, `ClaimsAlwaysCite` | the other invariants of `AnswerPipeline` | `EvidenceHolds` (blocks are a prefix of the hits, none below the threshold) and `StageHolds` (a text under verification has passed the gate); `PassedReport`: a report passes only if the verifier supported everything |
| `AnswerPipelineProofs`: `EvidenceAlwaysLongest` | `Spec => []EvidenceIsLongestPrefix` | `PrefixHolds`: the running total of `build_grounded_context` is the length of the joined text, separators included, and only the first block is cut; `JoinedAdds`: what one more block adds to that length, from the recursive definition, whose existence is shown by the least number for which it would fail (`Smallest`) |
| `RequestProtectionProofs`: `ProtectionTyped`, `MemoryAlwaysBounded`, `CapacityAlwaysCounted` | the types, `MemoryBounded` and `CapacityCounted` of `RequestProtection` | the counter is the cardinality of the tasks that are not out, and adding or removing one task changes it by one, so that the `max(0, ...)` of the release is never taken; a bucket is only appended to below the limit, and a key only added below `max_keys` or as the overflow |
| `RequestProtectionProofs`: `WindowAlwaysRespected`, `PatienceAlwaysRewarded` | `WindowRespected`, `PatienceRewarded` | `ProtectionHolds`, below |
| `KnowledgeProofs`: `KnowledgeTyped` | `Spec => []TypeOK` of `KnowledgeLifecycle` | one lemma per action, whatever overlaps |
| `KnowledgeProofs`: `PublicationIsServed`, `InspectionIsServed` | `PublishedIsServed`, `PassedWasServed` under `Apart` | `KnowledgeInv`, below |
| `KnowledgeProofs`: `WindowsSound`, `WindowsAlwaysAdvance`, `WindowsAlwaysCover` | the types, `WindowsAdvance` and `WindowsCover` for any text, limit and overlap | the running length is within the limit unless the window is one line; the last range ends where the next may begin; whatever is before the cursor is covered or blank |
| `KnowledgeProofs`: `NothingIsLost` | `ChunkSpec => []NothingLost`: any document of any kind, any lengths and budgets | `ChunkInv`, below |
| `KnowledgeProofs`: `IdsAlwaysDistinct` | `ChunkSpec => []IdsDistinct` | `IdsInv`, below |
| `KnowledgeProofs`: `AlwaysTraceable` | `ChunkSpec => []Traceable` | `TraceInv`, below |
| `KnowledgeProofs`: `WindowsTerminate`, `ChunkingEnds`, `NeverStuck` | what termination of chunking rests on: each step brings the end nearer, and none is missing | a window stays inside the text and starts later than the one before it (`SplitAdvances`); `StuckInv` |

`Exclusive` is stated in `SourceSyncProofs`: no CLI syncs, no adoptions, and a
lock that outlives its task. The runs with operators show why it is needed.
`SyncLastRunAgrees` and the three after it also assume `~CommitAckMayBeLost`: a
sync whose `complete_run` committed and raised goes on to `fail_run`, which
overwrites the success.

The two statements about the index say nothing of a run that is on its way or
has failed half way, so neither is inductive. `RecoveryInv` fills this in. Before
the first success every point is one some run wrote for its own manifest
(`Fresh`), and the first success clears all but its own. After it, the index is
`Between` the snapshot and the commit of the newest run: each point is the one
the state lists, relabelled or not, or one written for that commit, and a file
both have is not without points. `Progress` adds what the run has done by its
place in the code. That a retry continues from there needs the retried commit
to be the failed one, which is the premise `RetriedInPlace`; a premise about the
past, it can only become false (`RetriedBack`).

`ProtectionInv`, the invariant of the limiter, compares two sequences of ages,
a client's history and its bucket, that are purged at different moments. It
does so by counting: `Count(bucket, age)` is how many events are not older than
`age`, and for every age below the window a client's history has no more of them
than its own bucket and the overflow together. Only such counts survive a purge:
buckets are in order, so what expires is a prefix (`ExpiredPrefix`) and dropping it
changes no count below the window (`FreshCounts`, by a bijection), a tick shifts
them by one age (`OlderCounts`) and an admission adds one to both sides
(`AppendCounts`). `PatienceOK` is the same idea ahead of time: of a client refused
`r` times in a row with `w` half-seconds to wait, fewer than the limit of its
events are not older than `Window - 3 + r - w`. After one refusal the wait may end
half a second early, since Retry-After is rounded down; the second refusal then
meets an oldest event of age `Window - 1`, for which `max(1, ...)` is enough, and a
third would need the count to reach the limit.

`KnowledgeInv` says of every catalogue that exists anywhere (PostgreSQL's, the
backup's, the archive's, an inspection's) what the index still has of it
(`CopyOK`): a file that has not changed up to the newest commit indexed at
(`Latest`) has a point with its content and a label that is not older than the
catalogue (`Kept`), in the storage and in the archive. That is what lets a sync
after any failure or restore fetch only what differs from the catalogue it
finds, and `PlanOK` and `Progress` add what it has done by its place in the code.
For the contract it takes more, since two counts may agree by chance: a
catalogue that is not served gives itself away, by a point with a newer label or
by having none (`Telling`), and once it has been replaced its label is gone
(`Gone`). Each Qdrant request is shown to be `Rewritten`, which all of these
survive, so the fourteen kinds of step need one argument and not four each.
`Apart`, stated in `KnowledgeProofs`, is `~IndexOverlaps`: the code does not
enforce it, and with an index command beside a sync TLC refutes both properties.

The proof attempt found `PassedWasServed` as first stated, with `by`, to be
false: a model is changed, the source synced, PostgreSQL alone restored, the model
changed back. The restored catalogue was published with that model, but its
collection had lost files meanwhile, and the counts agreed. TLC confirmed it; the
property now asks for `along`.

`ChunkInv` follows a line from the document into a chunk. `SectionsCarry` says of
each of the scans that a line that is indexed is shown by a section or put in
front of one: cuts at an increasing sequence of lines leave no gap (`PieceOf`),
`strip` keeps what is not blank (`StrippedKeeps`), and the Turtle scan holds every
statement line in the statement under way or in a section with all prefixes before
it (`ScanHolds`). `Working` then says that such a line is in a chunk or carried by
a section that is left, and `Splitting` that the windows are those of the first
section and none is blank, so that `WindowsCover` hands every line on. That
deduplication loses nothing needs more, since it compares texts and not lines:
a Python chunk is `Located`, its lines being told by where it starts and how many
they are, so that what is taken out has the lines of what is left.

`IdsInv` tells chunks apart by the order of their sections. Each section but those
of Python is named after its start or not at all, and one without a name ends
before the next begins (`Ordered`, for Turtle by `ScanOrdered`); hence what has
been chunked `Precedes` what is left. That an unnamed section's windows stay
before the next one rests on `strip`: only a text with a final newline claims a
line too many, and of those a document has one. The property as first stated, for
unfinished documents too, TLC refuted on twelve lines of Python: two nested
functions of one name have windows that meet, part for part, until duplicates are
taken out. It now speaks of documents that are done, which is all that is indexed.

`TraceInv` says where a section's lines are. Each section is `Sited`: its lines
follow one another from its start (`Plain`: Markdown, YAML, JSON, Python and text
that is split as it is), or it is the stripped text before the first heading, said
to start at line 1 (`Introduces`), or it comes of the Turtle scan (`Stated`). Of the
last, `ScanTraces` says that the statement under way has all lines since it began
but blank ones and prefixes, and no end of a statement before its last; so a start
or an end that is wrong gives itself away by such a line (`StatedSpans`,
`LateShifts`), which are the exceptions `Shifted` and `LatePrefix` name, and
`KnowledgeChunk` refuses nothing else. Paths follow the heading stack: its levels rise,
popping leaves just the lower ones (`PoppedIs`), and what is left under a
heading are its `Ancestors` (`AncestorsAre`, `StackAlwaysRight`), the windows of a
section having no heading inside but those in fences. This took an assumption that
TLC's documents had by construction, that a blank line is no heading, key or
end of a statement.

That chunking ends is liveness and out of reach as such; what is proved is what it
rests on. `Advances`: a step of `split_text_by_lines` returns, moves to a later
window or makes the window longer, both bounded by the text, at any overlap;
`Nearer`: outside it the list of sections gets shorter; `NeverStuck`: until the call
returns one of the guards of its loops holds.

The least exception stands for induction in all this: that a scan exists at every
line is `ScanExists`, by `Smallest`, and what each step of it keeps holds throughout.

Model-checked only: the liveness properties `Recovers` and `EndsFresh` (the
prover does not reach fairness and ENABLED). Every other property of a passing run
is a theorem. The library's induction theorems take an operator and cannot be used,
but `Smallest` gives the same for one set at a time: what holds at 0 and is passed
on cannot have a least exception.

## 5. Findings

1. **A lost probe** (`provider_circuit_lost_probe`): a half-open probe that is
   cancelled reports nothing, its flag stays, and the circuit rejects for ever.
2. **An incomplete corpus passes the contract** (`knowledge_lifecycle_contract`).
   `docs/quality-gate.md:164` says that a stale or incomplete corpus cannot
   produce a valid full-corpus run, and `evaluate_corpus_contract` compares two
   numbers of chunks (`evaluation/corpus.py:221`). After a change of the embedding
   model the next sync fetches only what the commit changed, publishes, and the
   few chunks there are all carry the current snapshot. `PassedWasServed` states
   what does hold. A restore of PostgreSQL alone has the same effect if the model
   was another one for a while: the restored catalogue calls files unchanged that
   the collection no longer has under its label.

Seen while modelling, without a run of their own:

* *Sync.* Unchanged files are relabelled only if the stored snapshot differs from
  the manifest (`ingestion/sync.py:190`): a run at c2 that relabelled and was
  interrupted, followed by one back at the stored c1, leaves points labelled c2,
  although `docs/incremental-ingestion.md:69` says a retry converges;
  `RetryRepairs` states what holds. README.md:97 describes the lock as what keeps
  two runs from owning a source, and the CLI's sync takes none. Without the lock
  `complete_run` mixes runs (`state/store.py:245`): one that finds the source at
  its own snapshot writes only `last_successful_run_id`, and credits itself with
  the snapshot another commits meanwhile; one whose plan is old leaves a row it
  does not list; and rows are mixed column by column. Say
  c0 has a file as b2, c1 and c2 as b1, c3 as b3, and B planned c2 at c0. A run
  of c1 completes, then one of c2, for which the file is unchanged: the row is
  (b1, c1). B, completing, has only its content commit to change to c2; before
  it does, a run of c3 commits (b3, c3). B leaves (b3, c2): a citation of the
  wrong bytes, against "Snapshot versus content commit" in
  `docs/incremental-ingestion.md`. Whatever overlaps, `PublishesItsFiles` and
  `CitedFilesExist` hold. The first sync of
  a source whose files give no chunk fails, since nothing has created the
  collection its cleanup asks for.
* *Stores apart.* A file that a failed sync had already indexed is later
  relabelled as current, under the commit it was fetched at, and so it is after a
  restore of PostgreSQL alone. Switching the model back and forth relabels what
  the first collection has kept. An `index` beside a sync lets the contract pass
  an incomplete corpus; after a sync it gives unchanged files a second, current
  point. The archive's manifest names the base collection, though collections
  are named after models and the snapshot is of the whole storage.
* *Triggers.* A redelivery answered 202 as a duplicate is lost if the request it
  duplicates then fails to enqueue (`github_webhook.py:47`); the scheduler repairs
  this within its interval, as `EndsFresh` shows.
* *Circuit.* A late failure of an older call clears the probe flag while a probe is
  in flight and starts a new cooldown, after which a second probe is admitted
  beside the first (`ProbesSpaced` holds: they are a cooldown apart).
* *Accounts.* `delete_user` counts the enabled admins in an unlocked read and
  commits later (`user_ops.py:176`): without `OPS_ADMIN_KEY` two admins deleted at
  once leave none.
* *Reviews.* A dismissal and a promotion that both read the review as pending both
  commit (`quality/store.py:147`, against `docs/quality-loop.md:43`); what the
  unique key of `regression_case` still guarantees is `CasesAgree` and
  `CasesImmutable`.
* *Chunking.* A Turtle statement before the file's first prefix gets a start
  beyond its end (`structured.py:118`) and a ValueError fails every sync of the
  source. A text that fits and ends in a newline claims one line too many
  (`common.py`, `Traceable` allows it); the intro of a Markdown file is stripped
  but said to start at line 1; the windows of a split Turtle statement are
  counted without its blank lines, and a trailing statement is not split at all;
  prefixes after the last statement and YAML before the first key are in no
  chunk.
* *Retrieval.* The defaults let exact hits always come first, and so with
  `retrieval_top_k` at 20 an exact lane of 20 hits leaves no place for semantic
  ones.

## 6. Plan

Done: every module of section 2, with the proofs of section 4.

Left: `KnowledgeLifecycle` with two sources that share the collections.

Not modelled, and staying so: embeddings and rerank scores (numeric models),
routing vocabulary (a table of words; the filter it yields is `Hits`), account
names and session tokens, token and signature checks (they reject before any
change of state), observability, health and metrics (no state that matters),
schema migrations (run once before the services), the activity log (reads only),
the scoring gates of the evaluation (they compare finished numbers), and the
frontend (no state of its own).
