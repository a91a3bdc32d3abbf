# TLA+ models of the RAG knowledge base

This directory holds the formal models kept beside the server: TLA+ modules
translated from the Python source, TLC configurations that check them on small
instances, and proofs of the most important invariants for every instance.

The server is a multi-tenant knowledge base: FastAPI endpoints, PostgreSQL with
pgvector, Redis, Celery workers and beat, and an S3-compatible object store.
What is hard in it is not any single function but the fact that the same
documents row is written by HTTP requests, by Celery workers that may be slow,
killed or redelivered, by a dispatcher, by a reconciler and by admin tools, and
that only some of these writers take a lock or compare a lease before they
write.

## 1. Inventory

| Component | State it keeps | Operations | What is hard | What makes it correct |
|---|---|---|---|---|
| Ingestion worker `tasks/ingest.py` | documents row (status, `processing_token`, active/target index version, fingerprint), chunks | claim, stage CAS, checkpoint discard, batch insert, count, activation, error handler, retry | several executions of one document, crash in every step, slow worker that lost its lease, checkpoints of earlier attempts | one content per served index, served index whole, cancel and delete final, no lost document |
| Broker and Celery `tasks/__init__.py` | queue, retries, redelivery | publish, deliver, ack late, redeliver, hard time limit | duplicates, redelivery after the last commit, retry message outside the outbox | work is done at least once, and once as far as the row can tell |
| Document endpoints `routers/documents.py` | documents row, outbox | upload, replace content, reindex, cancel, delete (`FOR UPDATE`) | they act under a running worker | the accepted request is what finally holds |
| Admin tools `routers/admin.py` | dead letters, documents row | resume, replay, discard, quarantine release | unlocked read, later write | no accepted request is overwritten |
| Maintenance `tasks/maintenance.py` | all of the above | reconcile leases, clean superseded indexes, delete resources, reconcile orphans, purge, retry dead letters | runs beside everything else | a live worker is not disturbed; nothing referenced is removed |
| Outbox dispatcher `tasks/outbox.py` | `outbox_events` (status, retry count, due time) | claim batch, publish, mark, back off, dead-letter | crash between publish and mark; batch longer than its claim | no event is lost, every failure ends in a letter |
| Resource deletion `delete_resources`, `services/resource_cleanup.py` | rows marked deleting, object keys | delete objects, hard-delete row, retry, dead-letter | partial failure; the row must outlive its objects | no orphan object, no row without object |
| Object storage client `services/object_storage.py` | objects | put, delete, list | no transaction spans objects and rows | a row's object is there, an unreferenced one goes away |
| Quarantine `admin.py` | `quarantined` flag | release | unlocked read against activation | only reviewed content is searchable |
| Chat capacity `services/concurrency.py`, `routers/chat.py` | Redis slots, local fallback slots | acquire, renew, release | Redis down or slow, expiry under a running answer | limits hold, slots come back |
| Semantic answer cache `services/semantic_cache.py` | a Redis list per user and knowledge base | lookup, store, invalidate | store after invalidate, invalidation cut short | an old answer has one of a few known causes |
| History and summary `services/history.py`, `summarizer.py` | Redis list, conversation summary and its boundary | load, refill, append, summarise | refill after append, two summaries out of order | summary and boundary agree; a turn sees its conversation |
| Token families `services/tokens.py` | Redis sets of families, revocation marks | issue, rotate, revoke family, revoke all | check and act are separate Redis calls | a revoked family has no live token |
| Audit chain `services/audit.py`, migration 0008 | `audit_logs` with hash chain | append (trigger), verify, purge with archive | sequence number drawn before the lock; rows the trigger cannot see | nothing is purged without an archive; only members append |
| Tenancy and quota `routers/tenancy.py`, `kb.py`, `imports.py` | memberships, storage sum | create, add, update, remove members, quota check | check-then-act | a workspace keeps an owner; the quota holds |
| LLM client `services/llm.py` | circuit breaker counters | ask, retry, fail over, record | calls share the breaker and answer late | a call fails only when every model it may use has |
| Retrieval and evidence `services/retriever.py`, `context.py`, `evidence.py` | none | recall, fuse, rerank, policy, pack, assess; check and repair citations | stages undo each other's order | no unsupported claim is stored; the best chunks are in the context |
| Chunker `services/chunker.py` | none | five strategies | boundaries, overlap, merged units | the chunks cover the text |
| Agent and memory `services/agent.py`, `memory.py` | source numbers of a turn | tool loop; memory ranking | the corpus changes under the loop | numbers name the chunks they were shown for |
| Row-level policies, migrations 0004 and 0007 | - | static filters | policies apply inside the trigger too | the two policies of `audit_logs` are in `Governance` |
| Metrics, tracing, redaction, rate limits, notifications, static UI, scripts | - | - | - | not modelled |

How they interact: an endpoint commits the business row **and** an outbox event
in one transaction; the dispatcher turns the event into a Celery task; the task
claims the document with a compare-and-swap that installs a fresh
`processing_token` (the lease), works in many small transactions that compare
the lease, and finally switches `active_index_version`. The reconciler takes
the lease away when its heartbeat is too old. Search joins chunks with
`active_index_version`, so the activation is the moment a version goes on line.

The hazards, each at the line where it bites, are listed in `PROJECT.json`.

## 2. Modules

| Module | Contents |
|---|---|
| `Ingestion.tla` | the core: one documents row, its chunks, outbox events, broker tasks, workers, requests, admin sessions, maintenance; its properties |
| `MCIngestion.tla` | symmetry sets for TLC; every `ingest_*.cfg` runs it |
| `IngestionProofs.tla` | theorems about `Ingestion` and their TLAPS proofs |
| `Outbox.tla` | the outbox table, its dispatchers, and the admin requests on its dead letters; its properties |
| `Delivery.tla` | the abstract specification of an outbox: at-least-once delivery with parking |
| `MCOutbox.tla` | the module every `outbox_*.cfg` runs |
| `OutboxProofs.tla` | theorems about `Outbox`, the refinement of `Delivery` among them |
| `Resources.tla`, `MCResources.tla`, `ResourcesProofs.tla` | documents, their objects and the storage quota of one workspace; its instance; its theorems |
| `Sessions.tla` | refresh tokens and their families |
| `Capacity.tla` | chat capacity leases |
| `Governance.tla`, `MCGovernance.tla` | workspaces, members, audit log, purge and archives |
| `Conversation.tla` | turns of one conversation: rows, history, summary |
| `AnswerCache.tla` | the semantic cache against activations, deletions and quarantine release |
| `Ranking.tla` | one search, from the recall routes to the context |
| `Citations.tla` | from the generated text to what is persisted and cached |
| `Providers.tla` | model calls through the circuit breaker |
| `Chunking.tla` | from segments to chunks |
| `Agent.tla`, `Memories.tla` | the tool loop and its source numbers; the ranking of memories |
| `MCServices.tla` | one instance of the eleven modules from `Sessions` to `Memories` |
| `AccountsProofs.tla` | theorems about `Sessions` and `Governance` |
| `ChatProofs.tla` | theorems about `Capacity`, `Conversation`, `Providers`, `Citations` and `AnswerCache` |
| `RetrievalProofs.tla` | theorems about `Ranking`, `Agent` and `Memories` |
| `ServicesProofs.tla` | theorems about `Chunking`, and about `MCServices`: all services together |
| `DataLemmas.tla` | lemmas these proofs share: smallest numbers, folds, sums, sorting by places |

`Ingestion` and `Outbox` look at the same table from two sides. `Ingestion`
keeps a count of unpublished events of one document, so that duplicates meet the
lease; `Outbox` keeps the whole row, so that claims, retry budget and letters
meet each other. `Delivery` is what lies between them: an event is delivered at
least once, perhaps again later, or parked, and a document's task may therefore
start any number of times.

### 2.1 State of `Ingestion`

| Variable | Code |
|---|---|
| `status`, `token`, `active`, `target`, `content`, `fingerprint` | columns `status`, `processing_token`, `active_index_version`, `target_index_version`, `content_hash`/`object_key`, `pipeline_fingerprint` of `documents`; `"absent"` is the hard-deleted row, 0 a NULL version |
| `chunks` | rows of `chunks`: version, sequence number, and the content and embedding model they were made of |
| `letters` | pending `dead_letter_tasks` with source `ingest` |
| `outbox`, `deletes` | unpublished `document.ingest.requested` events; `resource.delete.requested` events and their tasks |
| `pc`, `tries`, `snap`, `pending` | per broker task: where its execution is, `request.retries`, the row and settings as the execution read them, the pieces it still has to embed |
| `sess` | what the dispatcher, an admin request, the deletion task or the index cleanup read before its write |
| `moves` | requests and faults the environment still has (a bound) |

A step is one committed transaction, one broker operation, or one read whose
result is used in a later transaction. So the interleavings explored are the
ones PostgreSQL at READ COMMITTED allows between those transactions. Endpoints
that lock the row (`FOR UPDATE` with `populate_existing`) are one step. Admin
requests, the dead-letter retry, the dispatcher, the deletion task and the cleanup
of superseded indexes do not lock; they are two steps with a session in between, and the write contains only
the columns whose new value differs from the one the session read, because that
is what the ORM emits.

A Celery task keeps its id over retries and redeliveries and is executed by one
worker at a time, so the uuid lease of an execution is named by its task.
Redelivery while the first execution still runs (visibility timeout) is not in
this code's broker settings and not modelled; a *duplicate* task for the same
document is (`DispatchCrash`, `Reconcile`, requeues, `RetryDuplicate`).

### 2.2 Actions

| Action | Code |
|---|---|
| `Claim`, `Skip`, `Load`, `LoadMissing`, `Stamp` | claim CAS, dropped delivery, the only full read, fingerprint commit |
| `Parse`, `Split`, `StartIndexing` (`SetStage`) | `_set_stage` with its compare on the lease; a lost lease ends the execution |
| `Discard` | deletion of stale checkpoints, not fenced by the lease |
| `EmbedBatch` | one batch and its heartbeat, in one transaction |
| `Count`, `Activate` | the count, and the activation CAS in a later transaction |
| `FailTransient`, `FailPermanent`, `FailInsert`, `FailCount` (`HandleError`) | the except block: status, lease, dead letter |
| `RetryPublish`, `RetryDuplicate`, `RetryLost`, `Ack` | `self.retry`, acknowledgement and what may go wrong between them |
| `Abort`, `Crash`, `Kill` | failure outside the try block, lost worker with redelivery, hard time limit |
| `Replace`, `Reindex`, `Cancel`, `Delete` | the endpoints |
| `DispatchPublish`, `DispatchRead`, `DispatchMark`, `DispatchCommit`, `DispatchCrash` | the dispatcher, one event at a time |
| `ResumeRead`, `ReplayRead`, `AutoRetryRead`, `RequeueCommit`, `RequeueRollback` | resume, replay, automatic retry |
| `AutoDiscard`, `DiscardLetter` | letters that are no longer needed |
| `DeleteRead`, `DeleteSkip`, `DeleteCommit`, `DeleteCrash` | the database half of `delete_resources` |
| `Reconcile` | `reconcile_stale_ingestion` |
| `CleanupRead`, `CleanupDelete` | `cleanup_superseded_indexes`: the read of the active version, and the deletion of every other one |

Data that the properties cannot tell apart is abstract: a content is a model
value, a piece of it (an embedding batch) a number in `1..Pieces`, an embedding
its model. Every content has the same number of pieces. Parsing, chunking and
embedding have no result beyond that; their failures are transient
(`FailTransient`) or permanent (`FailPermanent`).

### 2.3 State and actions of `Outbox`

| Variable | Code |
|---|---|
| `status`, `retryCount` | columns of `outbox_events`; `"absent"` before the business commit |
| `due` | `next_retry_at <= now` |
| `letters` | `dead_letter_tasks` with source `outbox`, in order of creation |
| `delivered` | events the broker has accepted at least once |
| `batch`, `current` | per dispatcher: claimed events not looked at yet; the row it works on, as it read it |
| `request` | per admin request: the letter it read, and whether its replay will write the event's status |
| `moves` | failures, crashes, lapsed claims and admin requests still to come (a bound) |

| Action | Code |
|---|---|
| `Enqueue` | any business transaction that adds an event |
| `Claim` | the first transaction of `dispatch_outbox_batch`: select, mark publishing, push the due time ahead |
| `Read` | the event read again in its own session, skipped unless publishing |
| `Publish`, `MarkSent` | `apply_async`; the commit of `sent` |
| `Fail` | the except branch: counter, backoff, pending or failed with its letter |
| `Crash` | the dispatcher dies with claimed rows |
| `BecomesDue`: `Elapse`, `ClaimLapses` | time passes `next_retry_at`: after the backoff or a dead claim, or under a dispatcher that still works |
| `ReplayRead`, `DiscardRead` (`Open`), `ReplayCommit`, `DiscardCommit` | the admin endpoints, an unlocked read and a later write |

The selection is locked (`FOR UPDATE SKIP LOCKED`), everything after it is not:
two dispatchers that hold the same event after a lapsed claim overwrite each
other, and so do a dispatcher and a replay. As in `Ingestion`, a write contains
the columns whose value differs from the one read. Which broker task an event
becomes does not matter here, and events are not ordered: a locked row is skipped
in any case.

### 2.4 `Resources`

One workspace with one knowledge base. `rows` are the documents (status, object
key, content), `store` the objects, `req` the upload, import, replacement and
requeue requests, `jobs` the messages, tasks and dead letters of
`delete_resources`, `sweep` what the orphan reconciler has read, `quotaLock` the
advisory lock of the workspace, `kbLock` the row locks of a replacement,
`listing` the keys a deletion of the knowledge base has listed.

| Action | Code |
|---|---|
| `Begin`, `Reserve`, `Put`, `CreateCommit`, `CreateRejected` | upload and import: quota lock and sum, object, row and event in one commit, duplicate or quota rejection |
| `Refresh`, `RefreshFails` | the end of an import: it reads its committed row again, and deletes the object when that fails |
| `BeginReplace`, `LockRow`, `ReserveReplace`, `ReplaceCommit`, `ReplaceRejected`, `Trim` | `replace_document_content`; `Trim` deletes the old object after the commit |
| `CommitFails`, `Abandon`, `DeadlockAbort` | failed commit with its clean-up, death of the request, PostgreSQL breaking a lock cycle |
| `Delete`, `ListForDeletion`, `DeleteKnowledgeBase` | the deletion endpoints; the knowledge base lists its documents without a lock |
| `TaskDelete`, `TaskFinish`, `TaskFails`, `Replay`, `DiscardCleanup` | `delete_resources`, one object at a time, its retries, letter, replay |
| `RequeueRead`, `RequeueCommit` | resume, replay and automatic retry, which overwrite the status |
| `SweepRead`, `SweepList`, `SweepDelete`, `SweepEnd`, `Age` | the orphan reconciler, and time passing over an object |

An upload holds the quota lock while its insert takes a key share lock on the
knowledge base row; a replacement holds that row (its `FOR UPDATE` runs over a
join and locks both rows) while it waits for the quota lock. `DeadlockAbort` is
PostgreSQL's answer; an upload it chooses as victim flushes outside its `try`
and leaves its object behind. The duplicate check of a replacement looks among
the documents of the requesting user. A row whose accepted deletion a requeue
has overwritten (`ingest_undelete`) is `overruled`, and the promises exclude it.
An import reads the row it has committed again within its `try` (imports.py:243-249):
when that fails - the connection, the row level policy after the user has lost his
membership, or a row that is gone by then - the handler takes it for a failed commit
and deletes the object. Where the row is still there, the document has lost its file
for good; these objects are `unrefreshed`, and `LiveRowHasObject` excepts them
and the overruled documents, and nothing else. An in-doubt commit is not modelled: a commit fails and has not happened.

### 2.5 The services

Each of these modules has its own variables; `MCServices` runs them one at a
time (3.).

| Module | State | Actions |
|---|---|---|
| `Sessions` | `live`, `members`, `owned`, `index`, `revoked`: the Redis keys of `services/tokens.py`; `familyOf`: the signed tokens; `call`: each request | `Login`, `Check`, `Take`, `Unlist`, `Issue` (rotation); `Logout`, `ReadMembers`, `ReadOwner`, `Mark` (revoke a family); `Change`, `List`, `Clear` (revoke all); `Crash`. One Redis command or pipeline is one step |
| `Capacity` | `slot`: ticks left per backend, answer and scope; `answer`, `redisUp` | `Acquire`, `AcquireLocally`, `Stream`, `Beat`, `Release`, `FailEarly`, `Tick`, `RedisFails`, `RedisReturns`, `ProcessDies` |
| `Governance` | `role`, `log`, `request`, `nextSeq` (the sequence of `chain_seq`), `auditLock` (the trigger's advisory lock), `purge`, `archives`, `clock` | `Authorise`, `CreateWorkspace`, `ReadTarget`, `WriteMembership`, `WriteMembershipRejected`, `LinkRow` (the trigger; the policy is judged by what `WriteMembership`, the start of the insert, saw), `CommitChange`, `RequestFails`; `PurgeRead`, `PurgeArchive`, `PurgeDelete`, `PurgeFails`; `SweepArchives`, `DayPasses` |
| `Conversation` | `messages` by commit, `order` by `created_at`, `history` (Redis), `upto` and `covered` (summary), `turn` (a RAG or an agent turn) | `Begin`, `LoadCached`, `LoadRows`, `Refill`, `Flush`, `Persist`, `AppendQuestion`, `AppendAnswer`, `Summarize`, `StoreSummary`, `EndTurn`, `SlotLost`, `Expire`, `DeleteConversation` |
| `AnswerCache` | `cache`, `epoch` and `gone` (content on line), `quarantined`, `invalidations`, `release`, `asker` | `Lookup`, `Retrieve`, `Store`, `Delivered`; `GoOnline`, `GoOffline`, `ReadQuarantined`, `ReleaseQuarantined`; `DeleteKey`, `InvalidationFails`, `KeyExpires` |
| `Ranking` | `routes` (question, one variant of it, keyword, title, graph), `found`, `risky`, `stage` | `Recall`, `Fuse`, `OnePerParent`, `RuleRerank`, `Inject` or `InjectNothing`, `Pack`, `Assess`, in this order |
| `Citations` | `mode` (chat, chat in the JSON format, agent, agent without sources), `raw`, `text`, `valid`, `persisted`, `stored`, `step` | `Generate`, `GenerateFails`, `CheckCitations`, `Repair`, `RequireSubstance`, `PersistAnswer`, `StoreAnswer` |
| `Providers` | `failCount`, `openLeft` (the breaker), `llm` | `Ask`, `PrimaryAnswers`, `PrimaryFails`, `TryAgain`, `FallbackAnswers`, `FallbackFails`; `StreamEnds`, `StreamBreaks` (after the reply, when a stream is read); `CoolDown` |
| `Chunking` | `strategy`, `overlap`, `segments`, `chunks` | `SplitSegment` |
| `Agent` | `corpus`, `cited`, `shown`, `round` | `AskForTools`, `Search`, `OtherTool`, `ToolEnds`, `AnswerQuestion`, `GiveUp`, `ModelFails`; `CorpusChanges` |
| `Memories` | `inbox`, `memories` | `RecallMemories`, over every inbox within the bounds |

What code and model say that a reader of the documentation would not expect:

* `Sessions`: a rotation that passed the revocation check still issues a token
  into a family revoked meanwhile; no later rotation accepts it (`belated`).
* `Capacity`: a failed renewal ends the keep-alive for good, so that the slot of
  a running answer expires; `LimitsHold` counts answers whose renewals succeed.
* `Governance`: `chain_seq` is a sequence, drawn before the trigger takes its
  lock, so that rows are linked in another order than they are numbered
  (migration 0008:125-127 says the lock orders them); and the trigger sees only
  the rows the policies let the application role see. The policy of the insert is
  applied after the trigger, but by the snapshot of the INSERT statement, which is
  older than the wait for the trigger's lock: a member whose removal is committed
  during that wait still completes his change (`passed`; the history `outpaced`
  records such rows). The policy asks for a membership, not for a role: a demoted
  administrator completes what he began.
* `Conversation`: the first turn of a conversation takes no conversation slot,
  so that two turns can overlap; `ContextComplete` excludes that (`overlapped`).
  Agent turns are never given the summary (chat.py:278-285, agent.py:80-86), so
  that they do not know what the history no longer holds, where summarizer.py:3-7
  speaks of every prompt as the summary and the latest rounds; `ContextComplete`
  promises an agent turn the latest `HistoryMax` messages and no more. Rows are
  sorted by `created_at`, taken at the flush: a round whose commit is overtaken by a
  later one can fall behind a boundary already drawn, and is then in no summary
  (`slipped`).
* `AnswerCache`: a release clears the flag of whatever content is there when it
  commits (`overtaken`). Response format, filters and profile are not part of
  the cache key.
* `Ranking`: a negative score times 0.3 rises; near duplicates are found on raw
  text but stored compressed; the budget applies after the reordering, so the
  second best chunk is the first to go.
* `Citations`: a list item needs no reference (evidence.py:303-310): facts in
  bulleted lines are persisted and cached without one, where README.md:74 and
  docs/RAG能力矩阵.md:59 of the repository promise a check of every claim. `StoredIsCited`
  therefore speaks of claims outside lists, and says that an uncited list item is
  stored only in an answer that passed as it was generated.
  The removal of empty code blocks (evidence.py:371) is not anchored to lines: it also
  takes the text from ``` within a line, or from a fence line with a reference, to the
  next fence line, and the end of one block with the start of the next; the comment at
  evidence.py:370 speaks of blocks left empty. `RepairKeepsSupported` promises a
  line with ``` before its references only in texts without code blocks. A fence
  line of 12 or more characters counts as a claim without reference, so that a
  validly cited answer with such a line is repaired or replaced.
  In the JSON format a failed generation, or one that is no JSON of the schema, ends
  the turn with an error and no quotation.
  A failed entailment check is erased by the repair, which only
  looks at references (README.md:74-75 and docs/RAG能力矩阵.md:59 of the
  repository read otherwise).
* `Providers`: a stream that breaks while it is read raises at the caller; the
  breaker is not told, and no other model is tried (llm.py:247-255), where the
  docstring at llm.py:186 says that a failure of the primary switches to the fallback.
  `FailsOnlyWhenAllFail` speaks of failover up to the reply, and names the broken
  stream as the one other way to fail. The comment
  at llm.py:25 promises half-open probing, and the code has none; retries do not ask the breaker again.
* `Chunking`: the fixed split emits last chunks that lie inside the overlap. The
  validation accepts a chunk size of one or two characters, for which a chunk can
  be the empty line between two paragraphs and hold no text.

## 3. Runs

Passing runs:

| Run | Question | What it shows |
|---|---|---|
| `ingest_core` | Does the lease discipline survive every interleaving and every kind of fault? | `ServedIndexSingleContent`: a search never mixes two contents. `HolderNeverCollides`: a unique-constraint error always means a lost lease. `HolderHasTarget`: the "target is missing" error is unreachable for the lease holder. `RestingHasNoLease`: whoever brings a document to rest revokes the lease. `CancelledStaysOut`: a cancellation is overruled only by a deletion, by a transaction that also writes an event (replacement, resume, replay, or an automatic retry that had read the row before), or by a dispatcher that read `uploaded` before it; never by a worker that still runs, nor by the reconciler. `ActivationServesOwnContent`: what goes on line is what the activating worker read. |
| `ingest_live` | Does every document come to rest? | `EventuallySettles` under fairness, with crashes and transient errors in finite number. |
| `outbox_core` | Does the outbox keep its promise when dispatchers and requests overwrite each other? | `AtLeastOnce`: `Outbox` implements `Delivery`. `ParkedHasLetter`: a failed event has a letter that was not replayed. `EventuallyResolved`: every event is finally sent or parked. |
| `resources_core` | Do rows, objects and quota stay consistent without a common transaction? | `LiveRowHasObject`: no visible document loses its file, but by an import that could not read its committed row again. `RowOutlivesObject`: the task removes a row only after its object. `QuotaRespected`. `RequestsEnd` in spite of the two lock orders, `DeletionCompletes`, `OrphansCollected` under fairness. |
| `services_core` | Does each service keep its promise? | `OneTimeTokens`, `RevocationIsFinal`; `LimitsHold`, `CapacityComesBack`; `OwnerStays`, `ChangesByMembers`, `PurgedRowsArchived`; `ContextIsStored`, `ContextComplete`; `StaleAnswersExplained`, `SuspiciousWasReviewed`; `FusionRespectsAgreement`, `RiskyLosesRank`, `ContextShape`; `StoredIsCited`, `RepairKeepsSupported`; `FailsOnlyWhenAllFail`; `ChunksCoverText`; `NumbersNameSources`; `MemoriesFit` |

`services_core` chooses one service in its initial state (`focus`); the others
rest in one initial state each. They share no state a property speaks of, so the
run is eleven instances side by side, and its states are their sum (502 004)
and not their product.

Violation runs; each checks one property that a document, comment or docstring
of the repository states, and finds a real history that breaks it:

| Run | Property | History |
|---|---|---|
| `ingest_stale_discard` | `ActiveIndexComplete` | worker A stops before the unfenced checkpoint deletion and is reclaimed; B builds and activates the same version; A's deletion empties the served index |
| `ingest_mixed_models` | `ServedIndexSingleModel` | a worker with a new model commits the fingerprint and crashes before the deletion of the old checkpoints; the next attempt reuses them |
| `ingest_replace` | `ReadyServesCurrentContent` | the content is replaced while a worker runs; the worker keeps its lease, activates the old content and clears the target; the event of the replacement is skipped |
| `ingest_undelete` | `DeletingIsFinal` | resume reads the row, the deletion is accepted, resume writes `queued` |
| `ingest_slow` | `EventuallySettles` | a stage longer than the heartbeat timeout is reclaimed from a live worker, for ever |
| `outbox_recovery` | `ParkedCanBeReplayed` | the recovery event of the lease reconciler has no workspace; it fails, is parked, and its letter is "not found" to every administrator |
| `audit_archive` | `ArchivesVerify` | a purge archives the expired rows; a day later the orphan reconciler finds an object no document refers to and deletes the archive |

Without the reconciler `ArchivesVerify` is violated as well: two members of
different sight append to different ends of the chain, and two requests link
their rows in another order than the sequence numbered them.

`ingest_core` leaves these out because they do not hold; what it checks is what
does hold in the same model, with the same faults. Deadlock checking is off in
every run because a document at rest, or an event sent, with no request left
really stops. `outbox_core` takes every event to have a workspace
(`Recovery = {}`); none of its properties mentions visibility, and `Recovery`
only takes admin requests away.

### Bounds, and why they are enough

* `Tasks` 2: the interesting histories need a stale and a current execution.
  A third task adds executions that are stale too; the invariants speak about
  the holder against any other, and the proofs are for any number.
* `Pieces` 2 in `ingest_core`: a version can be empty, partial and whole.
* `Contents` 2, `Models` 1 in `ingest_core` (two models are the subject of
  `ingest_mixed_models`, where the mix is what is found); one content in
  `ingest_live`, since which content is built does not decide whether a build
  ends.
* `MaxRetries` 1: first attempt, a retry, exhaustion.
* `MaxMoves` 2 in `ingest_core`, 3 in `ingest_live`: user and admin requests and
  faults together, in any order; automatic activity (dispatcher, reconciler,
  dead-letter retry) is not counted.
* `MaxVersion`: in `ingest_core` 2, a first build and one rebuild. In
  `ingest_live` 6, which no behaviour with 3 moves reaches: had the bound been
  reached, a guard would stop work that the code would do and the run would
  report it as a violation of `EventuallySettles`. The same is true of
  `MaxOutbox`.
* `Sessions` 1 in `ingest_core`: one unlocked transaction at a time against the
  locked ones and the workers. `Sessions` 2 in `ingest_live`, where a deletion
  may remove the row under an open requeue. `Letters` 1. The proofs are for any
  number of both.

* `outbox_core`: two events, so that a batch is worked off one by one while the
  other event changes hands; two dispatchers, a stale and a current one; two
  requests, so that a replay races a replay or a discard of the same letter;
  `MaxRetries` 2, one failure within the budget and one at it, and failures
  beyond it after a replay; `BatchSize` 2. `MaxMoves` 5: enough for two failures,
  a replay, another failure and a lapsed claim or second request. `outbox_recovery`
  needs one event, one dispatcher and two failures.

* `resources_core`: two requests, two documents, three keys; two small contents
  fill the quota and a large one does so alone, so that every pair of requests
  competes for it. `MaxRetries` 1, `MaxFaults` 2. The operations come in seven
  combinations (`Mixes`), chosen so that the operations that touch the same rows,
  locks or keys are together; 121 213 states. Larger
  instances (182 000 and 617 000 states) were run apart from the project and found
  nothing else.
* `services_core`. Sessions: two clients, three tokens, two families, four
  requests, one crash: a rotation against a replay, a logout or a password
  change, and a login in between. Capacity: three answers of one user on two
  processes, two of them in one conversation, limits 2, one outage (with two, 87 797
  states, nothing else is found). Governance: three users, of whom the third is
  no member at first, two workspaces, two requests, two rows, two days. Conversation: two turns of either mode, up to three
  rounds (no turn begins once the committed messages and those of pending turns are
  five or more), a history of two messages, a summary from four on, one fault. AnswerCache: two
  requests of one user, two contents, one fault (two users: 816 101 states, no
  difference). Ranking: five chunks with two near-duplicate pairs and one shared
  parent, two routes of at most 2 and 3 results, or four of at most 1. Citations: every text of
  up to three lines of ten kinds, in four modes. Providers: two concurrent calls, four in all,
  threshold 3, every stream may break. Chunking: chunk size 4, segments of up to three paragraphs that
  fit, do not fit, or hold a sentence that fits, every strategy and overlap.
  Agent: three rounds, three chunks. Memories: three messages of four texts.
* `audit_archive`: the instance of `services_core` for `Governance`.

### Named assumptions about the environment

* `Faults`: `error` (an exception of storage, parser, embedder, graph or
  database), `crash` (a process dies), `timelimit` (Celery's hard kill), and
  `publish` (the retry message is lost or published twice).
* `SlowStages`: a stage or batch may outlast the reconciler's 300 s. FALSE is
  the assumption the reconciler's docstring makes.
* `PromptDispatch`: the dispatcher writes `queued` right after it read
  `uploaded`. The code does not guarantee it: without it, a cancellation or a
  finished delivery may fall between the read and the commit, and the row is
  left `queued` with no task. `ingest_core` does not assume it.
* `GraceIsLong` (in `Resources.Age`): an object does not outlive
  `orphan_object_grace_seconds` (a day) while its request is between put and
  commit. The code assumes it; nothing enforces it.
* `PreparationIsShort` (in `Capacity.Timely`): a request that holds a slot starts
  to stream within one lease, and a renewal, tried three times per lease, is not
  late. Loss of the data in Redis is left out.
* `created_at` of the messages comes from one clock: a round flushed later than another
  was committed is sorted behind it. The code takes the time of each process.
* In `Governance` no request takes a day, and `audit_archive_before_purge` is set, as
  it is by default; without it the purge keeps no archive. In `Sessions` nothing
  expires.

### Fairness

`FairSpec` requires weak fairness of each task's step (a worker process runs and
the broker delivers), of each session's step (beat starts the dispatcher every
2 s, the dead-letter retry periodically, and a transaction once begun ends), and
of `Reconcile`, `DeleteSkip` and `AutoDiscard` (beat again). Requests and faults
are not fair: they may never come. Faults are finite in number (`MaxMoves`);
with a file that can never be parsed the dead-letter retry repeats for ever, as
the code does, and `EventuallySettles` says nothing about that. The `publish`
fault is left out of `ingest_live`: a lost retry message leaves the row in
`retrying` with no task and no reconciler that looks at it, so the property is
false with it.

`Outbox` has its own `FairSpec`: weak fairness of each dispatcher's step as a
whole (beat starts one every 2 s, and a run once started goes on) and of
`Elapse` (time passes). Failures, crashes and requests are finite in number; an
event whose publication fails without end is parked by the retry budget, so that
this is no loss. No fairness is assumed of a choice inside a step.

`ResFairness`: weak fairness of every request (it runs to its end), of the
deletion task, its end and its replay per document (Celery delivers, beat retries
letters), and of the reconciler (daily, with `dry_run=False`); strong fairness of
`Age`, because a sweep under way interrupts it again and again without time
standing still. `CapFairness`: weak fairness of `Release` of each answer (every
stream ends) and of `Tick`; none of Redis returning. In `services_core` both
conditions are vacuous while another service runs. That run and `resources_core`
do not check deadlock: requests, tokens and messages are bounded, so each part
comes to an end.

## 4. Proofs

`IngestionProofs.tla` proves, for every number of tasks, sessions, letters,
contents, models, pieces and moves and for every fault set:

* `TypeCorrect`: `Spec => []TypeOK`;
* `ServedContent`: `Spec => []ServedIndexSingleContent`;
* `NoCollision`: `Spec => []HolderNeverCollides`;
* `HolderTarget`: `Spec => []HolderHasTarget`;
* `RestingLease`: `Spec => []RestingHasNoLease`;
* `CancelledOut`: `Spec => CancelledStaysOut`;
* `ActivationContent`: `Spec => ActivationServesOwnContent`.

The argument. `ServedIndexSingleContent` is not inductive: an activation serves
whatever the target version contains. Versions are filled by several executions
over time, so the invariant must speak about every version, not only the served
one (`VersionSingleContent`), about uniqueness of (version, sequence number)
(`UniqueChunks`, the database constraint), and about what the lease holder knows.
`HolderFaithful` is that last part: from the moment the holder has discarded the
stale checkpoints, every chunk of its target version has its content, and every
piece that is not pending is there. It is preserved because every other
execution fails the lease comparison inside the transaction that would insert
(`EmbedBatch`), and the unfenced deletions only remove chunks. With
`HolderNeverCollides` these four form `IndexInv`. The two lemmas `HolderSteps`
and `ChunkSteps` sort the actions by what they do to the lease holder and to the
chunks; `VersionStep`, `HolderStep` and `IndexInvStep` then need a handful of
cases instead of every action. The lease invariants (`LeaseHasTarget`,
`RestingHasNoLease`) are proved by one pass over the actions.

The proofs use the three named assumptions of `Ingestion` (NULL is no task,
letter or fingerprint; the bounds are naturals; the environment constants have
their types). TLC evaluates them in every run, and the conjunction of the
inductive invariants was checked by TLC on `ingest_core`'s instance before it was
proved.

`OutboxProofs.tla` proves, for every number of events, dispatchers, requests and
moves, every batch size and every retry budget:

* `OutboxTypes`: `Spec => []TypeOK`;
* `ParkedLetter`: `Spec => []ParkedHasLetter`;
* `Implementation`: `Spec => AtLeastOnce`, the refinement of `Delivery`.

`ParkedHasLetter` is not inductive: a replay that read the event as pending
resolves its letter without writing the event, and were that the only letter of
an event that has failed meanwhile, the event would be parked with none. The
strengthening `ParkedHasSafeLetter` says that among the unreplayed letters of a
parked event there is one no open request will take away like that: the failure
that parks the event writes a fresh letter, which no request has read, and a
request opened afterwards reads the event as failed and so reopens it. The
refinement needs `Backed`: nobody works on a row that does not exist, and a
dispatcher that has published has handed the event to the broker. `Places` and
`PlaceMove` turn a change of one row into one move of `Delivery`; a batch claim
changes rows only from pending to publishing, which is a stutter.

The assumptions are the two named ones of `Outbox` (bounds are naturals and not
zero where the settings are not; NULL is no record).

`ResourcesProofs.tla` proves, for every number of requests, documents, keys and
faults, every quota and every set of combinations: `ResTypeCorrect`,
`VisibleRowsKeepObjects` (`LiveRowHasObject`), `RowsOutliveObjects`
(`RowOutlivesObject`) and `QuotaHolds` (`QuotaRespected`). The inductive invariant
`ResInv` is an ownership argument: a key belongs to one request between put and
commit (`Private`), then to one row (`Separate`), then to a deletion no visible row
shares a key with (`Deletions`), or to the reconciler, which holds no key of a
visible row (`Sweeping`); `Drawn` says that a key drawn later is none of these. It
is preserved because every step hands a key on in this direction only; the
exceptions, a requeue that makes a deleted row visible again and an import that
deletes the object of the row it has committed, are what `overruled` and `unrefreshed`
record. The quota needs `Funded` beside it: a request past its quota check holds
the workspace's advisory lock, and the quota has room for what it will commit. What
is used is a sum over the documents; the lemmas `UsedIsTotal` and `UsedChange` turn a
change of one row into a change of one term.

`AccountsProofs.tla`. Of `Sessions`, `TokensAreOneTime` and `RevocationStays`, for
every number of concurrent requests, tokens, families and crashes. A token is spent
by one atomic `GETDEL`, so a rotation under way has taken a record that is gone
(`Rotating`, `SpentOnce`); a replay starts a revocation that either ends or is cut
(`Alarmed`); and a family revoked while a rotation passed its check has every
token issued afterwards among `belated`, which no later check lets through (`Late`).
`Listed` follows a password change through the families it has read.
Of `Governance`, `GovTypeCorrect`, `OwnerIsNeverLost`,
`RemovedMembersChangeNothing` and `PurgeArchivesFirst`, for every number of users,
workspaces, requests and rows. `Requests` says what a request carries from its
reads to its write: its workspace has its founder as owner, and the membership it
will change is not the founder's; this needs no lock, because nobody else may
change the founder's either. `Holding` is the lock argument for removed members:
a request with a linked row holds the advisory lock, so no other commit comes
between the linking and its own. Between the policy's snapshot and the lock one can:
a removal that commits then leaves the waiting rows of the removed member in
`outpaced`, and every row he gets committed afterwards is one of these. `Covered` says that rows are stamped with
the present, so that the past a purge has archived does not grow.

`ChatProofs.tla`. Of `Capacity`, `LimitsAlwaysHold`, for every finite set of answers
and every assignment of answers to processes, users and conversations. `Paid` is the
strengthening: an answer whose renewals succeed has an unexpired entry in every
scope of its backend, all with the same time left. So the answers at work in a
scope are among its unexpired entries, and the script admits another only where
these are fewer than the limit. That the entries are alike is needed for `Tick`,
whose assumption speaks of one scope only.
Of `Conversation`, for every number of turns and faults, `SummaryMatchesBoundary`
(`ContextIsStored`): what a turn is about to write is already committed
(`Committed`), and a summary carries the boundary it was made for, in an order of
rows that changes behind a boundary only by what is `slipped`; and
`ContextStaysComplete` (`ContextComplete`). `CompleteInv` says where a single turn
stands in terms of rows, history and boundary (`Stage`), and what the conversation
looks like when no turn is at work (`Rested`), as long as nothing has overlapped or
failed (`Calm`). The theorem has a hypothesis, `SettingsFit`, which the code does not
validate: what the summary leaves out fits into the history, the history holds
whole rounds, and it is long enough to wait for the next summary. The shipped
settings (12, 12 and 6 messages) satisfy it, as do those of the run. Settings outside
of it can lose messages: a history shorter than the gap between two summaries drops
some that no summary has.
Of `Providers`, `FailoverIsComplete`, for every number of
calls and every threshold, cooldown and retry budget; `WorksThrough` ties the
failures of a call to its place in the order of its models, and a stream that is being
read to the model that created it. Of `Citations`, for
texts of any length, `StoredAnswersAreCited` (`StoredIsCited`), from the verdict that
travels with the text (`Verdict`), and `RepairKeepsSupport`
(`RepairKeepsSupported`): the kept lines, the removal of empty code blocks and the
trimming each leave the references what they were (those behind ``` on their line only
where the text has no code block). The first two are folds,
compared step by step with the fold that collects the references; for the others
`ReferencesOfWindow` says that a part outside of which there are no references has
them all. Of `AnswerCache`, for any number of requests, users, entries,
activations and faults, `StaleAnswersAreExplained` and `SuspiciousIsReviewed`. In
`CacheInv` every entry is `Explained`: its content is on line, or one of the three
causes holds, where an invalidation under way explains the entries of the users it
has still to reach.

`RetrievalProofs.tla`. Of `Agent`, `NumbersAreSources`: the list of sources only
grows, so that a number stays a place in it. Of `Ranking`, for any chunks, texts,
parents, routes and budgets, `FusionAgrees`, `RiskyRankIsLost` and
`ContextHasShape`. `RankInv` says that the routes are rankings, and that the list has
each chunk once from fusion to packing. The score of a chunk falls with its rank in
every route, because `Unit` is divisible by every denominator (`SharesFall`), so a
chunk the routes agree on has more; sorting puts it first (`ByScoreSorts`, from
`PlacesAreTaken`: places count what comes before, so every place is taken once).
Packing is a chain of parts: leaving out near duplicates and what does not fit
gives a part of the list in the same order (`PartGrows`), a part of a list without
a valley has none, and the list that was turned around the middle has none
(`TurnsOnce`, `MiddleTurns`). Of `Memories`, for any number of messages,
`MemoriesAlwaysFit`: the memories are sorted by relevance like the results, and
taking the next keeps `Fitting`, which says of the candidates looked at so far what
what the property says of all.
`AgentTypeCorrect`, `RankTypeCorrect`, `MemTypeCorrect` and, in `ChatProofs.tla`,
`CiteTypeCorrect` are their types. That of the agent needs to know that a tool runs
only while a call is left (`AgentTyped`).

`ServicesProofs.tla`. Of `Chunking`, `ChunkTypeCorrect`, and `ChunksHoldTheText`
(`ChunksCoverText`) for segments of any number of paragraphs and sentences of any
length, every strategy and every overlap. The argument goes by what a text holds:
`Spans(t, lo, hi)` says that without its line breaks `t` is the letters
`lo + 1, ..., hi` of the segment, in order. Three notions are built on it. A
`TextUnit` is a text however many windows of which each hold a letter (`Cuttable`):
it ends with a letter and never has three line breaks in a row, so that a window of
three characters always hits one. A `Tiling` is a list of units of which each starts
where the one before ends, and a `Covering` a list of chunks that may overlap but
leave nothing out. The paragraphs, their windows without overlap, their sentences
and the semantic groups tile the segment (`ParagraphTiles`, `WindowsTile`,
`SentencesTile`, `GroupTiles`); the windows with an overlap cover it
(`WindowsCover`); and the merge turns a tiling into a covering (`MergeCovers`). The
last is an induction along the fold: what is done, with the chunk under construction
at its end, covers the units taken so far, and of its three ways to take another,
the one that starts a chunk with the end of the old one needs that such an end still
ends where the old one did (`LapSpans`). A chunk under construction that a step
forgets, as the mutant of the run does, breaks the covering at once.
`SplitCovers` carries this to the chunks of a file, segment after segment.
The theorem has the hypothesis `ChunkSize >= 3`: the code validates only that the
size is positive, and with one or two characters the invariant is false (see 2.5).
The shipped setting is 512.

Of `MCServices`, `EachServiceRuns`: its specification implies the specification of
each of the eleven services, as a step of one leaves the variables of the others
alone. So their theorems hold in it: `ServicesTypeCorrect` (`ServicesTypeOK`), and
`ServicesStaySafe`, the conjunction of all safety invariants of `services_core`
under the two hypotheses above, `SettingsFit` and `ChunkSize >= 3`. This is
composition without interaction: the services share no variable (2.5).

Folds and sums. There is no usable induction rule for operators here, and none is
needed: `UpTo` is induction on a set of numbers, proved from the well-foundedness of
the naturals through `NatMin`. `FoldExists` builds the function a `FoldLeft` of the
library chooses, and `FoldChain` gives the chain of its intermediate values, on
which the proofs do their induction. `TotalExists` and `SumIsTotal` do the same for
sums over finite sets. The prover does not see into `SortSeq` and `SelectSeq` and
cannot enumerate permutations, so `Ranking` and `Memories` sort by counting who comes
before, and filters are folds; TLC evaluates the same definitions.

The assumptions of these proofs are the named ones of their modules
(`ResourceConstants`, `SessionConstants`, `CapacityConstants`,
`GovernanceConstants`, `ProviderConstants`, `ConversationConstants`,
`CitationConstants`, `CacheConstants`, `RankingConstants`, `AgentConstants`,
`MemoryConstants`, `ChunkingConstants`), which TLC evaluates in the runs, and the two
hypotheses `SettingsFit` and `ChunkSize >= 3`. Before it was
proved, the strengthened invariant of `Ranking` was checked by TLC on the instance
of `services_core`.

Every safety invariant and every action property that a run checks is stated by a
theorem. Only model-checked: the liveness properties (`EventuallySettles`,
`EventuallyResolved`, `RequestsEnd`, `DeletionCompletes`, `OrphansCollected`,
`CapacityComesBack`), which are out of TLAPS's reach; and the seven violated
properties, where the counterexample is the proof.

## 5. Not modelled, and why

* In `Ingestion`: the graph rebuild, notifications, metrics and cache
  invalidation inside the activation, which share its transaction or are
  best-effort (the invalidation is in `AnswerCache`), and objects, where a missing
  one is an `error` fault (deletion is in `Resources`).
* Time: heartbeats, backoff and cooldowns are reduced to "may happen", bounded by
  fairness and by the named assumptions; leases, cooldowns and retention are ticks.
* `Sessions`: expiry, API keys, registration, cookies and websocket tickets (one
  `GETDEL`). Registration flushes outside its `try`, so that two equal ones give
  a 500 in place of a 409.
* `Governance`: organizations are constants; rows without a workspace, the
  backfill of migration 0008, and the verifier's start from zeros (which makes it
  reject the live table after a purge, a second archive, and the export of one
  workspace) are outside the model.
* `Ranking`: adjacency windows, cross-encoder and model reranking, the rounding of
  scores, and more than one variant of the question (graph recall and the route of the
  variant are rankings like the others). Migration 0005 gives all older chunks the same
  parent, so that one result per document is left of them.
* `Agent`: a database error in a tool aborts the transaction of the session; the
  model lets later tools succeed.
* Similarity, embeddings, prompts, parsing and tokenisation are data.
* Notifications, metrics, tracing, redaction and rate limits have no state that
  anything depends on; other row-level policies are static filters; UI, evaluation
  scripts and deployment are not part of the server's logic.
* `Citations`: of the lines with a reference to no source those that are fence lines,
  and further ``` on a fence line. A text in the JSON format is taken to have no line
  that begins a heading, quote or code block.
* Hazards with no property that holds against them. In the worker's world: the retry
  message published outside the outbox (ingest.py:536; with it `EventuallySettles` is
  false, see Fairness), the dispatcher's stale mark (outbox.py:72, see
  `PromptDispatch`), and the endless automatic retry of a document that cannot be
  ingested (maintenance.py:309; every attempt ends, so nothing is violated). In the
  services the code does what the hazard says, and the property nearest to it excepts
  that one cause by name: a login between the list and the clear of a password change,
  a release of quarantine overtaken by an activation, an answer stored after the
  invalidation, a refill that overwrites the history, and the order of `chain_seq`.

## 6. What is left

1. The composition of `Ingestion` with `AnswerCache`: the activation as the step
   both share, instead of `GoOnline` as its abstraction.
2. Websocket tickets and API keys in `Sessions`; organizations in `Governance`.
