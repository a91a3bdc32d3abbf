------------------------------ MODULE Ingestion ------------------------------
(***************************************************************************)
(* The life of ONE document in the ingestion pipeline: the documents row,  *)
(* its chunks, the outbox events and broker tasks that carry work for it,  *)
(* the workers that execute ingest_document, the reconciler, and the       *)
(* requests of users and admins (app/tasks/ingest.py, maintenance.py,      *)
(* outbox.py, app/routers/documents.py, admin.py).  Documents do not       *)
(* interact in this code, so one row is enough.                            *)
(*                                                                         *)
(* A step is one committed database transaction, one broker operation, or  *)
(* one read whose result is used in a later transaction.  A Celery task    *)
(* keeps its id over retries and redeliveries, so a task is one member of  *)
(* Tasks from its publication to its acknowledgement; the uuid4 lease of   *)
(* an execution is named by the task that executes, which is unambiguous   *)
(* because a task is executed by one worker at a time.                     *)
(***************************************************************************)
EXTENDS Naturals, FiniteSets

CONSTANTS
    Tasks,         \* broker task slots (bound on concurrent ingest tasks)
    Sessions,      \* database sessions of the dispatcher and of admin requests
    Letters,       \* rows of dead_letter_tasks with source "ingest"
    Contents,      \* file contents (an object key and its content hash)
    Models,        \* embedding models workers may be configured with
    NULL,          \* SQL NULL
    Pieces,        \* embedding batches a content is split into
    MaxRetries,    \* Celery max_retries of ingest_document
    MaxVersion,    \* bound: no build of an index version beyond this one
    MaxOutbox,     \* bound on the unpublished events of requests and the reconciler
    MaxMoves,      \* bound on user and admin requests and faults together
    Faults,        \* which faults occur
    SlowStages,    \* may a stage outlast the heartbeat timeout?
    PromptDispatch \* does the dispatcher write the row as soon as it read it?

FaultKinds == {"error", "crash", "timelimit", "publish"}

ASSUME NullAssumption ==
    NULL \notin Tasks /\ NULL \notin Letters /\ NULL \notin Contents \X Models
ASSUME BoundAssumption ==
    /\ Pieces \in Nat /\ MaxRetries \in Nat
    /\ MaxVersion \in Nat /\ MaxOutbox \in Nat
    /\ MaxMoves \in Nat
ASSUME EnvironmentAssumption ==
    Faults \subseteq FaultKinds /\ SlowStages \in BOOLEAN /\ PromptDispatch \in BOOLEAN

VARIABLES
    status,      \* documents.status; "absent" once the row is hard-deleted
    token,       \* documents.processing_token: the task holding the lease
    active,      \* documents.active_index_version, 0 for NULL
    target,      \* documents.target_index_version, 0 for NULL
    content,     \* documents.content_hash / object_key
    fingerprint, \* documents.pipeline_fingerprint
    chunks,      \* rows of chunks
    letters,     \* pending dead letters
    outbox,      \* unpublished document.ingest.requested events
    deletes,     \* unfinished resource.delete.requested events
    pc,          \* where each task is
    tries,       \* request.retries of each task
    snap,        \* what an execution read from the row and from its settings
    pending,     \* pieces an execution still has to embed
    sess,        \* what a session read before its write
    moves        \* requests and faults the environment still has

rowVars  == <<status, token, active, target, content, fingerprint>>
taskVars == <<pc, tries, snap, pending>>
vars == <<rowVars, chunks, letters, outbox, deletes, taskVars, sess, moves>>

------------------------------------------------------------------------------
Running   == {"parsing", "chunking", "embedding", "indexing"}
Claimable == {"uploaded", "queued", "retrying"}
Settled   == {"ready", "failed", "cancelled", "deleting", "absent"}
Statuses  == Running \cup Claimable \cup Settled

Seqs == 1..Pieces

Chunk == [version: Nat, seq: Seqs, content: Contents, model: Models]

\* Inside the try block of ingest_document, and with a worker at all.
Working == {"parse", "chunk", "discard", "embed", "count", "activate"}
Live    == Working \cup {"load", "stamp", "retry"}

Snapshot == [content: Contents, target: Nat, model: Models, reuse: BOOLEAN]

\* What a session will write at its commit: the ORM emits only the columns whose
\* new value differs from the one the session read.
Session == [kind: {"free", "published", "mark", "requeue", "remove", "cleanup"},
            letter: Letters \cup {NULL},
            status: BOOLEAN,  \* status = 'queued' is written
            token: BOOLEAN,   \* processing_token = NULL is written
            target: Nat]      \* the target_index_version written, 0 for none; of a
                              \* cleanup: the active_index_version it has read

TypeOK ==
    /\ status \in Statuses
    /\ token \in Tasks \cup {NULL}
    /\ active \in Nat /\ target \in Nat
    /\ content \in Contents
    /\ fingerprint \in (Contents \X Models) \cup {NULL}
    /\ chunks \subseteq Chunk
    /\ letters \subseteq Letters
    /\ outbox \in Nat /\ deletes \in Nat
    /\ pc \in [Tasks -> Live \cup {"free", "broker", "done"}]
    /\ tries \in [Tasks -> 0..MaxRetries]
    /\ snap \in [Tasks -> Snapshot \cup {NULL}]
    /\ \A a \in Tasks : pc[a] \in Working \cup {"stamp"} => snap[a] \in Snapshot
    /\ pending \in [Tasks -> SUBSET Seqs]
    /\ sess \in [Sessions -> Session]
    /\ moves \in 0..MaxMoves

------------------------------------------------------------------------------
Holding(kind) == [kind |-> kind, letter |-> NULL, status |-> FALSE, token |-> FALSE,
                  target |-> 0]
FreeSession == Holding("free")

\* upload_document has committed the row and its first outbox event.
Init ==
    /\ status = "uploaded" /\ token = NULL
    /\ active = 0 /\ target = 0
    /\ content \in Contents /\ fingerprint = NULL
    /\ chunks = {} /\ letters = {}
    /\ outbox = 1 /\ deletes = 0
    /\ pc = [a \in Tasks |-> "free"]
    /\ tries = [a \in Tasks |-> 0]
    /\ snap = [a \in Tasks |-> NULL]
    /\ pending = [a \in Tasks |-> {}]
    /\ sess = [s \in Sessions |-> FreeSession]
    /\ moves = MaxMoves

Move == moves > 0 /\ moves' = moves - 1

Fault(f) == f \in Faults /\ Move

Goto(a, label) == pc' = [pc EXCEPT ![a] = label]

\* The execution of a task ends and its local variables die with it.  A task that
\* is "done" has not been acknowledged yet.
End(a, label) ==
    /\ Goto(a, label) /\ tries' = tries
    /\ snap' = [snap EXCEPT ![a] = NULL]
    /\ pending' = [pending EXCEPT ![a] = {}]

AtVersion(v) == {k \in chunks : k.version = v}
Served == AtVersion(active)

FreeLetters == {l \in Letters \ letters : \A s \in Sessions : sess[s].letter # l}

------------------------------------------------------------------------------
(* The worker: ingest_document.                                            *)

\* Mutant of Claim: a claim that forgets to choose a target version.
ClaimWithoutTarget(a) ==
    /\ pc[a] = "broker" /\ status \in Claimable
    /\ status' = "parsing" /\ token' = a
    /\ Goto(a, "load")
    /\ UNCHANGED <<active, target, content, fingerprint, chunks, letters, outbox, deletes,
                   tries, snap, pending, sess, moves>>

\* The claim CAS on the status columns; the lease is fresh.
Claim(a) ==
    /\ pc[a] = "broker" /\ status \in Claimable
    /\ target = 0 => active < MaxVersion
    /\ status' = "parsing" /\ token' = a
    /\ target' = IF target = 0 THEN active + 1 ELSE target
    /\ Goto(a, "load")
    /\ UNCHANGED <<active, content, fingerprint, chunks, letters, outbox, deletes,
                   tries, snap, pending, sess, moves>>

\* Nothing to claim: the delivery is dropped.
Skip(a) ==
    /\ pc[a] = "broker" /\ status \notin Claimable
    /\ End(a, "done")
    /\ UNCHANGED <<rowVars, chunks, letters, outbox, deletes, sess, moves>>

\* The only full read of the row, after the claim committed.
Load(a) ==
    /\ pc[a] = "load" /\ status # "absent"
    /\ \E m \in Models :
         LET reuse == fingerprint = <<content, m>>
         IN  /\ snap' = [snap EXCEPT ![a] =
                   [content |-> content, target |-> target, model |-> m, reuse |-> reuse]]
             /\ Goto(a, IF reuse THEN "parse" ELSE "stamp")
    /\ UNCHANGED <<rowVars, chunks, letters, outbox, deletes, tries, pending,
                   sess, moves>>

\* The row is gone: an exception outside the try block ends the task.
LoadMissing(a) ==
    /\ pc[a] = "load" /\ status = "absent"
    /\ End(a, "done")
    /\ UNCHANGED <<rowVars, chunks, letters, outbox, deletes, sess, moves>>

\* The new fingerprint is committed before any stale checkpoint is discarded.
Stamp(a) ==
    /\ pc[a] = "stamp"
    /\ fingerprint' = IF token = a THEN <<snap[a].content, snap[a].model>> ELSE fingerprint
    /\ Goto(a, "parse")
    /\ UNCHANGED <<status, token, active, target, content, chunks, letters, outbox,
                   deletes, tries, snap, pending, sess, moves>>

\* Mutant of SetStage: the stage update matches on the document id alone.
SetStageUnfenced(a, stage, next) ==
    /\ status' = stage /\ Goto(a, next)
    /\ UNCHANGED <<token, active, target, content, fingerprint, chunks, letters, outbox,
                   deletes, tries, snap, pending, sess, moves>>

\* _set_stage: a CAS on the lease; LeaseLostError ends the execution quietly.
SetStage(a, stage, next) ==
    /\ \/ token = a /\ status' = stage /\ Goto(a, next) /\ UNCHANGED <<tries, snap, pending>>
       \/ token # a /\ status' = status /\ End(a, "done")
    /\ UNCHANGED <<token, active, target, content, fingerprint, chunks, letters, outbox,
                   deletes, sess, moves>>

Parse(a) == pc[a] = "parse" /\ SetStage(a, "chunking", "chunk")

Split(a) == pc[a] = "chunk" /\ SetStage(a, "embedding", "discard")

\* Mutant of Discard: every checkpoint is kept, none is skipped.
DiscardNothing(a) ==
    /\ pc[a] = "discard" /\ snap[a].target # 0
    /\ pending' = [pending EXCEPT ![a] = Seqs]
    /\ Goto(a, "embed")
    /\ UNCHANGED <<rowVars, chunks, letters, outbox, deletes, tries, snap, sess, moves>>

\* Chunks of the target version whose text matches may be kept; the others are
\* deleted and the deletion committed.  The statement is not fenced by the lease.
\* A missing target raises RuntimeError; HolderHasTarget says that cannot happen.
Discard(a) ==
    LET v == snap[a].target
        reusable == {s \in Seqs : /\ snap[a].reuse
                                  /\ \E k \in AtVersion(v) :
                                       k.seq = s /\ k.content = snap[a].content}
    IN  /\ pc[a] = "discard" /\ v # 0
        /\ chunks' = {k \in chunks : k.version = v => k.seq \in reusable}
        /\ pending' = [pending EXCEPT ![a] = Seqs \ reusable]
        /\ Goto(a, "embed")
        /\ UNCHANGED <<rowVars, letters, outbox, deletes, tries, snap, sess, moves>>

\* UNIQUE(document_id, seq, index_version) and the foreign key to documents.
InsertRejected(a, s) ==
    status = "absent" \/ \E k \in AtVersion(snap[a].target) : k.seq = s

NextPiece(a, s) == s \in pending[a] /\ \A r \in pending[a] : s <= r

\* Mutant of EmbedBatch: batches are committed without touching the lease.
EmbedBatchUnfenced(a) ==
    /\ pc[a] = "embed"
    /\ \E s \in Seqs :
         /\ NextPiece(a, s) /\ ~InsertRejected(a, s)
         /\ chunks' = chunks \cup {[version |-> snap[a].target, seq |-> s,
                         content |-> snap[a].content, model |-> snap[a].model]}
         /\ pending' = [pending EXCEPT ![a] = @ \ {s}]
    /\ UNCHANGED <<rowVars, letters, outbox, deletes, pc, tries, snap, sess, moves>>

\* One batch: the chunks and the heartbeat commit together or not at all.
EmbedBatch(a) ==
    /\ pc[a] = "embed"
    /\ \E s \in Seqs :
         /\ NextPiece(a, s) /\ ~InsertRejected(a, s)
         /\ \/ /\ token = a
               /\ chunks' = chunks \cup
                    {[version |-> snap[a].target, seq |-> s,
                      content |-> snap[a].content, model |-> snap[a].model]}
               /\ pending' = [pending EXCEPT ![a] = @ \ {s}]
               /\ UNCHANGED <<pc, tries, snap>>
            \/ token # a /\ End(a, "done") /\ chunks' = chunks
    /\ UNCHANGED <<rowVars, letters, outbox, deletes, sess, moves>>

StartIndexing(a) ==
    pc[a] = "embed" /\ pending[a] = {} /\ SetStage(a, "indexing", "count")

\* Read before the activation statement: other commits may fall in between.
Count(a) ==
    /\ pc[a] = "count" /\ Cardinality(AtVersion(snap[a].target)) = Pieces
    /\ Goto(a, "activate")
    /\ UNCHANGED <<rowVars, chunks, letters, outbox, deletes, tries, snap, pending,
                   sess, moves>>

\* Mutant of Activate: the lease is not part of the activation's condition.
ActivateUnfenced(a) ==
    /\ pc[a] = "activate" /\ status = "indexing"
    /\ status' = "ready" /\ token' = NULL
    /\ active' = snap[a].target /\ target' = 0 /\ fingerprint' = NULL
    /\ End(a, "done")
    /\ UNCHANGED <<content, chunks, letters, outbox, deletes, sess, moves>>

\* The activation CAS switches the served version and gives the lease up.
Activate(a) ==
    /\ pc[a] = "activate"
    /\ \/ /\ token = a /\ status = "indexing"
          /\ status' = "ready" /\ token' = NULL
          /\ active' = snap[a].target /\ target' = 0 /\ fingerprint' = NULL
       \/ /\ ~(token = a /\ status = "indexing")
          /\ UNCHANGED <<status, token, active, target, fingerprint>>
    /\ End(a, "done")
    /\ UNCHANGED <<content, chunks, letters, outbox, deletes, sess, moves>>

\* Mutant of HandleError: one retry too many.
HandleErrorOffByOne(a, retryable) ==
    LET again == retryable /\ tries[a] <= MaxRetries
    IN  /\ IF token = a
           THEN status' = (IF again THEN "retrying" ELSE "failed") /\ token' = NULL
           ELSE UNCHANGED <<status, token>>
        /\ IF again \/ status = "absent"
           THEN letters' = letters
           ELSE \E l \in FreeLetters : letters' = letters \cup {l}
        /\ End(a, IF again THEN "retry" ELSE "done")
        /\ UNCHANGED <<active, target, content, fingerprint, chunks, outbox, deletes,
                       sess>>

\* The except block: one transaction for the status and the dead letter.  Only
\* the status is conditional on the lease.
HandleError(a, retryable) ==
    LET again == retryable /\ tries[a] < MaxRetries
    IN  /\ IF token = a
           THEN status' = (IF again THEN "retrying" ELSE "failed") /\ token' = NULL
           ELSE UNCHANGED <<status, token>>
        /\ IF again \/ status = "absent"
           THEN letters' = letters
           ELSE \E l \in FreeLetters : letters' = letters \cup {l}
        /\ End(a, IF again THEN "retry" ELSE "done")
        /\ UNCHANGED <<active, target, content, fingerprint, chunks, outbox, deletes,
                       sess>>

\* Storage, parser, embedding, graph or database errors, soft time limit.
FailTransient(a) == pc[a] \in Working /\ Fault("error") /\ HandleError(a, TRUE)

\* No text, no pieces, no knowledge base.
FailPermanent(a) ==
    pc[a] \in {"parse", "chunk", "discard"} /\ Fault("error") /\ HandleError(a, FALSE)

\* The insert is flushed before the lease is checked, so a duplicate surfaces as
\* an IntegrityError and not as a lost lease.
FailInsert(a) ==
    /\ pc[a] = "embed" /\ moves' = moves
    /\ \E s \in Seqs : NextPiece(a, s) /\ InsertRejected(a, s)
    /\ HandleError(a, TRUE)

FailCount(a) ==
    /\ pc[a] = "count" /\ moves' = moves
    /\ Cardinality(AtVersion(snap[a].target)) # Pieces
    /\ HandleError(a, TRUE)

\* self.retry publishes straight to the broker, after the handler's commit.
RetryPublish(a) ==
    /\ pc[a] = "retry"
    /\ Goto(a, "broker") /\ tries' = [tries EXCEPT ![a] = @ + 1]
    /\ UNCHANGED <<rowVars, chunks, letters, outbox, deletes, snap, pending, sess, moves>>

\* acks_late: the delivery is acknowledged after the execution.
Ack(a) ==
    /\ pc[a] = "done"
    /\ Goto(a, "free") /\ tries' = [tries EXCEPT ![a] = 0]
    /\ UNCHANGED <<rowVars, chunks, letters, outbox, deletes, snap, pending, sess, moves>>

\* A worker lost between the publication of a retry and the acknowledgement of the
\* delivery it retries: the broker has both.
RetryDuplicate(a) ==
    /\ pc[a] = "retry" /\ Fault("crash")
    /\ \E b \in Tasks :
         /\ pc[b] = "free"
         /\ pc' = [pc EXCEPT ![a] = "broker", ![b] = "broker"]
         /\ tries' = [tries EXCEPT ![a] = @ + 1, ![b] = tries[a]]
    /\ UNCHANGED <<rowVars, chunks, letters, outbox, deletes, snap, pending, sess>>

Leave(a, label) ==
    /\ End(a, label)
    /\ UNCHANGED <<rowVars, chunks, letters, outbox, deletes, sess>>

\* The broker refuses the retry: Celery rejects the task without requeueing it.
RetryLost(a) == pc[a] = "retry" /\ Fault("publish") /\ Leave(a, "done")

\* An error before the try block: the task fails and is acknowledged.
Abort(a) == pc[a] \in {"load", "stamp"} /\ Fault("error") /\ Leave(a, "done")

\* acks_late and reject_on_worker_lost: a lost worker's task is redelivered.
Crash(a) == pc[a] \in Live \cup {"done"} /\ Fault("crash") /\ Leave(a, "broker")

\* The hard time limit acknowledges the task it kills.
Kill(a) == pc[a] \in Live /\ Fault("timelimit") /\ Leave(a, "done")

Step(a) ==
    \/ Claim(a) \/ Skip(a) \/ Load(a) \/ LoadMissing(a) \/ Stamp(a) \/ Parse(a) \/ Split(a)
    \/ Discard(a) \/ EmbedBatch(a) \/ StartIndexing(a) \/ Count(a) \/ Activate(a)
    \/ FailInsert(a) \/ FailCount(a) \/ RetryPublish(a) \/ Ack(a)

FaultStep(a) ==
    \/ FailTransient(a) \/ FailPermanent(a) \/ RetryLost(a) \/ RetryDuplicate(a)
    \/ Abort(a) \/ Crash(a) \/ Kill(a)

------------------------------------------------------------------------------
(* Users: endpoints that lock the row and re-read it (FOR UPDATE,          *)
(* populate_existing), so each is one atomic step.                         *)

Enqueue == outbox < MaxOutbox /\ outbox' = outbox + 1

\* PUT /content: the lease of a running execution is left in place.
Replace(c) ==
    /\ Move /\ Enqueue /\ active < MaxVersion
    /\ status \notin {"deleting", "absent"}
    /\ content' = c /\ status' = "queued" /\ target' = active + 1
    /\ UNCHANGED <<token, active, fingerprint, chunks, letters, deletes, taskVars, sess>>

Reindex ==
    /\ Move /\ Enqueue /\ active < MaxVersion
    /\ status \in {"ready", "failed"}
    /\ status' = "queued" /\ target' = active + 1
    /\ UNCHANGED <<token, active, content, fingerprint, chunks, letters, deletes, taskVars,
                   sess>>

\* Mutant of Cancel: the running lease survives the cancellation.
CancelKeepsLease ==
    /\ Move /\ status \in Running \cup Claimable
    /\ status' = "cancelled"
    /\ UNCHANGED <<token, active, target, content, fingerprint, chunks, letters, outbox,
                   deletes, taskVars, sess>>

Cancel ==
    /\ Move /\ status \in Running \cup Claimable
    /\ status' = "cancelled" /\ token' = NULL
    /\ UNCHANGED <<active, target, content, fingerprint, chunks, letters, outbox, deletes,
                   taskVars, sess>>

Delete ==
    /\ Move /\ status # "absent"
    /\ status' = "deleting" /\ token' = NULL /\ deletes' = deletes + 1
    /\ UNCHANGED <<active, target, content, fingerprint, chunks, letters, outbox, taskVars,
                   sess>>

------------------------------------------------------------------------------
(* Unlocked read-modify-write transactions: the row may change between the *)
(* read that decides what to write and the commit that writes it.          *)

\* In-memory assignments of resume, replay and auto-retry over the row just read.
OpenRequeue(s, l) ==
    /\ sess[s].kind = "free" /\ (target = 0 => active < MaxVersion)
    /\ sess' = [sess EXCEPT ![s] =
          [kind |-> "requeue", letter |-> l, status |-> status # "queued",
           token |-> token # NULL, target |-> IF target = 0 THEN active + 1 ELSE 0]]

Close(s) == sess' = [sess EXCEPT ![s] = FreeSession]

\* The dispatcher takes an event and publishes its task ...
DispatchPublish(s) ==
    /\ sess[s].kind = "free" /\ outbox > 0
    /\ \E a \in Tasks : pc[a] = "free" /\ Goto(a, "broker")
    /\ outbox' = outbox - 1
    /\ sess' = [sess EXCEPT ![s] = Holding("published")]
    /\ UNCHANGED <<rowVars, chunks, letters, deletes, tries, snap, pending, moves>>

\* ... then reads the document: with nothing to mark, the event is just "sent".
DispatchRead(s) ==
    /\ sess[s].kind = "published"
    /\ sess' = [sess EXCEPT ![s] =
                   Holding(IF status = "uploaded" THEN "mark" ELSE "free")]
    /\ PromptDispatch => status # "uploaded"
    /\ UNCHANGED <<rowVars, chunks, letters, outbox, deletes, taskVars, moves>>

\* Read and write with nothing in between, the assumption PromptDispatch names.
DispatchMark(s) ==
    /\ PromptDispatch /\ sess[s].kind = "published" /\ status = "uploaded"
    /\ status' = "queued" /\ Close(s)
    /\ UNCHANGED <<token, active, target, content, fingerprint, chunks, letters, outbox,
                   deletes, taskVars, moves>>

\* ... and commits uploaded -> queued.  An UPDATE that matches no row fails the
\* commit, and the event is published again later.
DispatchCommit(s) ==
    /\ sess[s].kind = "mark" /\ Close(s)
    /\ IF status # "absent"
       THEN status' = "queued" /\ outbox' = outbox
       ELSE outbox' = outbox + 1 /\ status' = status
    /\ UNCHANGED <<token, active, target, content, fingerprint, chunks, letters, deletes,
                   taskVars, moves>>

\* A crashed dispatcher leaves the event "publishing": due again after a minute.
DispatchCrash(s) ==
    /\ sess[s].kind \in {"published", "mark"} /\ Fault("crash")
    /\ outbox' = outbox + 1 /\ Close(s)
    /\ UNCHANGED <<rowVars, chunks, letters, deletes, taskVars>>

\* delete_resources, once the object store has confirmed, looks at the row: only
\* one that is being deleted goes.
DeleteRead(s) ==
    /\ sess[s].kind = "free" /\ deletes > 0 /\ status = "deleting"
    /\ deletes' = deletes - 1
    /\ sess' = [sess EXCEPT ![s] = Holding("remove")]
    /\ UNCHANGED <<rowVars, chunks, letters, outbox, taskVars, moves>>

DeleteSkip ==
    /\ deletes > 0 /\ status # "deleting" /\ deletes' = deletes - 1
    /\ UNCHANGED <<rowVars, chunks, letters, outbox, taskVars, sess, moves>>

\* The row goes, whatever it says by now, and its chunks cascade.  When another
\* session was faster, the update matches no row and the task fails for good.
DeleteCommit(s) ==
    /\ sess[s].kind = "remove" /\ Close(s)
    /\ status' = "absent" /\ chunks' = {}
    /\ UNCHANGED <<token, active, target, content, fingerprint, letters, outbox, deletes,
                   taskVars, moves>>

\* acks_late: the deletion is delivered again.
DeleteCrash(s) ==
    /\ sess[s].kind = "remove" /\ Fault("crash")
    /\ deletes' = deletes + 1 /\ Close(s)
    /\ UNCHANGED <<rowVars, chunks, letters, outbox, taskVars>>

ResumeRead(s) ==
    /\ Move /\ status \in {"failed", "retrying", "cancelled"}
    /\ OpenRequeue(s, NULL)
    /\ UNCHANGED <<rowVars, chunks, letters, outbox, deletes, taskVars>>

\* replay_dead_letter looks at the letter's status, never at the document's.
ReplayRead(s) ==
    /\ Move /\ status # "absent"
    /\ \E l \in letters : OpenRequeue(s, l)
    /\ UNCHANGED <<rowVars, chunks, letters, outbox, deletes, taskVars>>

\* retry_pending_dead_letters, once a letter is older than the cooldown.
AutoRetryRead(s) ==
    /\ status \in {"failed", "retrying"}
    /\ \E l \in letters : OpenRequeue(s, l)
    /\ UNCHANGED <<rowVars, chunks, letters, outbox, deletes, taskVars, moves>>

AutoDiscard ==
    /\ status \notin {"failed", "retrying"}
    /\ \E l \in letters : letters' = letters \ {l}
    /\ UNCHANGED <<rowVars, chunks, outbox, deletes, taskVars, sess, moves>>

DiscardLetter ==
    /\ Move
    /\ \E l \in letters : letters' = letters \ {l}
    /\ UNCHANGED <<rowVars, chunks, outbox, deletes, taskVars, sess>>

\* The common write of resume_from_stage, replay_dead_letter and
\* retry_pending_dead_letters.
RequeueCommit(s) ==
    /\ sess[s].kind = "requeue" /\ status # "absent" /\ outbox' = outbox + 1
    /\ status' = IF sess[s].status THEN "queued" ELSE status
    /\ token' = IF sess[s].token THEN NULL ELSE token
    /\ target' = IF sess[s].target # 0 THEN sess[s].target ELSE target
    /\ letters' = letters \ {sess[s].letter}
    /\ Close(s)
    /\ UNCHANGED <<active, content, fingerprint, chunks, deletes, taskVars, moves>>

\* The row disappeared under the session: its UPDATE fails and rolls back.
RequeueRollback(s) ==
    /\ sess[s].kind = "requeue" /\ status = "absent" /\ Close(s)
    /\ UNCHANGED <<rowVars, chunks, letters, outbox, deletes, taskVars, moves>>

\* cleanup_superseded_indexes, run by an operator, reads which version is served ...
CleanupRead(s) ==
    /\ Move /\ active # 0 /\ status # "absent" /\ sess[s].kind = "free"
    /\ sess' = [sess EXCEPT ![s] =
                   [kind |-> "cleanup", letter |-> NULL, status |-> FALSE, token |-> FALSE,
                    target |-> active]]
    /\ UNCHANGED <<rowVars, chunks, letters, outbox, deletes, taskVars>>

\* ... and deletes the chunks of every other one, served by now or not.
CleanupDelete(s) ==
    /\ sess[s].kind = "cleanup" /\ Close(s)
    /\ chunks' = AtVersion(sess[s].target)
    /\ UNCHANGED <<rowVars, letters, outbox, deletes, taskVars, moves>>

SessionStep(s) ==
    \/ DispatchPublish(s) \/ DispatchRead(s) \/ DispatchMark(s) \/ DispatchCommit(s)
    \/ AutoRetryRead(s) \/ RequeueCommit(s) \/ RequeueRollback(s)
    \/ DeleteRead(s) \/ DeleteCommit(s) \/ CleanupDelete(s)

SessionEvent(s) ==
    \/ ResumeRead(s) \/ ReplayRead(s) \/ DispatchCrash(s) \/ DeleteCrash(s) \/ CleanupRead(s)

------------------------------------------------------------------------------
(* The reconciler.                                                         *)

LeaseHolderAlive == \E a \in Tasks : token = a /\ pc[a] \in Live

\* Mutant of Reconcile: the lease is reclaimed but no event is written.
ReconcileWithoutEvent ==
    /\ status \in Running /\ (SlowStages \/ ~LeaseHolderAlive)
    /\ status' = "retrying" /\ token' = NULL
    /\ UNCHANGED <<active, target, content, fingerprint, chunks, letters, outbox, deletes,
                   taskVars, sess, moves>>

\* The heartbeat of a dead holder ages past the cutoff; that of a live one does
\* too when a single stage or batch takes longer than the cutoff.
Reconcile ==
    /\ status \in Running /\ (SlowStages \/ ~LeaseHolderAlive) /\ Enqueue
    /\ status' = "retrying" /\ token' = NULL
    /\ UNCHANGED <<active, target, content, fingerprint, chunks, letters, deletes, taskVars,
                   sess, moves>>

------------------------------------------------------------------------------
Next ==
    \/ \E a \in Tasks : Step(a) \/ FaultStep(a)
    \/ \E s \in Sessions : SessionStep(s) \/ SessionEvent(s)
    \/ \E c \in Contents : Replace(c)
    \/ Reindex \/ Cancel \/ Delete \/ DeleteSkip
    \/ AutoDiscard \/ DiscardLetter \/ Reconcile

Spec == Init /\ [][Next]_vars

\* Worker processes run, beat fires the dispatcher, the reconciler and the
\* dead-letter retry periodically, deletions are delivered.  Requests and faults
\* are never owed.
Fairness ==
    /\ \A a \in Tasks : WF_vars(Step(a))
    /\ \A s \in Sessions : WF_vars(SessionStep(s))
    /\ WF_vars(Reconcile) /\ WF_vars(DeleteSkip) /\ WF_vars(AutoDiscard)

FairSpec == Spec /\ Fairness

------------------------------------------------------------------------------
(* Properties.                                                             *)

\* Chunks a search may return (retriever.py joins on active_index_version)
\* all come from the same file content, whatever replacements, retries,
\* resumed checkpoints and stale workers have been at work.
ServedIndexSingleContent ==
    \A k1, k2 \in Served : k1.content = k2.content

\* The worker that holds the lease never runs into the unique constraint on
\* (document, seq, version): a duplicate insert is always a lost lease.
HolderNeverCollides ==
    \A a \in Tasks : token = a /\ pc[a] = "embed" =>
        \A k \in AtVersion(snap[a].target) : k.seq \notin pending[a]

\* The lease holder works on a version the row has a target for: the RuntimeError
\* "target index version is missing" is unreachable.
HolderHasTarget ==
    \A a \in Tasks : token = a /\ pc[a] \in Working => snap[a].target # 0 /\ target # 0

\* A document at rest carries no lease, so no execution can move it any more:
\* this is what makes cancel, delete, failure and activation final.
RestingHasNoLease ==
    status \in (Settled \cup {"retrying"}) \ {"absent"} => token = NULL

\* What overrules a cancellation: a deletion; a transaction that puts an event
\* with the document back in the queue (a replacement, a resume, a replay, or an
\* automatic retry that had read the row before it was cancelled); and the
\* dispatcher, when it read the row still "uploaded".  Never the reconciler, and
\* never a worker, although the one that was running has not stopped.
Overrules(s) == sess[s].kind = "mark" /\ sess'[s].kind = "free"

CancelledStaysOut ==
    [][status = "cancelled" /\ status' # "cancelled" =>
         \/ status' \in {"deleting", "absent"}
         \/ status' = "queued" /\ outbox' = outbox + 1
         \/ status' = "queued" /\ \E s \in Sessions : Overrules(s)]_vars

\* An activation puts the activating worker's own content on line.
ActivationServesOwnContent ==
    [][active' # active =>
         \E a \in Tasks : /\ token = a /\ pc[a] = "activate"
                         /\ \A k \in Served' : k.content = snap[a].content]_vars

\* The served index is whole: every piece of the content is there (docs: the
\* old version stays untouched until the new one is complete and counted).
ActiveIndexComplete ==
    active # 0 /\ status # "absent" => {k.seq : k \in Served} = Seqs

\* The vectors a search compares all come from one embedding model (comment in
\* ingest_document: a fingerprint mismatch discards previous progress).
ServedIndexSingleModel ==
    \A k1, k2 \in Served : k1.model = k2.model

\* A document reported ready serves the content the row points at.
ReadyServesCurrentContent ==
    status = "ready" => \A k \in Served : k.content = content

\* A deletion that was accepted is carried through.
DeletingIsFinal ==
    [][status = "deleting" => status' \in {"deleting", "absent"}]_vars

\* Left alone for long enough, a document comes to rest: committed work is
\* neither lost nor repeated for ever.
EventuallySettles == <>[](status \in Settled)
==============================================================================
