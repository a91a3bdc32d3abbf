----------------------------- MODULE Resources -----------------------------
(***************************************************************************)
(* Documents and their objects.  A document row names the object that      *)
(* holds its file; rows live in PostgreSQL, objects in the object store,   *)
(* and no transaction spans the two.  The module follows one knowledge     *)
(* base through upload, import, replacement, deletion of a document and of *)
(* the knowledge base, the delete_resources task with its retries and dead *)
(* letters, the orphan reconciler, and the storage quota.  Ingestion is    *)
(* present only through the requeue operations (resume, replay, automatic  *)
(* retry), which overwrite the status of a row.                            *)
(***************************************************************************)
EXTENDS Integers, FiniteSets, FiniteSetsExt

CONSTANTS
    Requests,     \* concurrent API requests
    MaxDocs,      \* bound: documents ever created
    MaxKeys,      \* bound: object keys ever drawn
    Contents,     \* file contents, equal exactly when their hashes are
    SizeOf,       \* size of a content
    Quota,        \* workspace_storage_quota_mb
    MaxRetries,   \* resource_delete_max_retries
    MaxFaults,    \* bound: failed store calls, failed commits, crashes
    Mixes,        \* bound: the sets of operations that are used together
    None

VARIABLES
    kbExists,     \* the knowledge base row is there
    rows,         \* documents, by id; None before creation and after removal
    nextDoc, nextKey,
    store,        \* the objects: absent, fresh, or older than orphan_object_grace_seconds
    quotaLock,    \* holder of the advisory lock of the workspace
    kbLock,       \* request holding FOR UPDATE on a document and its knowledge base
    req,          \* what each request is doing
    listing,      \* keys read by a deletion of the knowledge base under way, or None
    jobs,         \* delete_resources messages, tasks and cleanup letters
    sweep,        \* the reconciler: what it read and what it is about to delete
    faults,
    mix,          \* the operations used in this behaviour
    overruled,    \* history: documents whose accepted deletion was overwritten by a
                  \* requeue, or whose cleanup letter an administrator discarded
    unrefreshed   \* history: objects of imports whose read of the committed row failed

resVars == <<kbExists, rows, nextDoc, nextKey, store, quotaLock, kbLock,
             req, listing, jobs, sweep, faults, mix, overruled, unrefreshed>>

Docs == 1..MaxDocs
Keys == 1..MaxKeys
Row == [status : {"live", "deleting"}, key : Keys, content : Contents]
ASSUME ResourceConstants ==
    /\ MaxDocs \in Nat /\ MaxKeys \in Nat /\ MaxRetries \in Nat /\ MaxFaults \in Nat
    /\ Quota \in Nat /\ SizeOf \in [Contents -> Nat]
    /\ \A m \in Mixes : m \subseteq {"upload", "import", "replace", "delete", "deleteKb",
                                     "requeue", "sweep", "fault"}
    /\ None \notin Requests /\ None \notin Contents /\ None \notin Nat /\ None \notin Row

Request == [op : {"none", "upload", "import", "replace", "requeue"},
            pc : {"idle", "staged", "locked", "reserved", "stored", "committed", "trim", "decided"},
            doc : Docs \cup {None}, key : Keys \cup {None}, content : Contents \cup {None}]
Idle == [op |-> "none", pc |-> "idle", doc |-> None, key |-> None, content |-> None]
Job == [doc : Docs \cup {None}, keys : SUBSET Keys, left : SUBSET Keys,
        retries : 0..MaxRetries, parked : BOOLEAN]
Resting == [pc |-> "idle", refs |-> {}, doomed |-> {}]

Present == {d \in Docs : rows[d] # None}
Referenced == {rows[d].key : d \in Present}
Stored(k) == store[k] # "absent"
Without(k) == [store EXCEPT ![k] = "absent"]   \* ObjectStorage.delete, also when absent
InFlight == {r \in Requests : req[r].pc \in {"staged", "locked", "reserved"}}
\* Sum of size_bytes over the rows of the workspace, those being deleted included.
Used == MapThenSumSet(LAMBDA d : SizeOf[rows[d].content], Present)
\* The unique constraint on (owner, knowledge base, content hash).
Duplicate(c, except) == \E d \in Present \ except : rows[d].content = c

ResInit ==
    /\ kbExists = TRUE
    /\ rows = [d \in Docs |-> None]
    /\ nextDoc = 1 /\ nextKey = 1
    /\ store = [k \in Keys |-> "absent"]
    /\ quotaLock = None /\ kbLock = None
    /\ req = [r \in Requests |-> Idle]
    /\ listing = None
    /\ jobs = {}
    /\ sweep = Resting
    /\ faults = 0
    /\ mix \in Mixes
    /\ overruled = {} /\ unrefreshed = {}

\* Bounds: every request under way can still draw a key, every creation an id.
WithinBounds ==
    /\ nextKey + Cardinality(InFlight) <= MaxKeys
    /\ nextDoc + Cardinality({r \in Requests : /\ req[r].op \in {"upload", "import"}
                                           /\ req[r].pc # "committed"}) <= MaxDocs

At(r, op, pc) == req[r].op = op /\ req[r].pc = pc
Goto(r, pc) == req' = [req EXCEPT ![r].pc = pc]
Freed(lock, r) == IF lock = r THEN None ELSE lock
\* Mutant: a session-level advisory lock, which the end of the transaction keeps.
EndKeepsQuotaLock(r) ==
    /\ req' = [req EXCEPT ![r] = Idle]
    /\ quotaLock' = quotaLock
    /\ kbLock' = Freed(kbLock, r)
\* The request ends: its transaction is over and its locks are free.
End(r) ==
    /\ req' = [req EXCEPT ![r] = Idle]
    /\ quotaLock' = Freed(quotaLock, r)
    /\ kbLock' = Freed(kbLock, r)
Fault == "fault" \in mix /\ faults < MaxFaults /\ faults' = faults + 1

-----------------------------------------------------------------------------
(* Upload and import: check, lock the quota, put the object, commit.       *)

\* The permission check finds the knowledge base; the body is staged or fetched.
\* An import looks for a duplicate before it waits for the quota lock.
Begin(r, op, c) ==
    /\ op \in mix /\ req[r] = Idle /\ kbExists /\ WithinBounds
    /\ op = "import" => ~Duplicate(c, {})
    /\ req' = [req EXCEPT ![r] = [Idle EXCEPT !.op = op, !.pc = "staged", !.content = c]]
    /\ UNCHANGED <<kbExists, rows, nextDoc, nextKey, store, quotaLock, kbLock,
                   listing, jobs, sweep, faults, mix, overruled, unrefreshed>>

\* Under the advisory lock: quota, and for an upload the duplicate check.
Reserve(r) ==
    /\ \E op \in {"upload", "import"} : At(r, op, "staged")
    /\ quotaLock = None
    /\ IF \/ Used + SizeOf[req[r].content] > Quota
          \/ req[r].op = "upload" /\ Duplicate(req[r].content, {})
       THEN End(r)
       ELSE quotaLock' = r /\ Goto(r, "reserved") /\ UNCHANGED kbLock
    /\ UNCHANGED <<kbExists, rows, nextDoc, nextKey, store, listing, jobs,
                   sweep, faults, mix, overruled, unrefreshed>>

\* put_file under a key that was never used before.
Put(r) ==
    /\ req[r].pc = "reserved" /\ nextKey \in Keys
    /\ req' = [req EXCEPT ![r].pc = "stored", ![r].key = nextKey]
    /\ store' = [store EXCEPT ![nextKey] = "fresh"]
    /\ nextKey' = nextKey + 1
    /\ UNCHANGED <<kbExists, rows, nextDoc, quotaLock, kbLock, listing, jobs,
                   sweep, faults, mix, overruled, unrefreshed>>

\* The insert takes a key-share lock on the knowledge base row, for which it waits
\* while a replacement holds that row.  The commit frees the locks; an import goes on to read
\* the committed row again.
CreateCommit(r) ==
    /\ \E op \in {"upload", "import"} : At(r, op, "stored")
    /\ kbLock = None /\ kbExists /\ ~Duplicate(req[r].content, {}) /\ nextDoc \in Docs
    /\ rows' = [rows EXCEPT ![nextDoc] =
                   [status |-> "live", key |-> req[r].key, content |-> req[r].content]]
    /\ nextDoc' = nextDoc + 1
    /\ IF req[r].op = "upload" THEN End(r)
       ELSE /\ req' = [req EXCEPT ![r].pc = "committed", ![r].doc = nextDoc]
            /\ quotaLock' = Freed(quotaLock, r) /\ kbLock' = Freed(kbLock, r)
    /\ UNCHANGED <<kbExists, nextKey, store, listing, jobs, sweep, faults, mix, overruled, unrefreshed>>

\* db.refresh, still within the try block of the import: when the row is gone by now it raises,
\* and the object is deleted.
Refresh(r) ==
    /\ At(r, "import", "committed")
    /\ store' = IF rows[req[r].doc] = None THEN Without(req[r].key) ELSE store
    /\ End(r)
    /\ UNCHANGED <<kbExists, rows, nextDoc, nextKey, listing, jobs, sweep, faults, mix,
                   overruled, unrefreshed>>

\* The same when the connection is lost, or the user no longer sees the row: the rollback
\* undoes nothing, and the object of a committed document is deleted.
RefreshFails(r) ==
    /\ At(r, "import", "committed") /\ Fault
    /\ store' = Without(req[r].key)
    /\ unrefreshed' = unrefreshed \cup {req[r].key}
    /\ End(r)
    /\ UNCHANGED <<kbExists, rows, nextDoc, nextKey, listing, jobs, sweep, mix, overruled>>

\* The insert fails: the knowledge base is gone or the content is a duplicate.  An
\* import deletes the object it put; an upload flushes outside its try block and
\* leaves the object behind.
CreateRejected(r) ==
    /\ \E op \in {"upload", "import"} : At(r, op, "stored")
    /\ kbLock = None
    /\ ~kbExists \/ Duplicate(req[r].content, {})
    /\ store' = IF req[r].op = "import" THEN Without(req[r].key) ELSE store
    /\ End(r)
    /\ UNCHANGED <<kbExists, rows, nextDoc, nextKey, listing, jobs, sweep,
                   faults, mix, overruled, unrefreshed>>

-----------------------------------------------------------------------------
(* Replacement: lock the row, then the quota, put, commit, trim.           *)

\* The row is read without a lock before the body is staged.
BeginReplace(r, d, c) ==
    /\ "replace" \in mix /\ WithinBounds
    /\ req[r] = Idle /\ rows[d] # None /\ rows[d].status = "live"
    /\ req' = [req EXCEPT ![r] = [Idle EXCEPT !.op = "replace", !.pc = "staged",
                                              !.doc = d, !.content = c]]
    /\ UNCHANGED <<kbExists, rows, nextDoc, nextKey, store, quotaLock, kbLock,
                   listing, jobs, sweep, faults, mix, overruled, unrefreshed>>

\* SELECT ... FOR UPDATE over the join: locks the document and its knowledge base.
\* The duplicate check looks at the documents of the requesting user, who need not
\* be the owner of this one; then it finds nothing.
LockRow(r) ==
    /\ At(r, "replace", "staged") /\ kbLock = None
    /\ LET d == req[r].doc IN
       \/ /\ rows[d] # None /\ rows[d].status = "live"
          /\ kbLock' = r /\ Goto(r, "locked") /\ UNCHANGED quotaLock
       \/ /\ rows[d] # None => rows[d].status # "live" \/ Duplicate(req[r].content, {d})
          /\ End(r)
    /\ UNCHANGED <<kbExists, rows, nextDoc, nextKey, store, listing, jobs,
                   sweep, faults, mix, overruled, unrefreshed>>

\* Mutant: the replacement checks the quota without the advisory lock.
ReserveReplaceUnlocked(r) ==
    /\ At(r, "replace", "locked")
    /\ IF Used - SizeOf[rows[req[r].doc].content] + SizeOf[req[r].content] > Quota
       THEN End(r)
       ELSE Goto(r, "reserved") /\ UNCHANGED <<kbLock, quotaLock>>
    /\ UNCHANGED <<kbExists, rows, nextDoc, nextKey, store, listing, jobs,
                   sweep, faults, mix, overruled, unrefreshed>>

ReserveReplace(r) ==
    /\ At(r, "replace", "locked") /\ quotaLock = None
    /\ IF Used - SizeOf[rows[req[r].doc].content] + SizeOf[req[r].content] > Quota
       THEN End(r)
       ELSE quotaLock' = r /\ Goto(r, "reserved") /\ UNCHANGED kbLock
    /\ UNCHANGED <<kbExists, rows, nextDoc, nextKey, store, listing, jobs,
                   sweep, faults, mix, overruled, unrefreshed>>

\* The commit points the row at the new object and frees both locks; the old key is
\* remembered by the request, which deletes that object next.
ReplaceCommit(r) ==
    /\ At(r, "replace", "stored")
    /\ LET d == req[r].doc IN
       /\ ~Duplicate(req[r].content, {d})
       /\ rows' = [rows EXCEPT ![d] =
                      [status |-> "live", key |-> req[r].key, content |-> req[r].content]]
       /\ req' = [req EXCEPT ![r].pc = "trim", ![r].key = rows[d].key]
    /\ quotaLock' = Freed(quotaLock, r) /\ kbLock' = Freed(kbLock, r)
    /\ UNCHANGED <<kbExists, nextDoc, nextKey, store, listing, jobs, sweep,
                   faults, mix, overruled, unrefreshed>>

ReplaceRejected(r) ==
    /\ At(r, "replace", "stored") /\ Duplicate(req[r].content, {req[r].doc})
    /\ store' = Without(req[r].key)
    /\ End(r)
    /\ UNCHANGED <<kbExists, rows, nextDoc, nextKey, listing, jobs, sweep,
                   faults, mix, overruled, unrefreshed>>

Trim(r) ==
    /\ At(r, "replace", "trim")
    /\ store' = Without(req[r].key)
    /\ End(r)
    /\ UNCHANGED <<kbExists, rows, nextDoc, nextKey, listing, jobs, sweep,
                   faults, mix, overruled, unrefreshed>>

-----------------------------------------------------------------------------
(* Failures of a request.                                                  *)

\* The commit raises: rollback, and the new object is deleted.
CommitFails(r) ==
    /\ req[r].pc = "stored" /\ Fault
    /\ store' = Without(req[r].key)
    /\ End(r)
    /\ UNCHANGED <<kbExists, rows, nextDoc, nextKey, listing, jobs, sweep, mix, overruled, unrefreshed>>

\* The process dies, put_file raises, or the deletion of an object after a rollback
\* or a replacement raises: the transaction is over and the store stays as it is.
Abandon(r) ==
    /\ req[r] # Idle /\ Fault
    /\ End(r)
    /\ UNCHANGED <<kbExists, rows, nextDoc, nextKey, store, listing, jobs, sweep,
                   mix, overruled, unrefreshed>>

\* A creation holds the quota lock and waits for the knowledge base row, a replacement
\* holds the row and waits for the quota lock: PostgreSQL aborts one of the two.
Deadlocked(u, p) ==
    /\ \E op \in {"upload", "import"} : At(u, op, "stored")
    /\ quotaLock = u /\ kbLock = p /\ At(p, "replace", "locked")

DeadlockAbort(u, p) ==
    /\ Deadlocked(u, p)
    /\ \/ End(u) /\ store' = IF req[u].op = "import" THEN Without(req[u].key) ELSE store
       \/ End(p) /\ UNCHANGED store
    /\ UNCHANGED <<kbExists, rows, nextDoc, nextKey, listing, jobs, sweep, faults, mix,
                   overruled, unrefreshed>>

-----------------------------------------------------------------------------
(* Deletion of a document and of the knowledge base.                       *)

NewJob(d, keys) == [doc |-> d, keys |-> keys, left |-> keys, retries |-> 0, parked |-> FALSE]

\* Status and resource.delete event in one transaction under the row lock.
Delete(d) ==
    /\ "delete" \in mix
    /\ rows[d] # None /\ kbLock = None
    /\ rows' = [rows EXCEPT ![d].status = "deleting"]
    /\ jobs' = jobs \cup {NewJob(d, {rows[d].key})}
    /\ UNCHANGED <<kbExists, nextDoc, nextKey, store, quotaLock, kbLock, req,
                   listing, sweep, faults, mix, overruled, unrefreshed>>

\* The documents are read without a lock.
ListForDeletion ==
    /\ "deleteKb" \in mix /\ kbExists /\ listing = None
    /\ listing' = rows
    /\ UNCHANGED <<kbExists, rows, nextDoc, nextKey, store, quotaLock, kbLock, req,
                   jobs, sweep, faults, mix, overruled, unrefreshed>>

\* A document that was live when listed and is gone by now fails the update.
ListingStale == \E d \in Docs : listing[d] # None /\ listing[d].status = "live" /\ rows[d] = None

DeleteKnowledgeBase ==
    /\ listing # None /\ kbLock = None
    /\ listing' = None
    /\ IF ListingStale
       THEN UNCHANGED <<kbExists, rows, jobs>>
       ELSE LET keys == {listing[d].key : d \in {e \in Docs : listing[e] # None}} IN
            /\ kbExists' = FALSE
            /\ rows' = [d \in Docs |-> None]
            /\ jobs' = IF keys = {} THEN jobs ELSE jobs \cup {NewJob(None, keys)}
    /\ UNCHANGED <<nextDoc, nextKey, store, quotaLock, kbLock, req, sweep, faults, mix,
                   overruled, unrefreshed>>

-----------------------------------------------------------------------------
(* delete_resources, its retries and its dead letters.                     *)

Become(j, k) == jobs' = (jobs \ {j}) \cup {k}

TaskDelete(j, k) ==
    /\ ~j.parked /\ k \in j.left
    /\ store' = Without(k)
    /\ Become(j, [j EXCEPT !.left = @ \ {k}])
    /\ UNCHANGED <<kbExists, rows, nextDoc, nextKey, quotaLock, kbLock, req, listing,
                   sweep, faults, mix, overruled, unrefreshed>>

\* Mutant: the budget is compared after the increment.
TaskFailsOffByOne(j) ==
    /\ ~j.parked /\ j.left # {} /\ Fault
    /\ Become(j, IF j.retries <= MaxRetries
                 THEN [j EXCEPT !.left = j.keys, !.retries = @ + 1]
                 ELSE [j EXCEPT !.left = j.keys, !.parked = TRUE])
    /\ UNCHANGED <<kbExists, rows, nextDoc, nextKey, store, quotaLock, kbLock, req,
                   listing, sweep, mix, overruled, unrefreshed>>

\* storage.delete raises: retry from the first key, a dead letter when the budget is spent.
TaskFails(j) ==
    /\ ~j.parked /\ j.left # {} /\ Fault
    /\ Become(j, IF j.retries < MaxRetries
                 THEN [j EXCEPT !.left = j.keys, !.retries = @ + 1]
                 ELSE [j EXCEPT !.left = j.keys, !.parked = TRUE])
    /\ UNCHANGED <<kbExists, rows, nextDoc, nextKey, store, quotaLock, kbLock, req,
                   listing, sweep, mix, overruled, unrefreshed>>

\* Mutant: the row is removed before the objects.
TaskFinishEarly(j) ==
    /\ ~j.parked
    /\ rows' = IF j.doc # None /\ rows[j.doc] # None /\ rows[j.doc].status = "deleting"
               THEN [rows EXCEPT ![j.doc] = None] ELSE rows
    /\ jobs' = jobs
    /\ UNCHANGED <<kbExists, nextDoc, nextKey, store, quotaLock, kbLock, req, listing,
                   sweep, faults, mix, overruled, unrefreshed>>

\* All objects are gone: the row goes, if it is still marked.  The acknowledgement may
\* be lost, and the task is delivered again.
TaskFinish(j) ==
    /\ ~j.parked /\ j.left = {}
    /\ rows' = IF j.doc # None /\ rows[j.doc] # None /\ rows[j.doc].status = "deleting"
               THEN [rows EXCEPT ![j.doc] = None] ELSE rows
    /\ \/ jobs' = jobs \ {j} /\ UNCHANGED faults
       \/ Become(j, [j EXCEPT !.left = j.keys]) /\ Fault
    /\ UNCHANGED <<kbExists, nextDoc, nextKey, store, quotaLock, kbLock, req, listing,
                   sweep, mix, overruled, unrefreshed>>

\* Mutant: the payload of the letter lost its document.
ReplayWithoutDocument(j) ==
    /\ j.parked
    /\ Become(j, NewJob(None, j.keys))
    /\ UNCHANGED <<kbExists, rows, nextDoc, nextKey, store, quotaLock, kbLock, req,
                   listing, sweep, faults, mix, overruled, unrefreshed>>

\* Replay by an administrator, or retry_pending_dead_letters: a new event, same payload.
Replay(j) ==
    /\ j.parked
    /\ Become(j, NewJob(j.doc, j.keys))
    /\ UNCHANGED <<kbExists, rows, nextDoc, nextKey, store, quotaLock, kbLock, req,
                   listing, sweep, faults, mix, overruled, unrefreshed>>

DiscardCleanup(j) ==
    /\ j.parked
    /\ jobs' = jobs \ {j}
    /\ overruled' = overruled \cup ({j.doc} \ {None})
    /\ UNCHANGED <<kbExists, rows, nextDoc, nextKey, store, quotaLock, kbLock, req,
                   listing, sweep, faults, mix, unrefreshed>>

-----------------------------------------------------------------------------
(* Requeue (resume, replay of an ingest letter, automatic retry): decided on an   *)
(* unlocked read of a live document, written later.                               *)

RequeueRead(r, d) ==
    /\ "requeue" \in mix
    /\ req[r] = Idle /\ rows[d] # None /\ rows[d].status = "live"
    /\ req' = [req EXCEPT ![r] = [Idle EXCEPT !.op = "requeue", !.pc = "decided", !.doc = d]]
    /\ UNCHANGED <<kbExists, rows, nextDoc, nextKey, store, quotaLock, kbLock,
                   listing, jobs, sweep, faults, mix, overruled, unrefreshed>>

RequeueCommit(r) ==
    /\ At(r, "requeue", "decided")
    /\ kbLock # None => req[kbLock].doc # req[r].doc   \* the update waits for the row
    /\ LET d == req[r].doc IN
       IF rows[d] # None
       THEN /\ rows' = [rows EXCEPT ![d].status = "live"]
            /\ overruled' = IF rows[d].status = "deleting" THEN overruled \cup {d} ELSE overruled
       ELSE UNCHANGED <<rows, overruled, unrefreshed>>
    /\ End(r)
    /\ UNCHANGED <<kbExists, nextDoc, nextKey, store, listing, jobs, sweep, faults, mix,
                   unrefreshed>>

-----------------------------------------------------------------------------
(* reconcile_orphan_objects: references first, listing second, then deletions.    *)

\* Assumption GraceIsLong: neither a request between put and commit nor a run of the
\* reconciler lasts as long as the grace period.
Age(k) ==
    /\ "sweep" \in mix /\ store[k] = "fresh" /\ sweep.pc = "idle"
    /\ \A r \in Requests : req[r].pc = "stored" => req[r].key # k
    /\ store' = [store EXCEPT ![k] = "old"]
    /\ UNCHANGED <<kbExists, rows, nextDoc, nextKey, quotaLock, kbLock, req,
                   listing, jobs, sweep, faults, mix, overruled, unrefreshed>>

SweepRead ==
    /\ "sweep" \in mix
    /\ sweep.pc = "idle"
    /\ sweep' = [sweep EXCEPT !.pc = "read", !.refs = Referenced]
    /\ UNCHANGED <<kbExists, rows, nextDoc, nextKey, store, quotaLock, kbLock, req,
                   listing, jobs, faults, mix, overruled, unrefreshed>>

\* Mutant: the grace period is ignored.
SweepListAnyAge ==
    /\ sweep.pc = "read"
    /\ sweep' = [sweep EXCEPT !.pc = "listed", !.doomed = {k \in Keys \ sweep.refs : Stored(k)}]
    /\ UNCHANGED <<kbExists, rows, nextDoc, nextKey, store, quotaLock, kbLock, req,
                   listing, jobs, faults, mix, overruled, unrefreshed>>

\* Mutant: the beat schedule leaves dry_run at its default.
SweepListDryRun ==
    /\ sweep.pc = "read"
    /\ sweep' = [sweep EXCEPT !.pc = "listed"]
    /\ UNCHANGED <<kbExists, rows, nextDoc, nextKey, store, quotaLock, kbLock, req,
                   listing, jobs, faults, mix, overruled, unrefreshed>>

SweepList ==
    /\ sweep.pc = "read"
    /\ sweep' = [sweep EXCEPT !.pc = "listed", !.doomed = {k \in Keys \ sweep.refs : store[k] = "old"}]
    /\ UNCHANGED <<kbExists, rows, nextDoc, nextKey, store, quotaLock, kbLock, req,
                   listing, jobs, faults, mix, overruled, unrefreshed>>

SweepDelete(k) ==
    /\ sweep.pc = "listed" /\ k \in sweep.doomed
    /\ store' = Without(k)
    /\ sweep' = [sweep EXCEPT !.doomed = @ \ {k}]
    /\ UNCHANGED <<kbExists, rows, nextDoc, nextKey, quotaLock, kbLock, req, listing,
                   jobs, faults, mix, overruled, unrefreshed>>

SweepEnd ==
    /\ sweep.pc = "listed"
    /\ \/ sweep.doomed = {} /\ UNCHANGED faults
       \/ sweep.doomed # {} /\ Fault
    /\ sweep' = Resting
    /\ UNCHANGED <<kbExists, rows, nextDoc, nextKey, store, quotaLock, kbLock, req,
                   listing, jobs, mix, overruled, unrefreshed>>

-----------------------------------------------------------------------------
RequestStep(r) ==
    \/ Reserve(r) \/ Put(r) \/ CreateCommit(r) \/ CreateRejected(r) \/ Refresh(r)
    \/ LockRow(r) \/ ReserveReplace(r) \/ ReplaceCommit(r) \/ ReplaceRejected(r) \/ Trim(r)
    \/ RequeueCommit(r)
    \/ \E p \in Requests : DeadlockAbort(r, p)

TaskStep(j) == (\E k \in Keys : TaskDelete(j, k)) \/ TaskFinish(j) \/ Replay(j)
SweepStep == SweepRead \/ SweepList \/ (\E k \in Keys : SweepDelete(k)) \/ SweepEnd

ResNext ==
    \/ \E r \in Requests :
         \/ \E c \in Contents : \/ \E op \in {"upload", "import"} : Begin(r, op, c)
                                \/ \E d \in Docs : BeginReplace(r, d, c)
         \/ \E d \in Docs : RequeueRead(r, d)
         \/ RequestStep(r) \/ CommitFails(r) \/ RefreshFails(r) \/ Abandon(r)
    \/ \E d \in Docs : Delete(d)
    \/ ListForDeletion \/ DeleteKnowledgeBase
    \/ \E j \in jobs : TaskStep(j) \/ TaskFails(j) \/ DiscardCleanup(j)
    \/ \E k \in Keys : Age(k)
    \/ SweepStep

\* Requests run to their end, Celery delivers and the beat schedule retries letters,
\* the reconciler runs every day, and time passes.
ResFairness ==
    /\ \A r \in Requests : WF_resVars(RequestStep(r))
    /\ \A d \in Docs \cup {None} :
          /\ WF_resVars(\E j \in jobs : j.doc = d /\ \E k \in Keys : TaskDelete(j, k))
          /\ WF_resVars(\E j \in jobs : j.doc = d /\ TaskFinish(j))
          /\ WF_resVars(\E j \in jobs : j.doc = d /\ Replay(j))
    /\ \A k \in Keys : SF_resVars(Age(k))
    /\ WF_resVars(SweepStep)

ResSpec == ResInit /\ [][ResNext]_resVars
ResLiveSpec == ResSpec /\ ResFairness

-----------------------------------------------------------------------------
ResTypeOK ==
    /\ kbExists \in BOOLEAN
    /\ rows \in [Docs -> Row \cup {None}]
    /\ nextDoc \in 1..MaxDocs + 1 /\ nextKey \in 1..MaxKeys + 1
    /\ store \in [Keys -> {"absent", "fresh", "old"}]
    /\ quotaLock \in Requests \cup {None} /\ kbLock \in Requests \cup {None}
    /\ req \in [Requests -> Request]
    /\ listing \in [Docs -> Row \cup {None}] \cup {None}
    /\ jobs \subseteq Job
    /\ sweep \in [pc : {"idle", "read", "listed"}, refs : SUBSET Keys, doomed : SUBSET Keys]
    /\ faults \in 0..MaxFaults /\ mix \in Mixes
    /\ overruled \subseteq Docs /\ unrefreshed \subseteq Keys

\* No document that a user can see has lost its file: rollbacks, trims, deletion tasks
\* delivered twice and the reconciler only ever delete objects nothing refers to.  The one
\* exception is the import whose read of the row it has just committed fails: its handler takes
\* the failure for one of the commit and deletes the object of a document that stays.
LiveRowHasObject ==
    \A d \in Present \ overruled :
       rows[d].status = "live" => Stored(rows[d].key) \/ rows[d].key \in unrefreshed

\* The stored bytes of the workspace never exceed its quota, whatever uploads, imports
\* and replacements run together.
QuotaRespected == Used <= Quota

\* A document row marked for deletion is removed by the task only when its object is gone.
RowOutlivesObject ==
    [][\A d \in Docs \ overruled :
          rows[d] # None /\ rows'[d] = None /\ kbExists' => ~Stored(rows[d].key)]_resVars

\* Every request ends, the two lock orders notwithstanding.
RequestsEnd == \A r \in Requests : req[r] # Idle ~> req[r] = Idle

\* An accepted deletion is carried out, retries, dead letters and their replay included.
DeletionCompletes ==
    \A d \in Docs :
       (rows[d] # None /\ rows[d].status = "deleting") ~> (rows[d] = None \/ d \in overruled)

\* No object stays in the store for ever without a row that refers to it.
OrphansCollected == "sweep" \in mix => \A k \in Keys : Stored(k) ~> (~Stored(k) \/ k \in Referenced)

=============================================================================
