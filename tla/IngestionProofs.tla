--------------------------- MODULE IngestionProofs ---------------------------
(***************************************************************************)
(* What Ingestion guarantees for every number of workers, sessions, file   *)
(* contents and pieces: types, lease discipline, and the content of the    *)
(* served index.                                                           *)
(***************************************************************************)
EXTENDS Ingestion, TLAPS

\* A task about to be retried has a retry left.
RetryBudget == \A a \in Tasks : pc[a] = "retry" => tries[a] < MaxRetries

Typed == TypeOK /\ RetryBudget

------------------------------------------------------------------------------
(* Types.                                                                  *)

\* The initial row, and an idle pipeline, are typed.
LEMMA InitTyped == Init => Typed
<1> USE NullAssumption, BoundAssumption
<1> SUFFICES ASSUME Init PROVE Typed  OBVIOUS
<1>1. sess \in [Sessions -> Session]
  BY DEF Init, FreeSession, Holding, Session
<1>2. QED  BY <1>1 DEF Init, Typed, TypeOK, RetryBudget, Statuses, Running, Claimable,
                       Settled, Live, Working

\* Steps of a task keep every variable in its type.
LEMMA TaskTyped ==
    ASSUME Typed, NEW a \in Tasks, Step(a) \/ FaultStep(a)
    PROVE  Typed'
<1> USE NullAssumption, BoundAssumption
    DEF Typed, TypeOK, RetryBudget, rowVars, taskVars, Statuses, Running, Claimable, Settled,
        Live, Working, Goto, Move, Fault
<1>1. CASE Claim(a)  BY <1>1 DEF Claim
<1>2. CASE Skip(a)  BY <1>2 DEF Skip, End
<1>3. CASE Load(a)  BY <1>3 DEF Load, Snapshot
<1>4. CASE LoadMissing(a)  BY <1>4 DEF LoadMissing, End
<1>5. CASE Stamp(a)  BY <1>5 DEF Stamp, Snapshot
<1>6. CASE Parse(a)  BY <1>6 DEF Parse, SetStage, End
<1>7. CASE Split(a)  BY <1>7 DEF Split, SetStage, End
<1>8. CASE Discard(a)  BY <1>8 DEF Discard, AtVersion
<1>9. CASE EmbedBatch(a)  BY <1>9 DEF EmbedBatch, End, Snapshot, Chunk
<1>10. CASE StartIndexing(a)  BY <1>10 DEF StartIndexing, SetStage, End
<1>11. CASE Count(a)  BY <1>11 DEF Count
<1>12. CASE Activate(a)  BY <1>12 DEF Activate, End, Snapshot
<1>13. CASE FailInsert(a)  BY <1>13 DEF FailInsert, HandleError, End, FreeLetters
<1>14. CASE FailCount(a)  BY <1>14 DEF FailCount, HandleError, End, FreeLetters
<1>15. CASE RetryPublish(a)  BY <1>15 DEF RetryPublish
<1>16. CASE FailTransient(a)  BY <1>16 DEF FailTransient, HandleError, End, FreeLetters
<1>17. CASE FailPermanent(a)  BY <1>17 DEF FailPermanent, HandleError, End, FreeLetters
<1>18. CASE RetryLost(a)  BY <1>18 DEF RetryLost, Leave, End
<1>19. CASE Abort(a)  BY <1>19 DEF Abort, Leave, End
<1>20. CASE Crash(a)  BY <1>20 DEF Crash, Leave, End
<1>21. CASE Kill(a)  BY <1>21 DEF Kill, Leave, End
<1>22. CASE Ack(a)  BY <1>22 DEF Ack
<1>23. CASE RetryDuplicate(a)  BY <1>23 DEF RetryDuplicate
<1>24. QED
  BY <1>1, <1>2, <1>3, <1>4, <1>5, <1>6, <1>7, <1>8, <1>9, <1>10, <1>11, <1>12, <1>13,
     <1>14, <1>15, <1>16, <1>17, <1>18, <1>19, <1>20, <1>21, <1>22, <1>23
     DEF Step, FaultStep

\* Sessions, requests and maintenance keep every variable in its type.
LEMMA OtherTyped ==
    ASSUME Typed, [Next]_vars, ~\E a \in Tasks : Step(a) \/ FaultStep(a)
    PROVE  Typed'
<1> USE NullAssumption, BoundAssumption
    DEF Typed, TypeOK, RetryBudget, rowVars, taskVars, Statuses, Running, Claimable, Settled,
        Live, Working, Goto, Move, Fault, Enqueue
<1>1. ASSUME NEW s \in Sessions, SessionStep(s) \/ SessionEvent(s)  PROVE Typed'
  <2> USE DEF Session, Holding, Close, FreeSession
  <2>1. CASE DispatchPublish(s)  BY <2>1 DEF DispatchPublish
  <2>2. CASE DispatchRead(s)  BY <2>2 DEF DispatchRead
  <2>3. CASE DispatchMark(s)  BY <2>3 DEF DispatchMark
  <2>4. CASE DispatchCommit(s)  BY <2>4 DEF DispatchCommit
  <2>5. CASE DispatchCrash(s)  BY <2>5 DEF DispatchCrash
  <2>6. CASE ResumeRead(s)  BY <2>6 DEF ResumeRead, OpenRequeue
  <2>7. CASE ReplayRead(s)  BY <2>7 DEF ReplayRead, OpenRequeue
  <2>8. CASE AutoRetryRead(s)  BY <2>8 DEF AutoRetryRead, OpenRequeue
  <2>9. CASE RequeueCommit(s)  BY <2>9 DEF RequeueCommit
  <2>10. CASE RequeueRollback(s)  BY <2>10 DEF RequeueRollback
  <2>11. CASE DeleteRead(s)  BY <2>11 DEF DeleteRead
  <2>12. CASE DeleteCommit(s)  BY <2>12 DEF DeleteCommit
  <2>13. CASE DeleteCrash(s)  BY <2>13 DEF DeleteCrash
  <2>14. CASE CleanupRead(s)  BY <2>14 DEF CleanupRead
  <2>15. CASE CleanupDelete(s)  BY <2>15 DEF CleanupDelete, AtVersion
  <2>16. QED
    BY <1>1, <2>1, <2>2, <2>3, <2>4, <2>5, <2>6, <2>7, <2>8, <2>9, <2>10, <2>11, <2>12,
       <2>13, <2>14, <2>15 DEF SessionStep, SessionEvent
<1>2. ASSUME NEW c \in Contents, Replace(c)  PROVE Typed'  BY <1>2 DEF Replace
<1>3. CASE Reindex  BY <1>3 DEF Reindex
<1>4. CASE Cancel  BY <1>4 DEF Cancel
<1>5. CASE Delete  BY <1>5 DEF Delete
<1>6. CASE DeleteSkip  BY <1>6 DEF DeleteSkip
<1>7. CASE AutoDiscard  BY <1>7 DEF AutoDiscard
<1>8. CASE DiscardLetter  BY <1>8 DEF DiscardLetter
<1>9. CASE Reconcile  BY <1>9 DEF Reconcile
<1>10. CASE UNCHANGED vars  BY <1>10 DEF vars
<1>11. QED
  BY <1>1, <1>2, <1>3, <1>4, <1>5, <1>6, <1>7, <1>8, <1>9, <1>10 DEF Next

\* Every variable keeps its type, and Celery's retry counter never passes
\* max_retries, whatever tasks, requests and faults do.
THEOREM TypeCorrect == Spec => []TypeOK
<1>1. Typed /\ [Next]_vars => Typed'  BY TaskTyped, OtherTyped
<1>2. Typed => TypeOK  BY DEF Typed
<1>3. QED  BY InitTyped, <1>1, <1>2, PTL DEF Spec

------------------------------------------------------------------------------
(* The lease.  A task that holds it and has read the row got there by its  *)
(* own steps: nothing else hands the lease to a task that is under way.    *)

OwnSteps(a) ==
    \/ Load(a) \/ Stamp(a) \/ Parse(a) \/ Split(a) \/ Discard(a) \/ EmbedBatch(a)
    \/ StartIndexing(a) \/ Count(a)

\* What the others leave to a task under way.
Undisturbed(a) ==
    /\ pc'[a] = pc[a] /\ snap'[a] = snap[a] /\ pending'[a] = pending[a]
    /\ chunks' \subseteq chunks

\* A step after which a holds the lease with a snapshot of the row is a step of
\* a's own execution or does not touch it, and a held the lease before.
LEMMA HolderSteps ==
    ASSUME Typed, [Next]_vars, NEW a \in Tasks, token' = a, pc'[a] \in Working \cup {"stamp"}
    PROVE  token = a /\ (OwnSteps(a) \/ Undisturbed(a))
<1> USE NullAssumption
    DEF Typed, TypeOK, rowVars, taskVars, Live, Working, Goto, Undisturbed, OwnSteps
<1>1. ASSUME NEW b \in Tasks, Step(b)  PROVE token = a /\ (OwnSteps(a) \/ Undisturbed(a))
  <2>1. CASE Claim(b)  BY <2>1 DEF Claim
  <2>2. CASE Skip(b)  BY <2>2 DEF Skip, End
  <2>3. CASE Load(b)  BY <2>3 DEF Load
  <2>4. CASE LoadMissing(b)  BY <2>4 DEF LoadMissing, End
  <2>5. CASE Stamp(b)  BY <2>5 DEF Stamp
  <2>6. CASE Parse(b)  BY <2>6 DEF Parse, SetStage, End
  <2>7. CASE Split(b)  BY <2>7 DEF Split, SetStage, End
  <2>8. CASE Discard(b)
    <3>1. token = a  BY <2>8 DEF Discard
    <3>2. CASE b = a  BY <3>1, <3>2, <2>8
    <3>3. CASE b # a
      <4>1. chunks' \subseteq chunks  BY <2>8 DEF Discard
      <4>2. QED  BY <3>1, <3>3, <4>1, <2>8 DEF Discard
    <3>4. QED  BY <3>2, <3>3
  <2>9. CASE EmbedBatch(b)  BY <2>9 DEF EmbedBatch, End
  <2>10. CASE StartIndexing(b)  BY <2>10 DEF StartIndexing, SetStage, End
  <2>11. CASE Count(b)  BY <2>11 DEF Count
  <2>12. CASE Activate(b)  BY <2>12 DEF Activate, End
  <2>13. CASE FailInsert(b)  BY <2>13 DEF FailInsert, HandleError, End
  <2>14. CASE FailCount(b)  BY <2>14 DEF FailCount, HandleError, End
  <2>15. CASE RetryPublish(b)  BY <2>15 DEF RetryPublish
  <2>16. CASE Ack(b)  BY <2>16 DEF Ack
  <2>17. QED
    BY <1>1, <2>1, <2>2, <2>3, <2>4, <2>5, <2>6, <2>7, <2>8, <2>9, <2>10, <2>11, <2>12,
       <2>13, <2>14, <2>15, <2>16 DEF Step
<1>2. ASSUME NEW b \in Tasks, FaultStep(b)  PROVE token = a /\ Undisturbed(a)
  <2>1. CASE FailTransient(b)  BY <2>1 DEF FailTransient, HandleError, End
  <2>2. CASE FailPermanent(b)  BY <2>2 DEF FailPermanent, HandleError, End
  <2>3. CASE RetryLost(b)  BY <2>3 DEF RetryLost, Leave, End
  <2>4. CASE Abort(b)  BY <2>4 DEF Abort, Leave, End
  <2>5. CASE Crash(b)  BY <2>5 DEF Crash, Leave, End
  <2>6. CASE Kill(b)  BY <2>6 DEF Kill, Leave, End
  <2>7. CASE RetryDuplicate(b)  BY <2>7 DEF RetryDuplicate
  <2>8. QED  BY <1>2, <2>1, <2>2, <2>3, <2>4, <2>5, <2>6, <2>7 DEF FaultStep
<1>3. ASSUME NEW s \in Sessions, SessionStep(s) \/ SessionEvent(s)
      PROVE  token = a /\ Undisturbed(a)
  <2>1. CASE DispatchPublish(s)  BY <2>1 DEF DispatchPublish
  <2>2. CASE RequeueCommit(s)  BY <2>2 DEF RequeueCommit
  <2>3. CASE CleanupDelete(s)  BY <2>3 DEF CleanupDelete, AtVersion
  <2>4. CASE ~DispatchPublish(s) /\ ~RequeueCommit(s) /\ ~CleanupDelete(s)
    BY <1>3, <2>4 DEF SessionStep, SessionEvent, DispatchRead, DispatchMark, DispatchCommit,
       DispatchCrash, ResumeRead, ReplayRead, AutoRetryRead, RequeueRollback,
       DeleteRead, DeleteCommit, DeleteCrash, CleanupRead
  <2>5. QED  BY <2>1, <2>2, <2>3, <2>4
<1>4. ASSUME NEW c \in Contents, Replace(c)  PROVE token = a /\ Undisturbed(a)
  BY <1>4 DEF Replace
<1>5. CASE Reindex \/ Cancel \/ Delete \/ DeleteSkip
  BY <1>5 DEF Reindex, Cancel, Delete, DeleteSkip
<1>6. CASE AutoDiscard \/ DiscardLetter \/ Reconcile
  BY <1>6 DEF AutoDiscard, DiscardLetter, Reconcile
<1>7. CASE UNCHANGED vars  BY <1>7 DEF vars
<1>8. QED  BY <1>1, <1>2, <1>3, <1>4, <1>5, <1>6, <1>7 DEF Next

------------------------------------------------------------------------------
(* The content of an index version.                                        *)

\* UNIQUE(document_id, seq, index_version).
UniqueChunks ==
    \A k1, k2 \in chunks : k1.version = k2.version /\ k1.seq = k2.seq => k1 = k2

\* Not only the served version: no version ever mixes two contents.
VersionSingleContent ==
    \A k1, k2 \in chunks : k1.version = k2.version => k1.content = k2.content

\* After its discard, the lease holder finds only its own content in its target.
HolderFaithful ==
    \A a \in Tasks : token = a /\ pc[a] \in {"embed", "count", "activate"} =>
        \A k \in AtVersion(snap[a].target) : k.content = snap[a].content

IndexInv == UniqueChunks /\ VersionSingleContent /\ HolderFaithful /\ HolderNeverCollides

\* The only way a chunk appears.
Inserts(a) ==
    /\ token = a /\ pc[a] = "embed"
    /\ \E s \in Seqs :
         /\ ~InsertRejected(a, s)
         /\ chunks' = chunks \cup
              {[version |-> snap[a].target, seq |-> s,
                content |-> snap[a].content, model |-> snap[a].model]}

\* Chunks are only ever removed, except by a batch of the lease holder.
LEMMA ChunkSteps ==
    ASSUME [Next]_vars
    PROVE  chunks' \subseteq chunks \/ \E a \in Tasks : Inserts(a)
<1>1. ASSUME NEW a \in Tasks, Step(a)  PROVE chunks' \subseteq chunks \/ Inserts(a)
  <2>1. CASE EmbedBatch(a)  BY <2>1 DEF EmbedBatch, Inserts
  <2>2. CASE Discard(a)  BY <2>2 DEF Discard
  <2>3. CASE ~EmbedBatch(a) /\ ~Discard(a)
    BY <1>1, <2>3 DEF Step, Claim, Skip, Load, LoadMissing, Stamp, Parse, Split, SetStage,
       StartIndexing, Count, Activate, FailInsert, FailCount, HandleError, RetryPublish, Ack
  <2>4. QED  BY <2>1, <2>2, <2>3
<1>2. ASSUME NEW a \in Tasks, FaultStep(a)  PROVE chunks' \subseteq chunks
  BY <1>2 DEF FaultStep, FailTransient, FailPermanent, HandleError, RetryLost, RetryDuplicate,
     Abort, Crash, Kill, Leave
<1>3. ASSUME NEW s \in Sessions, SessionStep(s) \/ SessionEvent(s)
      PROVE  chunks' \subseteq chunks
  BY <1>3 DEF SessionStep, SessionEvent, DispatchPublish, DispatchRead, DispatchMark,
     DispatchCommit, DispatchCrash, ResumeRead, ReplayRead, AutoRetryRead, RequeueCommit,
     RequeueRollback, DeleteRead, DeleteCommit, DeleteCrash, CleanupRead, CleanupDelete,
     AtVersion
<1>4. CASE \/ \E c \in Contents : Replace(c)
           \/ Reindex \/ Cancel \/ Delete \/ DeleteSkip \/ AutoDiscard \/ DiscardLetter
           \/ Reconcile
  BY <1>4 DEF Replace, Reindex, Cancel, Delete, DeleteSkip, AutoDiscard, DiscardLetter,
     Reconcile
<1>5. CASE UNCHANGED vars  BY <1>5 DEF vars
<1>6. QED  BY <1>1, <1>2, <1>3, <1>4, <1>5 DEF Next

\* No chunk, no version and no lease holder: the initial state satisfies the invariant.
LEMMA IndexInvInit == Init => IndexInv
  BY DEF Init, IndexInv, UniqueChunks, VersionSingleContent, HolderFaithful,
     HolderNeverCollides, AtVersion

\* A batch adds a piece that was not there, of the content that is there.
LEMMA VersionStep ==
    ASSUME Typed, IndexInv, [Next]_vars
    PROVE  UniqueChunks' /\ VersionSingleContent'
<1> USE DEF IndexInv, UniqueChunks, VersionSingleContent
<1>1. CASE chunks' \subseteq chunks  BY <1>1
<1>2. ASSUME NEW a \in Tasks, Inserts(a)  PROVE UniqueChunks' /\ VersionSingleContent'
  <2>1. PICK s \in Seqs :
          /\ \A k \in chunks : k.version = snap[a].target => k.seq # s
          /\ chunks' = chunks \cup
               {[version |-> snap[a].target, seq |-> s,
                 content |-> snap[a].content, model |-> snap[a].model]}
    BY <1>2 DEF Inserts, InsertRejected, AtVersion
  <2>2. \A k \in chunks : k.version = snap[a].target => k.content = snap[a].content
    BY <1>2 DEF Inserts, HolderFaithful, AtVersion
  <2>3. UniqueChunks'  BY <2>1
  <2>4. VersionSingleContent'  BY <2>1, <2>2
  <2>5. QED  BY <2>3, <2>4
<1>3. QED  BY <1>1, <1>2, ChunkSteps

\* The holder's target stays its own: its discard leaves only matching chunks,
\* and nobody else inserts while it holds the lease.
LEMMA HolderStep ==
    ASSUME Typed, IndexInv, [Next]_vars,
           NEW a \in Tasks, token' = a, pc'[a] \in {"embed", "count", "activate"}
    PROVE  /\ \A k \in AtVersion(snap[a].target)' : k.content = snap'[a].content
           /\ pc'[a] = "embed" =>
                \A k \in AtVersion(snap[a].target)' : k.seq \notin pending'[a]
<1>1. token = a /\ (OwnSteps(a) \/ Undisturbed(a))  BY HolderSteps DEF Working
<1> USE DEF IndexInv, HolderFaithful, HolderNeverCollides, AtVersion, Typed, TypeOK, Goto
<1>2. CASE Undisturbed(a)  BY <1>1, <1>2 DEF Undisturbed
<1>3. CASE Load(a)  BY <1>3 DEF Load
<1>4. CASE Stamp(a)  BY <1>4 DEF Stamp
<1>5. CASE Parse(a)  BY <1>1, <1>5 DEF Parse, SetStage
<1>6. CASE Split(a)  BY <1>1, <1>6 DEF Split, SetStage
<1>7. CASE Discard(a)
  <2> DEFINE v == snap[a].target
             reusable == {s \in Seqs : /\ snap[a].reuse
                                       /\ \E k \in AtVersion(v) :
                                            k.seq = s /\ k.content = snap[a].content}
  <2>1. /\ chunks' = {k \in chunks : k.version = v => k.seq \in reusable}
        /\ pending'[a] = Seqs \ reusable /\ snap' = snap
    BY <1>7 DEF Discard
  <2>2. ASSUME NEW k \in chunks', k.version = v
        PROVE  k.content = snap[a].content /\ k.seq \in reusable
    <3>1. k \in chunks /\ k.seq \in reusable  BY <2>1, <2>2
    <3>2. PICK j \in chunks : j.version = v /\ j.seq = k.seq /\ j.content = snap[a].content
      BY <3>1
    <3>3. QED  BY <2>2, <3>1, <3>2 DEF UniqueChunks
  <2>3. QED  BY <2>1, <2>2
<1>8. CASE EmbedBatch(a)  BY <1>1, <1>8 DEF EmbedBatch, InsertRejected, End
<1>9. CASE StartIndexing(a)  BY <1>1, <1>9 DEF StartIndexing, SetStage
<1>10. CASE Count(a)  BY <1>1, <1>10 DEF Count
<1>11. QED
  BY <1>1, <1>2, <1>3, <1>4, <1>5, <1>6, <1>7, <1>8, <1>9, <1>10 DEF OwnSteps

\* Every step keeps what is said of the versions and of the lease holder.
LEMMA IndexInvStep == Typed /\ IndexInv /\ [Next]_vars => IndexInv'
  BY VersionStep, HolderStep DEF IndexInv, HolderFaithful, HolderNeverCollides

\* The invariant of the served index holds in every reachable state.
LEMMA Invariance == Spec => [](Typed /\ IndexInv)
<1>1. Typed /\ [Next]_vars => Typed'  BY TaskTyped, OtherTyped
<1>2. QED  BY InitTyped, IndexInvInit, <1>1, IndexInvStep, PTL DEF Spec

\* A search never sees two contents in one document, whatever replacements,
\* retries, resumed checkpoints and stale workers do.
THEOREM ServedContent == Spec => []ServedIndexSingleContent
<1>1. IndexInv => ServedIndexSingleContent
  BY DEF IndexInv, VersionSingleContent, ServedIndexSingleContent, Served, AtVersion
<1>2. QED  BY Invariance, <1>1, PTL

\* A unique-constraint violation on chunks is always the mark of a lost lease.
THEOREM NoCollision == Spec => []HolderNeverCollides
<1>1. IndexInv => HolderNeverCollides  BY DEF IndexInv
<1>2. QED  BY Invariance, <1>1, PTL

\* The version that goes on line is the one the activating worker built.
THEOREM ActivationContent == Spec => ActivationServesOwnContent
<1>1. ASSUME Typed, IndexInv, [Next]_vars, active' # active
      PROVE  \E a \in Tasks : /\ token = a /\ pc[a] = "activate"
                              /\ \A k \in Served' : k.content = snap[a].content
  <2>1. ASSUME NEW a \in Tasks, Step(a)  PROVE Activate(a)
    BY <1>1, <2>1 DEF Step, Claim, Skip, Load, LoadMissing, Stamp, Parse, Split, SetStage,
       Discard, EmbedBatch, StartIndexing, Count, FailInsert, FailCount, HandleError,
       RetryPublish, Ack, rowVars
  <2>2. ASSUME NEW a \in Tasks, FaultStep(a)  PROVE FALSE
    BY <1>1, <2>2 DEF FaultStep, FailTransient, FailPermanent, HandleError, RetryLost,
       RetryDuplicate, Abort, Crash, Kill, Leave, rowVars
  <2>3. ASSUME NEW s \in Sessions, SessionStep(s) \/ SessionEvent(s)  PROVE FALSE
    BY <1>1, <2>3 DEF SessionStep, SessionEvent, DispatchPublish, DispatchRead, DispatchMark,
       DispatchCommit, DispatchCrash, ResumeRead, ReplayRead, AutoRetryRead, RequeueCommit,
       RequeueRollback, DeleteRead, DeleteCommit, DeleteCrash, CleanupRead, CleanupDelete,
       rowVars
  <2>4. PICK a \in Tasks : Activate(a)
    BY <1>1, <2>1, <2>2, <2>3 DEF Next, Replace, Reindex, Cancel, Delete, DeleteSkip,
       AutoDiscard, DiscardLetter, Reconcile, vars, rowVars
  <2>5. token = a /\ pc[a] = "activate" /\ active' = snap[a].target /\ chunks' = chunks
    BY <1>1, <2>4 DEF Activate
  <2>6. \A k \in Served' : k.content = snap[a].content
    BY <1>1, <2>5 DEF IndexInv, HolderFaithful, Served, AtVersion
  <2>7. QED  BY <2>5, <2>6
<1>2. Typed /\ IndexInv /\ [Next]_vars =>
        [active' # active =>
           \E a \in Tasks : /\ token = a /\ pc[a] = "activate"
                           /\ \A k \in Served' : k.content = snap[a].content]_vars
  BY <1>1
<1>3. QED  BY Invariance, <1>2, PTL DEF Spec, ActivationServesOwnContent

------------------------------------------------------------------------------
(* The lease and the status.                                               *)

\* A held lease implies a target to build, on the row and in the snapshot.
LeaseHasTarget ==
    /\ token # NULL => target # 0
    /\ \A a \in Tasks : token = a /\ pc[a] \in Working \cup {"stamp"} => snap[a].target # 0

\* The row's half: only a claim hands out a lease, only an activation clears the
\* target, and every request that chooses a target chooses a successor.
LEMMA RowTargetStep ==
    ASSUME Typed, LeaseHasTarget, [Next]_vars  PROVE token' # NULL => target' # 0
<1> USE NullAssumption DEF Typed, TypeOK, LeaseHasTarget, rowVars
<1>1. ASSUME NEW a \in Tasks, Step(a)  PROVE token' # NULL => target' # 0
  <2>1. CASE Claim(a)  BY <2>1 DEF Claim
  <2>2. CASE Activate(a)  BY <2>2 DEF Activate
  <2>3. CASE FailInsert(a) \/ FailCount(a)  BY <2>3 DEF FailInsert, FailCount, HandleError
  <2>4. CASE ~Claim(a) /\ ~Activate(a) /\ ~FailInsert(a) /\ ~FailCount(a)
    BY <1>1, <2>4 DEF Step, Skip, Load, LoadMissing, Stamp, Parse, Split, SetStage, Discard,
       EmbedBatch, StartIndexing, Count, RetryPublish, Ack
  <2>5. QED  BY <2>1, <2>2, <2>3, <2>4
<1>2. ASSUME NEW a \in Tasks, FaultStep(a)  PROVE token' # NULL => target' # 0
  BY <1>2 DEF FaultStep, FailTransient, FailPermanent, HandleError, RetryLost, RetryDuplicate,
     Abort, Crash, Kill, Leave
<1>3. ASSUME NEW s \in Sessions, SessionStep(s) \/ SessionEvent(s)
      PROVE  token' # NULL => target' # 0
  <2>1. CASE RequeueCommit(s)  BY <2>1 DEF RequeueCommit
  <2>2. CASE ~RequeueCommit(s)
    BY <1>3, <2>2 DEF SessionStep, SessionEvent, DispatchPublish, DispatchRead, DispatchMark,
       DispatchCommit, DispatchCrash, ResumeRead, ReplayRead, AutoRetryRead, RequeueRollback,
       DeleteRead, DeleteCommit, DeleteCrash, CleanupRead, CleanupDelete
  <2>3. QED  BY <2>1, <2>2
<1>4. ASSUME NEW c \in Contents, Replace(c)  PROVE target' # 0  BY <1>4 DEF Replace
<1>5. CASE Reindex  BY <1>5 DEF Reindex
<1>6. CASE Cancel \/ Delete \/ DeleteSkip \/ AutoDiscard \/ DiscardLetter \/ Reconcile
  BY <1>6 DEF Cancel, Delete, DeleteSkip, AutoDiscard, DiscardLetter, Reconcile
<1>7. CASE UNCHANGED vars  BY <1>7 DEF vars
<1>8. QED  BY <1>1, <1>2, <1>3, <1>4, <1>5, <1>6, <1>7 DEF Next

\* The snapshot's half: a snapshot is taken while the lease is held.
LEMMA SnapTargetStep ==
    ASSUME Typed, LeaseHasTarget, [Next]_vars,
           NEW a \in Tasks, token' = a, pc'[a] \in Working \cup {"stamp"}
    PROVE  snap'[a].target # 0
<1>1. token = a /\ (OwnSteps(a) \/ Undisturbed(a))  BY HolderSteps
<1> USE NullAssumption DEF Typed, TypeOK, LeaseHasTarget, Goto, Working
<1>2. CASE Undisturbed(a)  BY <1>1, <1>2 DEF Undisturbed
<1>3. CASE Load(a)  BY <1>1, <1>3 DEF Load
<1>4. CASE OwnSteps(a) /\ ~Load(a)
  <2>1. pc[a] \in Working \cup {"stamp"}
    BY <1>4 DEF OwnSteps, Stamp, Parse, Split, Discard, EmbedBatch, StartIndexing, Count
  <2>2. snap'[a] = snap[a]
    BY <1>1, <1>4 DEF OwnSteps, Stamp, Parse, Split, SetStage, Discard, EmbedBatch,
       StartIndexing, Count
  <2>3. QED  BY <1>1, <2>1, <2>2
<1>5. QED  BY <1>1, <1>2, <1>3, <1>4

\* The RuntimeError "target index version is missing" cannot be raised by a
\* worker that still holds its lease.
THEOREM HolderTarget == Spec => []HolderHasTarget
<1>1. Init => LeaseHasTarget  BY NullAssumption DEF Init, LeaseHasTarget
<1>2. Typed /\ LeaseHasTarget /\ [Next]_vars => LeaseHasTarget'
  BY RowTargetStep, SnapTargetStep DEF LeaseHasTarget
<1>3. LeaseHasTarget => HolderHasTarget
  BY NullAssumption DEF LeaseHasTarget, HolderHasTarget
<1>4. QED  BY Invariance, <1>1, <1>2, <1>3, PTL DEF Spec

\* What a step may do to the status and the lease together.
LEMMA LeaseStep ==
    ASSUME Typed, RestingHasNoLease, [Next]_vars  PROVE RestingHasNoLease'
<1> USE NullAssumption
    DEF Typed, TypeOK, RestingHasNoLease, Settled, Running, Claimable, Statuses, rowVars
<1>1. ASSUME NEW a \in Tasks, Step(a)  PROVE RestingHasNoLease'
  <2>1. CASE Claim(a)  BY <2>1 DEF Claim
  <2>2. CASE Parse(a) \/ Split(a) \/ StartIndexing(a)
    BY <2>2 DEF Parse, Split, StartIndexing, SetStage
  <2>3. CASE Activate(a)  BY <2>3 DEF Activate
  <2>4. CASE FailInsert(a) \/ FailCount(a)  BY <2>4 DEF FailInsert, FailCount, HandleError
  <2>5. CASE \/ Skip(a) \/ Load(a) \/ LoadMissing(a) \/ Stamp(a) \/ Discard(a)
             \/ EmbedBatch(a) \/ Count(a) \/ RetryPublish(a) \/ Ack(a)
    BY <2>5 DEF Skip, Load, LoadMissing, Stamp, Discard, EmbedBatch, Count, RetryPublish, Ack
  <2>6. QED  BY <1>1, <2>1, <2>2, <2>3, <2>4, <2>5 DEF Step
<1>2. ASSUME NEW a \in Tasks, FaultStep(a)  PROVE RestingHasNoLease'
  BY <1>2 DEF FaultStep, FailTransient, FailPermanent, HandleError, RetryLost, RetryDuplicate,
     Abort, Crash, Kill, Leave
<1>3. ASSUME NEW s \in Sessions, SessionStep(s) \/ SessionEvent(s)  PROVE RestingHasNoLease'
  <2>1. CASE RequeueCommit(s)  BY <2>1 DEF RequeueCommit
  <2>2. CASE ~RequeueCommit(s)
    BY <1>3, <2>2 DEF SessionStep, SessionEvent, DispatchPublish, DispatchRead, DispatchMark,
       DispatchCommit, DispatchCrash, ResumeRead, ReplayRead, AutoRetryRead, RequeueRollback,
       DeleteRead, DeleteCommit, DeleteCrash, CleanupRead, CleanupDelete
  <2>3. QED  BY <2>1, <2>2
<1>4. ASSUME NEW c \in Contents, Replace(c)  PROVE RestingHasNoLease'  BY <1>4 DEF Replace
<1>5. CASE Reindex \/ Cancel \/ Delete \/ DeleteSkip \/ AutoDiscard \/ DiscardLetter
  BY <1>5 DEF Reindex, Cancel, Delete, DeleteSkip, AutoDiscard, DiscardLetter
<1>6. CASE Reconcile  BY <1>6 DEF Reconcile
<1>7. CASE UNCHANGED vars  BY <1>7 DEF vars
<1>8. QED  BY <1>1, <1>2, <1>3, <1>4, <1>5, <1>6, <1>7 DEF Next

\* A document at rest has no lease, in every reachable state.
LEMMA LeaseInvariance == Spec => [](Typed /\ RestingHasNoLease)
<1>1. Init => RestingHasNoLease  BY DEF Init, RestingHasNoLease
<1>2. QED  BY Invariance, <1>1, LeaseStep, PTL DEF Spec

\* Cancel, delete, failure and activation revoke the lease for good.
THEOREM RestingLease == Spec => []RestingHasNoLease
  BY LeaseInvariance, PTL

\* A session step takes a cancelled document away, or back to the queue with an
\* event or with a row read before the cancellation; or leaves it alone.
LEMMA CancelledSessions ==
    ASSUME Typed, status = "cancelled", NEW s \in Sessions, SessionStep(s) \/ SessionEvent(s)
    PROVE  \/ status' \in {"cancelled", "absent"}
           \/ status' = "queued" /\ outbox' = outbox + 1
           \/ status' = "queued" /\ Overrules(s)
<1> USE DEF Typed, TypeOK, rowVars
<1>1. CASE DispatchCommit(s)
  BY <1>1 DEF DispatchCommit, Close, FreeSession, Holding, Overrules
<1>2. CASE RequeueCommit(s)  BY <1>2 DEF RequeueCommit
<1>3. CASE ~DispatchCommit(s) /\ ~RequeueCommit(s)
  BY <1>3 DEF SessionStep, SessionEvent, DispatchPublish, DispatchRead, DispatchMark,
     DispatchCrash, ResumeRead, ReplayRead, AutoRetryRead, RequeueRollback, DeleteRead,
     DeleteCommit, DeleteCrash, CleanupRead, CleanupDelete
<1>4. QED  BY <1>1, <1>2, <1>3

\* A cancelled document is only brought back by a transaction that leaves an event
\* for it, or by a dispatcher that read it before it was cancelled: the worker that
\* was running has lost its lease and moves it no more.
THEOREM CancelledOut == Spec => CancelledStaysOut
<1> DEFINE Overruled ==
             status = "cancelled" /\ status' # "cancelled" =>
               \/ status' \in {"deleting", "absent"}
               \/ status' = "queued" /\ outbox' = outbox + 1
               \/ status' = "queued" /\ \E s \in Sessions : Overrules(s)
<1>1. ASSUME Typed, RestingHasNoLease, [Next]_vars, status = "cancelled"
      PROVE  Overruled
  <2> USE <1>1, NullAssumption
      DEF Typed, TypeOK, RestingHasNoLease, Settled, Running, Claimable, rowVars
  <2>1. token = NULL  OBVIOUS
  <2>2. ASSUME NEW a \in Tasks, Step(a)  PROVE status' = status
    BY <2>1, <2>2 DEF Step, Claim, Skip, Load, LoadMissing, Stamp, Parse, Split, SetStage,
       Discard, EmbedBatch, StartIndexing, Count, Activate, FailInsert, FailCount, HandleError,
       RetryPublish, Ack
  <2>3. ASSUME NEW a \in Tasks, FaultStep(a)  PROVE status' = status
    BY <2>1, <2>3 DEF FaultStep, FailTransient, FailPermanent, HandleError, RetryLost,
       RetryDuplicate, Abort, Crash, Kill, Leave
  <2>4. ASSUME NEW s \in Sessions, SessionStep(s) \/ SessionEvent(s)  PROVE Overruled
    BY <2>4, CancelledSessions
  <2>5. ASSUME NEW c \in Contents, Replace(c)  PROVE Overruled
    BY <2>5 DEF Replace, Enqueue
  <2>6. CASE Reindex \/ Cancel \/ Delete \/ DeleteSkip \/ AutoDiscard \/ DiscardLetter
    BY <2>6 DEF Reindex, Cancel, Delete, DeleteSkip, AutoDiscard, DiscardLetter
  <2>7. CASE Reconcile  BY <2>7 DEF Reconcile
  <2>8. CASE UNCHANGED vars  BY <2>8 DEF vars
  <2>9. QED  BY <2>2, <2>3, <2>4, <2>5, <2>6, <2>7, <2>8 DEF Next
<1>2. Typed /\ RestingHasNoLease /\ [Next]_vars => [Overruled]_vars
  BY <1>1
<1>3. QED  BY LeaseInvariance, <1>2, PTL DEF Spec, CancelledStaysOut
=============================================================================
