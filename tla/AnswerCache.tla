---------------------------- MODULE AnswerCache ----------------------------
(***************************************************************************)
(* The semantic cache of one knowledge base against the changes of what it *)
(* serves.  An answer is looked up, retrieved, generated and stored in     *)
(* steps; an activation, a deletion or the release of a quarantined        *)
(* document commits and then deletes the cache keys of the knowledge base  *)
(* one by one.  Questions are similar enough to hit, turns have no         *)
(* history, and the knowledge base has one document.                       *)
(***************************************************************************)
EXTENDS Integers, Sequences, SequencesExt

CONSTANTS
    Askers,           \* concurrent requests
    Readers,          \* users: each has a cache key of its own
    ReaderOf,         \* the user of a request
    CacheSize,        \* semantic_cache_size
    MaxEpoch,         \* bound: activations and deletions
    MaxCacheFaults    \* bound: Redis failures, expired keys, processes that die

ASSUME CacheConstants ==
    /\ ReaderOf \in [Askers -> Readers]
    /\ CacheSize \in Nat \ {0} /\ MaxEpoch \in Nat /\ MaxCacheFaults \in Nat

VARIABLES
    epoch,          \* number of the content on line: activations and the deletion
    gone,           \* the document is deleted
    quarantined,    \* its flag
    scanned,        \* history: the scan found the content on line suspicious
    approved,       \* history: the content an administrator was looking at when releasing
    cache,          \* the list of each user, newest first
    asker,          \* what each request is doing
    invalidations,  \* running invalidations: keys still to delete
    release,        \* the release request: content it decides about, or 0
    missed,         \* history: keys whose last invalidation was cut short
    overtaken,      \* history: the last release was decided about an older content
    cacheFaults

cacheVars == <<epoch, gone, quarantined, scanned, approved, cache, asker, invalidations,
               release, missed, overtaken, cacheFaults>>

\* late: the content had changed when the entry was stored.
Entry == [epoch : 0..MaxEpoch, late : BOOLEAN]
NoEntry == [epoch |-> 0, late |-> FALSE]
Asking == [pc : {"idle", "missed", "read", "served"}, entry : Entry]
IdleAsker == [pc |-> "idle", entry |-> NoEntry]
Newest(s) == IF Len(s) <= CacheSize THEN s ELSE SubSeq(s, 1, CacheSize)
CacheFault == cacheFaults < MaxCacheFaults /\ cacheFaults' = cacheFaults + 1

CacheInit ==
    /\ epoch = 0 /\ gone = FALSE /\ quarantined = FALSE /\ scanned = FALSE /\ approved = 0
    /\ cache = [u \in Readers |-> <<>>]
    /\ asker = [a \in Askers |-> IdleAsker]
    /\ invalidations = <<>> /\ release = 0
    /\ missed = {} /\ overtaken = FALSE /\ cacheFaults = 0

\* lookup: the newest of the best entries is served, if Redis answers.
Lookup(a) ==
    /\ asker[a].pc = "idle"
    /\ LET entries == cache[ReaderOf[a]] IN
       \/ /\ asker' = IF entries = <<>> THEN [asker EXCEPT ![a].pc = "missed"]
                      ELSE [asker EXCEPT ![a] = [pc |-> "served", entry |-> entries[1]]]
          /\ UNCHANGED cacheFaults
       \/ CacheFault /\ asker' = [asker EXCEPT ![a].pc = "missed"]
    /\ UNCHANGED <<epoch, gone, quarantined, scanned, approved, cache, invalidations, release,
                   missed, overtaken>>

\* Retrieval finds nothing of a deleted or quarantined document; then there is no answer.
Retrieve(a) ==
    /\ asker[a].pc = "missed"
    /\ asker' = IF gone \/ quarantined \/ epoch = 0 THEN [asker EXCEPT ![a] = IdleAsker]
                ELSE [asker EXCEPT ![a] = [pc |-> "read", entry |-> [NoEntry EXCEPT !.epoch = epoch]]]
    /\ UNCHANGED <<epoch, gone, quarantined, scanned, approved, cache, invalidations, release,
                   missed, overtaken, cacheFaults>>

\* An answer with valid citations is stored under the key of its user.
Store(a) ==
    /\ asker[a].pc = "read"
    /\ LET u == ReaderOf[a]
           e == [asker[a].entry EXCEPT !.late = asker[a].entry.epoch # epoch \/ gone \/ quarantined] IN
       \/ cache' = [cache EXCEPT ![u] = Newest(<<e>> \o @)] /\ UNCHANGED cacheFaults
       \/ CacheFault /\ UNCHANGED cache
    /\ asker' = [asker EXCEPT ![a] = IdleAsker]
    /\ UNCHANGED <<epoch, gone, quarantined, scanned, approved, invalidations, release,
                   missed, overtaken>>

\* The answer is delivered; or the turn fails, or its answer is not worth storing.
Delivered(a) ==
    /\ asker[a].pc \in {"read", "served"}
    /\ asker' = [asker EXCEPT ![a] = IdleAsker]
    /\ UNCHANGED <<epoch, gone, quarantined, scanned, approved, cache, invalidations, release,
                   missed, overtaken, cacheFaults>>

\* Mutant: a deletion leaves the cache to the cleanup task.
GoOfflineQuietly ==
    /\ ~gone /\ epoch > 0
    /\ gone' = TRUE
    /\ UNCHANGED <<epoch, quarantined, scanned, approved, cache, asker, invalidations, release,
                   missed, overtaken, cacheFaults>>
\* Mutant: an activation leaves the flag of the document alone.
GoOnlineKeepsFlag(q) ==
    /\ ~gone /\ epoch < MaxEpoch
    /\ epoch' = epoch + 1 /\ scanned' = q /\ overtaken' = FALSE
    /\ quarantined' = (IF epoch = 0 THEN q ELSE quarantined)
    /\ invalidations' = Append(invalidations, Readers)
    /\ UNCHANGED <<gone, approved, cache, asker, release, missed, cacheFaults>>

\* The activation of an index, with the verdict of the scan of its pieces.
GoOnline(q) ==
    /\ ~gone /\ epoch < MaxEpoch
    /\ epoch' = epoch + 1 /\ quarantined' = q /\ scanned' = q /\ overtaken' = FALSE
    /\ invalidations' = Append(invalidations, Readers)
    /\ UNCHANGED <<gone, approved, cache, asker, release, missed, cacheFaults>>

\* delete_document and delete_knowledge_base hide the content at once.
GoOffline ==
    /\ ~gone /\ epoch > 0
    /\ gone' = TRUE
    /\ invalidations' = Append(invalidations, Readers)
    /\ UNCHANGED <<epoch, quarantined, scanned, approved, cache, asker, release, missed,
                   overtaken, cacheFaults>>

\* release_quarantine reads the document without a lock ...
ReadQuarantined ==
    /\ release = 0 /\ quarantined
    /\ release' = epoch
    /\ UNCHANGED <<epoch, gone, quarantined, scanned, approved, cache, asker, invalidations,
                   missed, overtaken, cacheFaults>>

\* ... and clears the flag of whatever is there when it commits.
ReleaseQuarantined ==
    /\ release # 0
    /\ quarantined' = FALSE
    /\ approved' = release /\ overtaken' = (release # epoch)
    /\ release' = 0
    /\ invalidations' = Append(invalidations, Readers)
    /\ UNCHANGED <<epoch, gone, scanned, cache, asker, missed, cacheFaults>>

\* invalidate_kb: scan and delete, one key at a time; a failure is passed over.
DeleteKey(i, u) ==
    /\ u \in invalidations[i]
    /\ cache' = [cache EXCEPT ![u] = <<>>]
    /\ missed' = missed \ {u}
    /\ invalidations' = IF invalidations[i] = {u} THEN RemoveAt(invalidations, i)
                         ELSE [invalidations EXCEPT ![i] = @ \ {u}]
    /\ UNCHANGED <<epoch, gone, quarantined, scanned, approved, asker, release, overtaken, cacheFaults>>
InvalidationFails(i) ==
    /\ CacheFault
    /\ missed' = missed \cup invalidations[i]
    /\ invalidations' = RemoveAt(invalidations, i)
    /\ UNCHANGED <<epoch, gone, quarantined, scanned, approved, cache, asker, release, overtaken>>

KeyExpires(u) ==
    /\ cache[u] # <<>> /\ CacheFault
    /\ cache' = [cache EXCEPT ![u] = <<>>]
    /\ UNCHANGED <<epoch, gone, quarantined, scanned, approved, asker, invalidations, release,
                   missed, overtaken>>

CacheNext ==
    \/ \E a \in Askers : Lookup(a) \/ Retrieve(a) \/ Store(a) \/ Delivered(a)
    \/ \E q \in BOOLEAN : GoOnline(q)
    \/ GoOffline \/ ReadQuarantined \/ ReleaseQuarantined
    \/ \E i \in DOMAIN invalidations : InvalidationFails(i) \/ \E u \in Readers : DeleteKey(i, u)
    \/ \E u \in Readers : KeyExpires(u)

CacheSpec == CacheInit /\ [][CacheNext]_cacheVars

-----------------------------------------------------------------------------
CacheTypeOK ==
    /\ epoch \in 0..MaxEpoch /\ approved \in 0..MaxEpoch /\ release \in 0..MaxEpoch
    /\ gone \in BOOLEAN /\ quarantined \in BOOLEAN /\ scanned \in BOOLEAN /\ overtaken \in BOOLEAN
    /\ \A u \in Readers : cache[u] \in Seq(Entry) /\ Len(cache[u]) <= CacheSize
    /\ asker \in [Askers -> Asking]
    /\ invalidations \in Seq(SUBSET Readers) /\ missed \subseteq Readers
    /\ cacheFaults \in 0..MaxCacheFaults

Current(e) == e.epoch = epoch /\ ~gone /\ ~quarantined
\* What the cache of a user would serve was computed from what is on line now, or was
\* stored by a turn that had read before the change, or its invalidation is under way or
\* was cut short: no other order of events leaves an old answer behind.
StaleAnswersExplained ==
    \A u \in Readers, i \in 1..CacheSize :
       i <= Len(cache[u]) =>
          \/ Current(cache[u][i]) \/ cache[u][i].late \/ u \in missed
          \/ \E j \in DOMAIN invalidations : u \in invalidations[j]

\* Content that the scan found suspicious is searched only after an administrator looked
\* at it; the one exception is a release that an activation overtook.
SuspiciousWasReviewed == (scanned /\ ~quarantined) => (approved = epoch \/ overtaken)

=============================================================================
