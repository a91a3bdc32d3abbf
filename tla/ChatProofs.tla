----------------------------- MODULE ChatProofs ------------------------------
(***************************************************************************)
(* The way of an answer.  The limits on running answers hold for any       *)
(* finite number of answers, processes and outages and any assignment of   *)
(* answers to processes, users and conversations; the stored context of a  *)
(* conversation is complete, for any number of turns, faults and messages  *)
(* and any trigger, boundary and length of the history; failover is        *)
(* complete for any number of calls, thresholds and retries; what is       *)
(* stored is cited, for texts of any length; and the cache serves nothing  *)
(* stale without a cause, for any number of requests, users, entries,      *)
(* activations and faults.                                                 *)
(***************************************************************************)
EXTENDS Capacity, Conversation, Providers, Citations, AnswerCache, DataLemmas, SequenceTheorems,
        FiniteSetTheorems, TLAPS

-----------------------------------------------------------------------------
(* Capacity.                                                                 *)

\* An answer that is being produced, or whose renewals run.
AtWork(x) == x.pc = "held" \/ x.beat

\* An answer at work has an unexpired entry in every scope of its backend, and the renewals
\* keep these entries alike: where the global one has time left, so have the others.
Paid ==
    \A a \in Answers : AtWork(answer[a]) =>
       /\ answer[a].backend \in Backends
       /\ \A s \in ScopesOf(a) :
            /\ slot[answer[a].backend][a][s] > 0
            /\ slot[answer[a].backend][a][s] = slot[answer[a].backend][a]["global"]
\* An answer that has not ended holds slots of one of the two backends.
Backed == \A a \in Answers : answer[a] = Over \/ answer[a].backend \in Backends

\* The inductive invariant of the capacity.
CapInv == CapTypeOK /\ Paid /\ Backed /\ LimitsHold

\* The values of answer[a].
AnswerState == [pc : {"held", "streaming", "over"}, backend : Backends \cup {"none"}, beat : BOOLEAN]

\* Every scope has a limit of at least one.
LEMMA LimitIsNat ==
  ASSUME CapacityConstants, NEW s \in Scopes
  PROVE  Limit(s) \in Nat \ {0}
  BY DEF CapacityConstants, Limit

\* Which scopes an answer takes part in.
LEMMA ScopeSets ==
  ASSUME NEW a \in Answers
  PROVE  ScopesOf(a) \subseteq Scopes /\ "global" \in ScopesOf(a)
  BY DEF ScopesOf, Scopes

\* No limit is exceeded by a step that puts no further answer to work.
LEMMA FewerAtWork ==
  ASSUME CapacityConstants, LimitsHold,
         \A q \in Answers : AtWork(answer'[q]) => AtWork(answer[q]) /\ answer'[q].backend = answer[q].backend
  PROVE  LimitsHold'
  <1> SUFFICES ASSUME NEW b \in Backends, NEW a \in Answers, NEW s \in ScopesOf(a)
               PROVE  Cardinality(Counted(b, s, a)') <= Limit(s)
    BY DEF LimitsHold
  <1>1. Counted(b, s, a)' \subseteq Counted(b, s, a)
    BY DEF Counted, AtWork
  <1>2. IsFiniteSet(Counted(b, s, a))
    BY FS_Subset DEF CapacityConstants, Counted
  <1>3. Cardinality(Counted(b, s, a)) <= Limit(s)
    BY DEF LimitsHold
  <1>4. /\ Cardinality(Counted(b, s, a)') <= Cardinality(Counted(b, s, a))
        /\ Cardinality(Counted(b, s, a)) \in Nat /\ Cardinality(Counted(b, s, a)') \in Nat
    BY <1>1, <1>2, FS_Subset, FS_CardinalityType
  <1> QED
    BY <1>3, <1>4, ScopeSets, LimitIsNat

\* An answer is put to work only where every one of its scopes has room.
LEMMA AdmittedWithRoom ==
  ASSUME CapacityConstants, CapInv, NEW a \in Answers, NEW b \in Backends,
         ~Blocked(b, a), answer[a] = Over,
         answer' = [answer EXCEPT ![a] = [pc |-> "held", backend |-> b, beat |-> FALSE]]
  PROVE  LimitsHold'
  <1> SUFFICES ASSUME NEW d \in Backends, NEW r \in Answers, NEW s \in ScopesOf(r)
               PROVE  Cardinality(Counted(d, s, r)') <= Limit(s)
    BY DEF LimitsHold
  <1> DEFINE C == Counted(d, s, r)
             D == Counted(d, s, r)'
  <1>0. \A q \in Answers : answer'[q] = IF q = a THEN [pc |-> "held", backend |-> b, beat |-> FALSE]
                                                  ELSE answer[q]
    BY DEF CapInv, CapTypeOK
  <1>1. IsFiniteSet(C) /\ Cardinality(C) \in Nat /\ Cardinality(C) <= Limit(s) /\ Limit(s) \in Nat
    BY FS_Subset, FS_CardinalityType, ScopeSets, LimitIsNat
       DEF CapInv, LimitsHold, CapacityConstants, Counted
  <1>2. CASE d = b /\ SameKey(b, s, r, a)
    <2>1. D \subseteq C \cup {a}
      BY <1>0 DEF Counted
    <2>2. a \notin C
      BY DEF Counted, Over
    <2>3. C \subseteq Unexpired(b, s, a)
      <3> SUFFICES ASSUME NEW q \in Counted(b, s, r) PROVE q \in Unexpired(b, s, a)
        BY <1>2
      <3>1. q \in Answers /\ SameKey(b, s, r, q) /\ answer[q].backend = b /\ AtWork(answer[q])
        BY DEF Counted, AtWork
      <3>2. SameKey(b, s, a, q) /\ s \in ScopesOf(q)
        BY <1>2, <3>1 DEF SameKey
      <3>3. slot[b][q][s] > 0
        BY <3>1, <3>2 DEF CapInv, Paid
      <3> QED
        BY <3>1, <3>2, <3>3 DEF Unexpired
    <2>4. Cardinality(Unexpired(b, s, a)) < Limit(s) /\ IsFiniteSet(Unexpired(b, s, a))
      <3>1. s \in ScopesOf(a) /\ s \notin Full(b, a)
        BY <1>2 DEF SameKey, Blocked
      <3>2. IsFiniteSet(Unexpired(b, s, a))
        BY FS_Subset DEF CapacityConstants, Unexpired
      <3>3. ~(Cardinality(Unexpired(b, s, a)) >= Limit(s))
        BY <3>1 DEF Full
      <3> QED
        BY <1>1, <3>2, <3>3, FS_CardinalityType
    <2>5. Cardinality(C) < Limit(s)
      BY <1>1, <2>3, <2>4, FS_Subset, FS_CardinalityType
    <2>6. IsFiniteSet(C \cup {a}) /\ Cardinality(C \cup {a}) = Cardinality(C) + 1
      BY <1>1, <2>2, FS_AddElement
    <2>7. Cardinality(D) <= Cardinality(C \cup {a}) /\ Cardinality(D) \in Nat
      BY <2>1, <2>6, FS_Subset, FS_CardinalityType
    <2> QED
      BY <1>1, <2>5, <2>6, <2>7
  <1>3. CASE ~(d = b /\ SameKey(b, s, r, a))
    <2>1. D \subseteq C
      BY <1>0, <1>3 DEF Counted
    <2>2. Cardinality(D) <= Cardinality(C) /\ Cardinality(D) \in Nat
      BY <1>1, <2>1, FS_Subset, FS_CardinalityType
    <2> QED
      BY <1>1, <2>2
  <1> QED
    BY <1>2, <1>3

\* Nobody holds a slot at first.
LEMMA CapInitInv == CapacityConstants /\ CapInit => CapInv
  <1> SUFFICES ASSUME CapacityConstants, CapInit PROVE CapInv
    OBVIOUS
  <1>1. CapTypeOK
    BY DEF CapInit, CapTypeOK, CapacityConstants, Over, Backends, Scopes
  <1>2. \A a \in Answers : answer[a] = Over /\ ~AtWork(answer[a])
    BY DEF CapInit, Over, AtWork
  <1>3. ASSUME NEW b \in Backends, NEW a \in Answers, NEW s \in ScopesOf(a)
        PROVE  Cardinality(Counted(b, s, a)) <= Limit(s)
    <2>1. Counted(b, s, a) = {}
      BY <1>2 DEF Counted, AtWork
    <2> QED
      BY <2>1, FS_EmptySet, ScopeSets, LimitIsNat
  <1> QED
    BY <1>1, <1>2, <1>3 DEF CapInv, Paid, Backed, LimitsHold

\* The script leaves the unexpired entries of the other answers alone, and gives the new
\* answer an entry in each of its scopes if none is full.
LEMMA AcquireEntries ==
  ASSUME CapacityConstants, CapTypeOK, NEW b \in Backends, NEW a \in Answers
  PROVE  /\ AfterAcquire(b, a) \in [Answers -> [Scopes -> -1..Lease]]
         /\ \A q \in Answers \ {a}, s \in Scopes :
               slot[b][q][s] > 0 => AfterAcquire(b, a)[q][s] = slot[b][q][s]
         /\ ~Blocked(b, a) => \A s \in ScopesOf(a) : AfterAcquire(b, a)[a][s] = Lease
  <1> USE ScopeSets DEF CapacityConstants
  <1>1. \A q \in Answers, s \in Scopes : slot[b][q][s] \in -1..Lease
    BY DEF CapTypeOK
  <1>2. \A q \in Answers, s \in Scopes :
           AfterAcquire(b, a)[q][s] = IF q = a /\ s \in ScopesOf(a) /\ ~Blocked(b, a) THEN Lease
                                      ELSE IF Purged(b, a, q, s) THEN -1 ELSE slot[b][q][s]
    BY DEF AfterAcquire
  <1>3. AfterAcquire(b, a) \in [Answers -> [Scopes -> -1..Lease]]
    BY <1>1 DEF AfterAcquire
  <1>4. ASSUME NEW q \in Answers \ {a}, NEW s \in Scopes, slot[b][q][s] > 0
        PROVE  AfterAcquire(b, a)[q][s] = slot[b][q][s]
    BY <1>2, <1>4 DEF Purged
  <1> QED
    BY <1>2, <1>3, <1>4

\* A request for slots, granted or not.
LEMMA AcquireKeeps ==
  ASSUME CapacityConstants, CapInv, NEW a \in Answers, Acquire(a) \/ AcquireLocally(a)
  PROVE  CapInv'
  <1>0. CapTypeOK /\ answer[a] = Over /\ Lease \in Nat \ {0, 1}
    BY DEF CapInv, Acquire, AcquireLocally, Fresh, CapacityConstants
  <1>1. PICK b \in Backends :
          /\ slot'[b] = AfterAcquire(b, a)
          /\ \A d \in Backends : slot'[d] = AfterAcquire(d, a) \/ slot'[d] = slot[d]
          /\ answer' = IF Blocked(b, a) THEN answer
                       ELSE [answer EXCEPT ![a] = [pc |-> "held", backend |-> b, beat |-> FALSE]]
          /\ DOMAIN slot' = Backends /\ slot' = [d \in Backends |-> slot'[d]]
          /\ redisUp' \in BOOLEAN /\ outages' \in 0..MaxOutages
    <2>1. CASE Acquire(a)
      <3>1. "redis" \in Backends
        BY DEF Backends
      <3> QED
        BY <1>0, <2>1, <3>1 DEF Acquire, CapTypeOK
    <2>2. CASE AcquireLocally(a)
      <3>1. PICK reached \in BOOLEAN :
              /\ IF reached THEN Outage ELSE ~redisUp /\ UNCHANGED outages
              /\ slot' = [d \in Backends |-> IF d = "local" \/ reached THEN AfterAcquire(d, a) ELSE slot[d]]
        BY <2>2 DEF AcquireLocally
      <3>2. "local" \in Backends
        BY DEF Backends
      <3>3. outages' \in 0..MaxOutages
        BY <1>0, <3>1 DEF Outage, CapTypeOK, CapacityConstants
      <3> QED
        BY <1>0, <2>2, <3>1, <3>2, <3>3 DEF AcquireLocally, CapTypeOK
    <2> QED
      BY <2>1, <2>2
  <1>2. slot' \in [Backends -> [Answers -> [Scopes -> -1..Lease]]]
    <2>1. ASSUME NEW d \in Backends PROVE slot'[d] \in [Answers -> [Scopes -> -1..Lease]]
      <3>1. AfterAcquire(d, a) \in [Answers -> [Scopes -> -1..Lease]]
        BY <1>0, AcquireEntries
      <3>2. slot[d] \in [Answers -> [Scopes -> -1..Lease]]
        BY <1>0 DEF CapTypeOK
      <3> QED
        BY <1>1, <3>1, <3>2
    <2> QED
      BY <1>1, <2>1
  <1>3. /\ answer' \in [Answers -> AnswerState]
        /\ \A q \in Answers \ {a} : answer'[q] = answer[q]
        /\ IF Blocked(b, a) THEN answer'[a] = Over
                            ELSE answer'[a] = [pc |-> "held", backend |-> b, beat |-> FALSE]
    BY <1>0, <1>1 DEF CapTypeOK, AnswerState
  <1>4. CapTypeOK'
    BY <1>1, <1>2, <1>3 DEF CapTypeOK, AnswerState
  <1>5. ASSUME NEW q \in Answers, AtWork(answer'[q])
        PROVE  /\ answer'[q].backend \in Backends
               /\ \A s \in ScopesOf(q) :
                     /\ slot'[answer'[q].backend][q][s] > 0
                     /\ slot'[answer'[q].backend][q][s] = slot'[answer'[q].backend][q]["global"]
    <2>1. CASE q = a
      <3>1. ~Blocked(b, a) /\ answer'[a].backend = b
        BY <1>3, <1>5, <2>1 DEF AtWork, Over
      <3>2. \A s \in ScopesOf(a) : slot'[b][a][s] = Lease
        BY <1>0, <1>1, <3>1, AcquireEntries
      <3> QED
        BY <1>0, <2>1, <3>1, <3>2, ScopeSets
    <2>2. CASE q # a
      <3> DEFINE d == answer[q].backend
      <3>1. answer'[q] = answer[q] /\ d \in Backends
            /\ \A s \in ScopesOf(q) : slot[d][q][s] > 0 /\ slot[d][q][s] = slot[d][q]["global"]
        BY <1>3, <1>5, <2>2 DEF CapInv, Paid
      <3>2. \A s \in ScopesOf(q) : slot'[d][q][s] = slot[d][q][s]
        <4>1. \A s \in Scopes : slot[d][q][s] > 0 => AfterAcquire(d, a)[q][s] = slot[d][q][s]
          BY <1>0, <2>2, <3>1, AcquireEntries
        <4>2. slot'[d] = AfterAcquire(d, a) \/ slot'[d] = slot[d]
          BY <1>1, <3>1
        <4> HIDE DEF d
        <4> QED
          BY <3>1, <4>1, <4>2, ScopeSets
      <3> QED
        BY <3>1, <3>2, ScopeSets
    <2> QED
      BY <2>1, <2>2
  <1>6. Paid'
    BY <1>5 DEF Paid, ScopesOf
  <1>7. Backed'
    BY <1>3 DEF CapInv, Backed
  <1>8. LimitsHold'
    <2>1. CASE Blocked(b, a)
      BY <1>1, <2>1, FewerAtWork DEF CapInv
    <2>2. CASE ~Blocked(b, a)
      BY <1>0, <1>1, <2>2, AdmittedWithRoom
    <2> QED
      BY <2>1, <2>2
  <1> QED
    BY <1>4, <1>6, <1>7, <1>8 DEF CapInv

\* A step that puts no further answer to work, gives no answer another backend, and leaves
\* the entries of those still at work alike and unexpired.
LEMMA OthersStay ==
  ASSUME CapacityConstants, CapInv, CapTypeOK',
         \A q \in Answers : answer'[q] = Over \/ answer'[q].backend \in Backends,
         \A q \in Answers : AtWork(answer'[q]) =>
            /\ AtWork(answer[q]) /\ answer'[q].backend = answer[q].backend
            /\ \A s \in ScopesOf(q) :
                  /\ slot'[answer[q].backend][q][s] > 0
                  /\ slot'[answer[q].backend][q][s] = slot'[answer[q].backend][q]["global"]
  PROVE  CapInv'
  <1>1. LimitsHold'
    BY FewerAtWork DEF CapInv
  <1>2. Paid'
    BY DEF CapInv, Paid, ScopesOf
  <1>3. Backed'
    BY DEF Backed
  <1> QED
    BY <1>1, <1>2, <1>3 DEF CapInv

\* The stream starts, ends, is refused or fails before it starts: only entries of the
\* answer itself are removed.
LEMMA AnswerEndKeeps ==
  ASSUME CapacityConstants, CapInv, NEW a \in Answers, Stream(a) \/ Release(a) \/ FailEarly(a)
  PROVE  CapInv'
  <1>0. CapTypeOK /\ answer[a] # Over /\ answer[a].backend \in Backends
        /\ answer[a] \in AnswerState /\ Lease \in Nat
    BY DEF CapInv, CapTypeOK, AnswerState, Backed, Stream, Release, FailEarly, Over, CapacityConstants
  <1>1. CASE Stream(a)
    <2> DEFINE y == [answer[a] EXCEPT !.pc = "streaming", !.beat = TRUE]
    <2>1. /\ answer' = [answer EXCEPT ![a] = y] /\ answer[a].pc = "held"
          /\ UNCHANGED <<slot, redisUp, outages>>
      BY <1>0, <1>1 DEF Stream, CapTypeOK
    <2>2. y \in AnswerState /\ y.backend = answer[a].backend
      BY <1>0 DEF AnswerState
    <2> HIDE DEF y
    <2>3. /\ answer' \in [Answers -> AnswerState]
          /\ \A q \in Answers : answer'[q] = IF q = a THEN y ELSE answer[q]
      BY <1>0, <2>1, <2>2 DEF CapTypeOK, AnswerState
    <2>4. CapTypeOK'
      BY <1>0, <2>1, <2>3 DEF CapTypeOK, AnswerState
    <2>5. AtWork(answer[a])
      BY <2>1 DEF AtWork
    <2> QED
      BY <1>0, <2>1, <2>2, <2>3, <2>4, <2>5, OthersStay DEF CapInv, Paid, Backed
  <1>2. CASE Release(a) \/ FailEarly(a)
    <2>1. /\ answer' = [answer EXCEPT ![a] = Over]
          /\ slot' = slot \/ slot' = Removed(answer[a].backend, a)
          /\ UNCHANGED <<redisUp, outages>>
      BY <1>2 DEF Release, FailEarly, Released
    <2>2. Over \in AnswerState /\ ~AtWork(Over)
      BY DEF Over, AnswerState, AtWork
    <2>3. /\ answer' \in [Answers -> AnswerState]
          /\ \A q \in Answers : answer'[q] = IF q = a THEN Over ELSE answer[q]
      BY <1>0, <2>1, <2>2 DEF CapTypeOK, AnswerState
    <2>4. /\ slot' \in [Backends -> [Answers -> [Scopes -> -1..Lease]]]
          /\ \A q \in Answers \ {a}, b \in Backends : slot'[b][q] = slot[b][q]
      <3> DEFINE none == [s \in Scopes |-> -1]
      <3>1. none \in [Scopes -> -1..Lease]
        BY <1>0
      <3>2. slot' = slot \/ slot' = [slot EXCEPT ![answer[a].backend][a] = none]
        BY <2>1 DEF Removed
      <3> HIDE DEF none
      <3> DEFINE b == answer[a].backend
      <3>3. CASE slot' = [slot EXCEPT ![b][a] = none]
        <4>1. b \in Backends
          BY <1>0
        <4> HIDE DEF b
        <4> QED
          BY <1>0, <3>1, <3>3, <4>1 DEF CapTypeOK
      <3> QED
        BY <1>0, <3>2, <3>3 DEF CapTypeOK
    <2>5. CapTypeOK'
      BY <1>0, <2>1, <2>3, <2>4 DEF CapTypeOK, AnswerState
    <2> QED
      BY <2>2, <2>3, <2>4, <2>5, OthersStay DEF CapInv, Paid, Backed
  <1> QED
    BY <1>1, <1>2

\* A renewal renews every scope of its answer or ends the keep-alive.
LEMMA BeatKeeps ==
  ASSUME CapacityConstants, CapInv, NEW a \in Answers, Beat(a)
  PROVE  CapInv'
  <1>0. CapTypeOK /\ answer[a].beat /\ answer[a] \in AnswerState /\ Lease \in Nat \ {0, 1}
    BY DEF CapInv, CapTypeOK, AnswerState, Beat, CapacityConstants
  <1>b. answer[a].backend \in Backends /\ UNCHANGED <<redisUp, outages>>
    BY <1>0 DEF CapInv, Paid, AtWork, Beat
  <1> DEFINE b == answer[a].backend
             renewed == [s \in Scopes |-> IF s \in ScopesOf(a) THEN Lease ELSE -1]
             stopped == [answer[a] EXCEPT !.beat = FALSE]
  <1>1. \/ slot' = [slot EXCEPT ![b][a] = renewed] /\ UNCHANGED answer
        \/ answer' = [answer EXCEPT ![a] = stopped] /\ UNCHANGED slot
    BY <1>0 DEF Beat, CapTypeOK
  <1>2. CASE slot' = [slot EXCEPT ![b][a] = renewed] /\ UNCHANGED answer
    <2>1. renewed \in [Scopes -> -1..Lease] /\ \A s \in ScopesOf(a) : renewed[s] = Lease
      BY <1>0, ScopeSets
    <2> HIDE DEF renewed, b
    <2>2. /\ slot' \in [Backends -> [Answers -> [Scopes -> -1..Lease]]]
          /\ slot'[b][a] = renewed
          /\ \A q \in Answers \ {a}, d \in Backends : slot'[d][q] = slot[d][q]
      BY <1>0, <1>b, <1>2, <2>1 DEF CapTypeOK, b
    <2>3. CapTypeOK'
      BY <1>0, <1>b, <1>2, <2>2 DEF CapTypeOK
    <2>4. ASSUME NEW q \in Answers, AtWork(answer[q]), NEW s \in ScopesOf(q)
          PROVE  /\ slot'[answer[q].backend][q][s] > 0
                 /\ slot'[answer[q].backend][q][s] = slot'[answer[q].backend][q]["global"]
      <3>1. CASE q = a
        BY <1>0, <2>1, <2>2, <3>1, ScopeSets DEF b
      <3>2. CASE q # a
        BY <2>2, <2>4, <3>2 DEF CapInv, Paid
      <3> QED
        BY <3>1, <3>2
    <2> QED
      BY <1>2, <2>3, <2>4, OthersStay DEF CapInv, Backed
  <1>3. CASE answer' = [answer EXCEPT ![a] = stopped] /\ UNCHANGED slot
    <2>1. stopped \in AnswerState /\ stopped.backend = answer[a].backend
      BY <1>0 DEF AnswerState
    <2> HIDE DEF stopped
    <2>2. /\ answer' \in [Answers -> AnswerState]
          /\ \A q \in Answers : answer'[q] = IF q = a THEN stopped ELSE answer[q]
      BY <1>0, <1>3, <2>1 DEF CapTypeOK, AnswerState
    <2>3. CapTypeOK'
      BY <1>0, <1>b, <1>3, <2>2 DEF CapTypeOK, AnswerState
    <2>4. AtWork(answer[a])
      BY <1>0 DEF AtWork
    <2> QED
      BY <1>b, <1>3, <2>1, <2>2, <2>3, <2>4, OthersStay DEF CapInv, Paid, Backed
  <1> QED
    BY <1>1, <1>2, <1>3

\* Time passes only while every renewal is timely; then no answer at work loses an entry.
LEMMA TickKeeps ==
  ASSUME CapacityConstants, CapInv, Tick
  PROVE  CapInv'
  <1>0. CapTypeOK /\ Lease \in Nat
    BY DEF CapInv, CapacityConstants
  <1>1. \A b \in Backends, q \in Answers, s \in Scopes :
          /\ slot[b][q][s] \in -1..Lease
          /\ slot'[b][q][s] = IF slot[b][q][s] > 0 THEN slot[b][q][s] - 1 ELSE slot[b][q][s]
    BY <1>0 DEF Tick, CapTypeOK
  <1>2. slot' \in [Backends -> [Answers -> [Scopes -> -1..Lease]]]
    <2>1. \A b \in Backends, q \in Answers, s \in Scopes :
            (IF slot[b][q][s] > 0 THEN slot[b][q][s] - 1 ELSE slot[b][q][s]) \in -1..Lease
      BY <1>0, <1>1
    <2> QED
      BY <2>1 DEF Tick
  <1>3. CapTypeOK' /\ UNCHANGED answer
    BY <1>0, <1>2 DEF CapTypeOK, Tick
  <1>4. ASSUME NEW q \in Answers, AtWork(answer[q]), NEW s \in ScopesOf(q)
        PROVE  /\ slot'[answer[q].backend][q][s] > 0
               /\ slot'[answer[q].backend][q][s] = slot'[answer[q].backend][q]["global"]
    <2> DEFINE b == answer[q].backend
    <2>1. b \in Backends /\ slot[b][q][s] = slot[b][q]["global"]
      BY <1>4 DEF CapInv, Paid
    <2>2. slot[b][q]["global"] > 1
      BY <1>4 DEF Tick, Timely, AtWork
    <2>3. s \in Scopes /\ "global" \in Scopes
      BY ScopeSets
    <2> HIDE DEF b
    <2>4. slot'[b][q][s] > 0 /\ slot'[b][q][s] = slot'[b][q]["global"]
      BY <1>1, <2>1, <2>2, <2>3
    <2> QED
      BY <2>4 DEF b
  <1> QED
    BY <1>3, <1>4, OthersStay DEF CapInv, Backed

\* Redis goes down or comes back, or a process restarts.
LEMMA OutageKeeps ==
  ASSUME CapacityConstants, CapInv,
         RedisFails \/ RedisReturns \/ \E p \in Processes : ProcessDies(p)
  PROVE  CapInv'
  <1>0. CapTypeOK /\ MaxOutages \in Nat /\ Lease \in Nat
    BY DEF CapInv, CapacityConstants
  <1>1. CASE RedisFails \/ RedisReturns
    <2>1. CapTypeOK' /\ UNCHANGED <<slot, answer>>
      <3>1. redisUp' \in BOOLEAN
        BY <1>0, <1>1 DEF RedisFails, RedisReturns
      <3>2. outages' \in 0..MaxOutages /\ UNCHANGED <<slot, answer>>
        BY <1>0, <1>1 DEF RedisFails, RedisReturns, Outage, CapTypeOK
      <3> QED
        BY <1>0, <3>1, <3>2 DEF CapTypeOK
    <2> QED
      BY <2>1, OthersStay DEF CapInv, Paid, Backed
  <1>2. ASSUME NEW p \in Processes, ProcessDies(p) PROVE CapInv'
    <2>1. /\ \A q \in Answers : answer'[q] = IF ProcessOf[q] = p THEN Over ELSE answer[q]
          /\ \A q \in Answers, b \in Backends : ProcessOf[q] # p => slot'[b][q] = slot[b][q]
          /\ UNCHANGED redisUp
      BY <1>0, <1>2 DEF ProcessDies, CapTypeOK, Backends
    <2>2. Over \in AnswerState /\ ~AtWork(Over)
      BY DEF Over, AnswerState, AtWork
    <2>3. answer' \in [Answers -> AnswerState]
      BY <1>0, <1>2, <2>2 DEF ProcessDies, CapTypeOK, AnswerState
    <2>4. slot' \in [Backends -> [Answers -> [Scopes -> -1..Lease]]]
      <3> DEFINE none == [s \in Scopes |-> -1]
                 left == [q \in Answers |-> IF ProcessOf[q] = p THEN none ELSE slot["local"][q]]
      <3>1. none \in [Scopes -> -1..Lease] /\ "local" \in Backends
        BY <1>0 DEF Backends
      <3> HIDE DEF none
      <3>2. left \in [Answers -> [Scopes -> -1..Lease]]
        BY <1>0, <3>1 DEF CapTypeOK
      <3>3. slot' = [slot EXCEPT !["local"] = left]
        BY <1>2 DEF ProcessDies, none
      <3> HIDE DEF left
      <3> QED
        BY <1>0, <3>1, <3>2, <3>3 DEF CapTypeOK
    <2>5. CapTypeOK'
      BY <1>0, <1>2, <2>1, <2>3, <2>4 DEF ProcessDies, Outage, CapTypeOK, AnswerState
    <2> QED
      BY <2>1, <2>2, <2>5, OthersStay DEF CapInv, Paid, Backed
  <1> QED
    BY <1>1, <1>2

\* The invariant of the capacity holds always.
LEMMA CapInvariant == CapSpec => []CapInv
  <1>1. CapInit => CapInv
    BY CapInitInv, CapacityConstants
  <1>2. CapInv /\ [CapNext]_capVars => CapInv'
    <2> SUFFICES ASSUME CapInv, [CapNext]_capVars PROVE CapInv'
      OBVIOUS
    <2>1. CASE UNCHANGED capVars
      <3>1. CapTypeOK' /\ UNCHANGED <<slot, answer>>
        BY <2>1 DEF CapInv, CapTypeOK, capVars
      <3> QED
        BY <3>1, CapacityConstants, OthersStay DEF CapInv, Paid, Backed
    <2>2. CASE CapNext
      BY <2>2, CapacityConstants, AcquireKeeps, AnswerEndKeeps, BeatKeeps, TickKeeps, OutageKeeps
         DEF CapNext
    <2> QED
      BY <2>1, <2>2
  <1> QED
    BY <1>1, <1>2, PTL DEF CapSpec

\* No scope ever has more answers at work than its limit while their renewals succeed, in
\* Redis or in one process, and two turns of one conversation never run together.
THEOREM LimitsAlwaysHold == CapSpec => []LimitsHold
  <1>1. CapInv => LimitsHold
    BY DEF CapInv
  <1> QED
    BY <1>1, CapInvariant, PTL

-----------------------------------------------------------------------------
(* What the summary stands for.                                              *)

\* The values of turn[t].
TurnState == [pc : {"idle", "history", "rows", "refill", "answer", "flushed", "question", "reply",
                    "summarize", "compress"},
              mode : {"rag", "agent"}, slot : BOOLEAN, seen : SUBSET Nat, rows : Seq(Nat),
              place : Nat, first : Nat, boundary : Nat]

\* The order o of the messages by created_at, when those of l slipped in behind later ones.
Timeline(o, l) == \A i \in 1..Len(o) : o[i] \in 1..Len(o) /\ (l = {} => o[i] = i)
\* A summary s of the messages up to the boundary b misses only messages that slipped.
Stands(o, l, b, s) ==
    /\ b <= Len(o) /\ \A i \in 1..b : o[i] \in s \cup l
    /\ l = {} => s = 1..b
\* A round of two messages inserted behind the first p.
Insert(o, p) == SubSeq(o, 1, p) \o <<Len(o) + 1, Len(o) + 2>> \o SubSeq(o, p + 1, Len(o))
\* The messages a turn holds to write later are in the database: the rows it read, the
\* round it stored, and the summary it asked for with the boundary it will write.
Committed(x, o, l) ==
    /\ \A i \in 1..Len(x.rows) : x.rows[i] <= Len(o)
    /\ x.pc \in {"question", "reply"} => x.first + 1 <= Len(o)
    /\ x.pc = "compress" => Stands(o, l, x.boundary, x.seen)

\* The inductive invariant of the stored context.
ConvInv ==
    /\ ConvTypeOK /\ ContextIsStored /\ Timeline(order, slipped)
    /\ \A t \in Turns : Committed(turn[t], order, slipped)

\* Where the messages stand after an insertion.
LEMMA InsertShape ==
  ASSUME NEW o \in Seq(Nat), NEW p \in 0..Len(o)
  PROVE  /\ Insert(o, p) \in Seq(Nat) /\ Len(Insert(o, p)) = Len(o) + 2
         /\ \A i \in 1..Len(o) + 2 :
              Insert(o, p)[i] = IF i <= p THEN o[i]
                                ELSE IF i <= p + 2 THEN Len(o) + i - p ELSE o[i - 2]
  <1> DEFINE a == SubSeq(o, 1, p)
             b == <<Len(o) + 1, Len(o) + 2>>
             c == SubSeq(o, p + 1, Len(o))
  <1>1. a \in Seq(Nat) /\ Len(a) = p /\ \A i \in 1..p : a[i] = o[i]
    OBVIOUS
  <1>2. c \in Seq(Nat) /\ Len(c) = Len(o) - p /\ \A i \in 1..Len(o) - p : c[i] = o[p + i]
    OBVIOUS
  <1>3. b \in Seq(Nat) /\ Len(b) = 2 /\ b[1] = Len(o) + 1 /\ b[2] = Len(o) + 2
    OBVIOUS
  <1>4. Insert(o, p) = a \o b \o c
    BY DEF Insert
  <1> HIDE DEF a, b, c
  <1>5. /\ a \o b \in Seq(Nat) /\ Len(a \o b) = p + 2
        /\ \A i \in 1..p + 2 : (a \o b)[i] = IF i <= p THEN a[i] ELSE b[i - p]
    <2>1. /\ a \o b \in Seq(Nat) /\ Len(a \o b) = Len(a) + Len(b)
          /\ \A i \in 1..Len(a) + Len(b) : (a \o b)[i] = IF i <= Len(a) THEN a[i] ELSE b[i - Len(a)]
      BY <1>1, <1>3, ConcatProperties
    <2>2. Len(a) = p /\ Len(b) = 2
      BY <1>1, <1>3
    <2> QED
      BY <2>1, <2>2
  <1> DEFINE d == a \o b
  <1> HIDE DEF d
  <1>6. d \in Seq(Nat) /\ Len(d) = p + 2
        /\ \A i \in 1..p + 2 : d[i] = IF i <= p THEN o[i] ELSE Len(o) + i - p
    <2>1. d \in Seq(Nat) /\ Len(d) = p + 2
          /\ \A i \in 1..p + 2 : d[i] = IF i <= p THEN a[i] ELSE b[i - p]
      BY <1>5 DEF d
    <2>2. ASSUME NEW i \in 1..p + 2 PROVE d[i] = IF i <= p THEN o[i] ELSE Len(o) + i - p
      <3>1. CASE i <= p
        BY <1>1, <2>1, <3>1
      <3>2. CASE i = p + 1
        BY <1>3, <2>1, <3>2
      <3>3. CASE i = p + 2
        BY <1>3, <2>1, <3>3
      <3> QED
        BY <3>1, <3>2, <3>3
    <2> QED
      BY <2>1, <2>2
  <1>7. /\ d \o c \in Seq(Nat) /\ Len(d \o c) = Len(d) + Len(c)
        /\ \A i \in 1..Len(d) + Len(c) : (d \o c)[i] = IF i <= Len(d) THEN d[i] ELSE c[i - Len(d)]
    BY <1>2, <1>6, ConcatProperties
  <1> DEFINE n == d \o c
  <1>n. n = a \o b \o c
    BY DEF d
  <1> HIDE DEF n
  <1>m. /\ n \in Seq(Nat) /\ Len(n) = Len(o) + 2
        /\ \A i \in 1..Len(o) + 2 : n[i] = IF i <= p + 2 THEN d[i] ELSE c[i - (p + 2)]
    <2>1. Len(d) = p + 2 /\ Len(d) + Len(c) = Len(o) + 2
      BY <1>2, <1>6
    <2> QED
      BY <1>7, <2>1 DEF n
  <1>8. ASSUME NEW i \in 1..Len(o) + 2
        PROVE  n[i] = IF i <= p THEN o[i] ELSE IF i <= p + 2 THEN Len(o) + i - p ELSE o[i - 2]
    <2>0. n[i] = IF i <= p + 2 THEN d[i] ELSE c[i - (p + 2)]
      BY <1>m
    <2>1. CASE i <= p + 2
      <3>1. i \in 1..p + 2
        BY <2>1
      <3>2. d[i] = IF i <= p THEN o[i] ELSE Len(o) + i - p
        BY <1>6, <3>1
      <3> QED
        BY <2>0, <2>1, <3>2
    <2>2. CASE ~(i <= p + 2)
      <3> DEFINE j == i - (p + 2)
      <3>1. n[i] = c[j] /\ j \in 1..Len(o) - p
        BY <2>0, <2>2
      <3>2. p + j = i - 2 /\ ~(i <= p)
        BY <2>2
      <3> HIDE DEF j
      <3>3. c[j] = o[p + j]
        BY <1>2, <3>1
      <3> QED
        BY <2>2, <3>1, <3>2, <3>3
    <2> QED
      BY <2>1, <2>2
  <1> QED
    BY <1>4, <1>m, <1>n, <1>8

\* A round that slips in behind others does not make an earlier summary wrong.
LEMMA InsertStands ==
  ASSUME NEW o \in Seq(Nat), NEW p \in 0..Len(o), NEW l \in SUBSET Nat, NEW k \in SUBSET Nat,
         k = IF p < Len(o) THEN l \cup {Len(o) + 1, Len(o) + 2} ELSE l,
         NEW b \in Nat, NEW s, Stands(o, l, b, s)
  PROVE  Stands(Insert(o, p), k, b, s)
  <1>1. b <= Len(o) /\ (\A i \in 1..b : o[i] \in s \cup l) /\ (l = {} => s = 1..b)
    BY DEF Stands
  <1> DEFINE n == Insert(o, p)
  <1>2. /\ Len(n) = Len(o) + 2
        /\ \A i \in 1..Len(o) + 2 : n[i] = IF i <= p THEN o[i]
                                           ELSE IF i <= p + 2 THEN Len(o) + i - p ELSE o[i - 2]
    BY InsertShape
  <1> HIDE DEF n
  <1>3. l \subseteq k
    OBVIOUS
  <1>4. ASSUME NEW i \in 1..b PROVE n[i] \in s \cup k
    <2>0. i \in 1..Len(o) /\ i \in 1..Len(o) + 2
      BY <1>1
    <2>1. CASE i <= p
      BY <1>1, <1>2, <1>3, <2>0, <2>1
    <2>2. CASE ~(i <= p) /\ i <= p + 2
      <3>1. n[i] = Len(o) + i - p /\ p < Len(o) /\ i - p \in 1..2
        BY <1>2, <2>0, <2>2
      <3>2. n[i] \in {Len(o) + 1, Len(o) + 2}
        BY <3>1
      <3> QED
        BY <3>1, <3>2
    <2>3. CASE ~(i <= p + 2)
      <3>1. n[i] = o[i - 2] /\ i - 2 \in 1..b
        BY <1>2, <2>0, <2>3
      <3> QED
        BY <1>1, <1>3, <3>1
    <2> QED
      BY <2>1, <2>2, <2>3
  <1>5. k = {} => l = {}
    BY <1>3
  <1> QED
    BY <1>1, <1>2, <1>4, <1>5 DEF Stands, n

\* It keeps the timeline, and only one that slipped in changes the order.
LEMMA InsertTimeline ==
  ASSUME NEW o \in Seq(Nat), NEW p \in 0..Len(o), NEW l \in SUBSET Nat, NEW k \in SUBSET Nat,
         k = IF p < Len(o) THEN l \cup {Len(o) + 1, Len(o) + 2} ELSE l,
         Timeline(o, l)
  PROVE  Timeline(Insert(o, p), k)
  <1>1. \A i \in 1..Len(o) : o[i] \in 1..Len(o) /\ (l = {} => o[i] = i)
    BY DEF Timeline
  <1> DEFINE n == Insert(o, p)
  <1>2. /\ Len(n) = Len(o) + 2
        /\ \A i \in 1..Len(o) + 2 : n[i] = IF i <= p THEN o[i]
                                           ELSE IF i <= p + 2 THEN Len(o) + i - p ELSE o[i - 2]
    BY InsertShape
  <1> HIDE DEF n
  <1>3. k = {} => l = {} /\ p = Len(o)
    OBVIOUS
  <1>4. ASSUME NEW i \in 1..Len(o) + 2 PROVE n[i] \in 1..Len(o) + 2 /\ (k = {} => n[i] = i)
    <2>1. CASE i <= p
      BY <1>1, <1>2, <1>3, <2>1
    <2>2. CASE ~(i <= p) /\ i <= p + 2
      BY <1>2, <1>3, <2>2
    <2>3. CASE ~(i <= p + 2)
      <3>1. n[i] = o[i - 2] /\ i - 2 \in 1..Len(o) /\ p < Len(o)
        BY <1>2, <2>3
      <3> QED
        BY <1>1, <1>3, <3>1
    <2> QED
      BY <2>1, <2>2, <2>3
  <1> QED
    BY <1>2, <1>4 DEF Timeline, n

\* What is committed stays committed when a round is added.
LEMMA LaterIsCommitted ==
  ASSUME NEW o \in Seq(Nat), NEW p \in 0..Len(o), NEW l \in SUBSET Nat, NEW k \in SUBSET Nat,
         k = IF p < Len(o) THEN l \cup {Len(o) + 1, Len(o) + 2} ELSE l,
         NEW x \in TurnState, Committed(x, o, l)
  PROVE  Committed(x, Insert(o, p), k)
  <1>0. /\ x.rows \in Seq(Nat) /\ x.first \in Nat /\ x.boundary \in Nat
        /\ Len(Insert(o, p)) = Len(o) + 2
    BY InsertShape DEF TurnState
  <1>1. ASSUME NEW i \in 1..Len(x.rows) PROVE x.rows[i] <= Len(Insert(o, p))
    <2>1. x.rows[i] \in Nat /\ x.rows[i] <= Len(o)
      BY <1>0 DEF Committed
    <2> QED
      BY <1>0, <2>1
  <1>2. x.pc \in {"question", "reply"} => x.first + 1 <= Len(Insert(o, p))
    BY <1>0 DEF Committed
  <1>3. x.pc = "compress" => Stands(Insert(o, p), k, x.boundary, x.seen)
    BY <1>0, InsertStands DEF Committed
  <1> QED
    BY <1>1, <1>2, <1>3 DEF Committed

\* The recent part of a history holds messages of that history.
LEMMA RecentIsPart ==
  ASSUME ConversationConstants, NEW m \in Nat, NEW s \in Seq(Nat), \A i \in 1..Len(s) : s[i] <= m
  PROVE  Recent(s) \in Seq(Nat) /\ \A i \in 1..Len(Recent(s)) : Recent(s)[i] <= m
  <1>1. HistoryMax \in Nat \ {0}
    BY DEF ConversationConstants
  <1>2. CASE Len(s) <= HistoryMax
    BY <1>2 DEF Recent
  <1>3. CASE ~(Len(s) <= HistoryMax)
    <2> DEFINE k == Len(s) - HistoryMax + 1
    <2>1. k \in 1..Len(s) /\ Recent(s) = SubSeq(s, k, Len(s))
      BY <1>1, <1>3 DEF Recent
    <2> HIDE DEF k
    <2> QED
      BY <2>1
  <1> QED
    BY <1>2, <1>3

\* A conversation starts without messages.
LEMMA ConvInitInv == ConversationConstants /\ ConvInit => ConvInv
  <1> SUFFICES ASSUME ConversationConstants, ConvInit PROVE ConvInv
    OBVIOUS
  <1>1. NoTurn \in TurnState /\ Committed(NoTurn, order, slipped)
    BY DEF NoTurn, TurnState, Committed
  <1>2. 1..0 = {} /\ <<>> \in Seq(Nat) /\ Len(<<>>) = 0 /\ 0 \in 0..MaxFaults
    BY DEF ConversationConstants
  <1>3. ContextIsStored /\ Timeline(order, slipped)
    BY <1>2 DEF ConvInit, ContextIsStored, Timeline
  <1>5. turn \in [Turns -> TurnState]
    BY <1>1 DEF ConvInit
  <1>6. ConvTypeOK
    BY <1>2, <1>5 DEF ConvInit, ConvTypeOK, TurnState
  <1> QED
    BY <1>1, <1>3, <1>6 DEF ConvInit, ConvInv

\* What holds of every variable in a state of the invariant, as the steps below use it.
LEMMA ConvFacts ==
  ASSUME ConversationConstants, ConvInv
  PROVE  /\ conversation \in {"none", "open", "deleted"}
         /\ messages \in Nat /\ history \in Seq(Nat) /\ upto \in Nat /\ covered \in SUBSET Nat
         /\ order \in Seq(Nat) /\ Len(order) = messages /\ slipped \in SUBSET Nat
         /\ Timeline(order, slipped) /\ Stands(order, slipped, upto, covered)
         /\ upto <= messages /\ (slipped = {} => covered = 1..upto)
         /\ \A i \in 1..Len(history) : history[i] <= messages
         /\ turn \in [Turns -> TurnState] /\ \A t \in Turns : Committed(turn[t], order, slipped)
         /\ faults \in 0..MaxFaults /\ overlapped \in BOOLEAN /\ skipped \in BOOLEAN
         /\ (Fault => faults' \in 0..MaxFaults)
         /\ NoTurn \in TurnState /\ NoTurn.pc = "idle" /\ NoTurn.rows = <<>>
         /\ Committed(NoTurn, order, slipped)
  <1>1. NoTurn \in TurnState /\ NoTurn.pc = "idle" /\ NoTurn.rows = <<>>
        /\ Committed(NoTurn, order, slipped)
    BY DEF NoTurn, TurnState, Committed
  <1>2. ConvTypeOK /\ ContextIsStored
    BY DEF ConvInv
  <1>3. Stands(order, slipped, upto, covered)
    BY <1>2 DEF ConvTypeOK, ContextIsStored, Stands
  <1>4. Timeline(order, slipped) /\ \A t \in Turns : Committed(turn[t], order, slipped)
    BY DEF ConvInv
  <1> QED
    BY <1>1, <1>2, <1>3, <1>4 DEF ConvTypeOK, ContextIsStored, TurnState, Fault, ConversationConstants

\* A step of one turn that stores no round and leaves history and summary sound.
LEMMA TurnMoves ==
  ASSUME ConversationConstants, ConvInv, NEW t \in Turns, NEW y \in TurnState,
         turn' = [turn EXCEPT ![t] = y], Committed(y, order, slipped),
         conversation' \in {"none", "open", "deleted"},
         UNCHANGED <<messages, order, slipped>>,
         history' \in Seq(Nat), \A i \in 1..Len(history') : history'[i] <= messages,
         upto' \in Nat, covered' \in SUBSET Nat, Stands(order, slipped, upto', covered'),
         faults' \in 0..MaxFaults, overlapped' \in BOOLEAN, skipped' \in BOOLEAN
  PROVE  ConvInv'
  <1>1. /\ turn' \in [Turns -> TurnState]
        /\ \A q \in Turns : turn'[q] = IF q = t THEN y ELSE turn[q]
    BY ConvFacts
  <1>2. ConvTypeOK'
    BY <1>1 DEF ConvInv, ConvTypeOK, TurnState
  <1>3. ContextIsStored'
    BY DEF ConvInv, ConvTypeOK, ContextIsStored, Stands
  <1>4. \A q \in Turns : Committed(turn[q], order, slipped)'
    BY <1>1, ConvFacts
  <1>5. Timeline(order, slipped)'
    BY ConvFacts
  <1> QED
    BY <1>2, <1>3, <1>4, <1>5 DEF ConvInv

\* A step of one turn that writes neither message nor summary.
LEMMA TurnReads ==
  ASSUME ConversationConstants, ConvInv, NEW t \in Turns, NEW y \in TurnState,
         turn' = [turn EXCEPT ![t] = y], Committed(y, order, slipped),
         conversation' \in {"none", "open", "deleted"},
         UNCHANGED <<messages, order, upto, covered, slipped>>,
         history' \in Seq(Nat), \A i \in 1..Len(history') : history'[i] <= messages,
         faults' \in 0..MaxFaults, overlapped' \in BOOLEAN, skipped' \in BOOLEAN
  PROVE  ConvInv'
  <1>1. upto' \in Nat /\ covered' \in SUBSET Nat /\ Stands(order, slipped, upto', covered')
    BY ConvFacts
  <1> QED
    BY <1>1, TurnMoves

\* From the beginning of a turn to its context.
LEMMA LoadKeeps ==
  ASSUME ConversationConstants, ConvInv, NEW t \in Turns,
         (\E way \in {"rag", "agent"} : Begin(t, way)) \/ LoadCached(t) \/ LoadRows(t) \/ Refill(t) \/ Flush(t)
  PROVE  ConvInv'
  <1> DEFINE x == turn[t]
  <1>f. /\ conversation \in {"none", "open", "deleted"}
        /\ messages \in Nat /\ history \in Seq(Nat) /\ upto \in Nat
        /\ covered \in SUBSET Nat /\ \A i \in 1..Len(history) : history[i] <= messages
        /\ turn \in [Turns -> TurnState]
        /\ faults \in 0..MaxFaults /\ overlapped \in BOOLEAN /\ skipped \in BOOLEAN
        /\ NoTurn \in TurnState
    BY ConvFacts
  <1>0. x \in TurnState /\ Committed(x, order, slipped)
    BY ConvFacts
  <1>1. ASSUME NEW way \in {"rag", "agent"}, Begin(t, way) PROVE ConvInv'
    <2> DEFINE joins == conversation = "open"
               given == IF way = "rag" THEN covered ELSE {}
               y == [NoTurn EXCEPT !.pc = "history", !.mode = way, !.seen = given, !.slot = joins]
    <2>1. joins \in BOOLEAN /\ given \in SUBSET Nat
      BY <1>f
    <2>2. turn' = [turn EXCEPT ![t] = y] /\ conversation' = "open"
          /\ UNCHANGED <<messages, order, slipped, history, upto, covered, faults, skipped>>
      BY <1>1 DEF Begin
    <2>3. overlapped' \in BOOLEAN
      <3> DEFINE now == overlapped \/ \E q \in Turns : Busy(q)
      <3>1. now \in BOOLEAN
        OBVIOUS
      <3>2. overlapped' = now
        BY <1>1 DEF Begin
      <3> HIDE DEF now
      <3> QED
        BY <3>1, <3>2
    <2> HIDE DEF joins, given
    <2>4. y \in TurnState
      BY <1>f, <2>1 DEF TurnState
    <2>5. y.pc = "history" /\ y.rows = <<>>
      BY <2>1 DEF NoTurn
    <2> HIDE DEF y
    <2>6. Committed(y, order, slipped)
      BY <2>5 DEF Committed
    <2> QED
      BY <1>f, <2>2, <2>3, <2>4, <2>6, TurnReads
  <1>2. CASE LoadCached(t)
    <2> DEFINE more == x.seen \cup Range(Recent(history))
    <2>1. Recent(history) \in Seq(Nat)
      BY ConvFacts, RecentIsPart
    <2>2. more \in SUBSET Nat
      BY <1>0, <2>1 DEF Range, TurnState
    <2> HIDE DEF more
    <2>3. \/ turn' = [turn EXCEPT ![t] = [x EXCEPT !.pc = "answer", !.seen = more]]
          \/ turn' = [turn EXCEPT ![t] = [x EXCEPT !.pc = "rows"]]
      BY <1>2, ConvFacts DEF LoadCached, more
    <2>4. faults' \in 0..MaxFaults
          /\ UNCHANGED <<conversation, messages, order, slipped, history, upto, covered, overlapped, skipped>>
      BY <1>2, ConvFacts DEF LoadCached
    <2>5. \A y \in {[x EXCEPT !.pc = "answer", !.seen = more], [x EXCEPT !.pc = "rows"]} :
             y \in TurnState /\ y.pc \in {"answer", "rows"} /\ y.rows = x.rows
      BY <1>0, <2>2 DEF TurnState
    <2>6. PICK y \in {[x EXCEPT !.pc = "answer", !.seen = more], [x EXCEPT !.pc = "rows"]} :
             turn' = [turn EXCEPT ![t] = y]
      BY <2>3
    <2>7. Committed(y, order, slipped)
      BY <1>0, <2>4, <2>5 DEF Committed
    <2> QED
      BY <1>f, <2>4, <2>5, <2>6, <2>7, TurnReads
  <1>3. CASE LoadRows(t)
    <2> DEFINE rows == Recent(order)
               y == [x EXCEPT !.seen = x.seen \cup Range(rows), !.rows = rows,
                              !.pc = IF rows = <<>> THEN "answer" ELSE "refill"]
    <2>1. rows \in Seq(Nat) /\ \A i \in 1..Len(rows) : rows[i] <= Len(order)
      <3>1. order \in Seq(Nat) /\ Len(order) \in Nat /\ \A i \in 1..Len(order) : order[i] <= Len(order)
        <4>1. order \in Seq(Nat) /\ Len(order) \in Nat /\ Timeline(order, slipped)
          BY ConvFacts
        <4> QED
          BY <4>1 DEF Timeline
      <3> DEFINE m == Len(order)
      <3>2. m \in Nat /\ \A i \in 1..Len(order) : order[i] <= m
        BY <3>1
      <3> HIDE DEF m, y
      <3>3. Recent(order) \in Seq(Nat) /\ \A i \in 1..Len(Recent(order)) : Recent(order)[i] <= m
        BY <3>1, <3>2, RecentIsPart
      <3> QED
        BY <3>3 DEF m
    <2>2. turn' = [turn EXCEPT ![t] = y]
          /\ UNCHANGED <<conversation, messages, order, slipped, history, upto, covered, faults, overlapped, skipped>>
      BY <1>3, ConvFacts DEF LoadRows
    <2> HIDE DEF rows
    <2>3. x.seen \cup Range(rows) \in SUBSET Nat
      BY <1>0, <2>1 DEF Range, TurnState
    <2>4. y \in TurnState /\ y.pc \in {"answer", "refill"} /\ y.rows = rows
      <3>1. rows \in Seq(Nat)
        BY <2>1
      <3> QED
        BY <1>0, <2>3, <3>1 DEF TurnState
    <2> HIDE DEF y
    <2>5. Committed(y, order, slipped)
      BY <2>1, <2>2, <2>4 DEF Committed
    <2> QED
      BY <2>2, <2>4, <2>5, <1>f, TurnReads
  <1>4. CASE Refill(t)
    <2> DEFINE y == [x EXCEPT !.pc = "answer", !.rows = <<>>]
    <2>1. /\ turn' = [turn EXCEPT ![t] = y] /\ faults' \in 0..MaxFaults
          /\ history' \in {history, x.rows}
          /\ UNCHANGED <<conversation, messages, order, slipped, upto, covered, overlapped, skipped>>
      BY <1>4, ConvFacts DEF Refill
    <2>2. y \in TurnState /\ y.pc = "answer" /\ y.rows = <<>>
      <3>1. <<>> \in Seq(Nat)
        OBVIOUS
      <3> QED
        BY <1>0, <3>1 DEF TurnState
    <2> HIDE DEF y
    <2>3. Committed(y, order, slipped)
      BY <2>2 DEF Committed
    <2>4. x.rows \in Seq(Nat) /\ \A i \in 1..Len(x.rows) : x.rows[i] <= messages
      BY <1>0, ConvFacts DEF Committed, TurnState
    <2> QED
      BY <1>f, <2>1, <2>2, <2>3, <2>4, TurnReads
  <1>5. CASE Flush(t)
    <2> DEFINE y == [x EXCEPT !.pc = "flushed", !.mode = "rag", !.seen = {}, !.place = messages]
    <2>1. /\ turn' = [turn EXCEPT ![t] = y]
          /\ UNCHANGED <<conversation, messages, order, slipped, history, upto, covered, faults,
                         overlapped, skipped>>
      BY <1>5, <1>f DEF Flush
    <2>2. y \in TurnState /\ y.pc = "flushed" /\ y.rows = x.rows
      BY <1>0, <1>f DEF TurnState
    <2> HIDE DEF y
    <2>3. Committed(y, order, slipped)
      BY <1>0, <2>2 DEF Committed
    <2> QED
      BY <1>f, <2>1, <2>2, <2>3, TurnReads
  <1> QED
    BY <1>1, <1>2, <1>3, <1>4, <1>5

\* The round is stored, behind what was stored when it was flushed.
LEMMA PersistKeeps ==
  ASSUME ConversationConstants, ConvInv, NEW t \in Turns, Persist(t)
  PROVE  ConvInv'
  <1> DEFINE x == turn[t]
             y == [x EXCEPT !.pc = "question", !.place = 0, !.first = messages + 1]
  <1>f. /\ messages \in Nat /\ upto \in Nat /\ covered \in SUBSET Nat
        /\ order \in Seq(Nat) /\ Len(order) = messages /\ slipped \in SUBSET Nat
        /\ Timeline(order, slipped) /\ Stands(order, slipped, upto, covered)
        /\ turn \in [Turns -> TurnState] /\ \A q \in Turns : Committed(turn[q], order, slipped)
    BY ConvFacts
  <1>0. x \in TurnState /\ Committed(x, order, slipped) /\ x.pc = "flushed"
    BY <1>f DEF Persist
  <1>p. PICK p \in x.place..messages :
          /\ order' = SubSeq(order, 1, p) \o <<messages + 1, messages + 2>> \o SubSeq(order, p + 1, messages)
          /\ slipped' = IF p < messages THEN slipped \cup {messages + 1, messages + 2} ELSE slipped
    BY DEF Persist
  <1>1. /\ turn' = [turn EXCEPT ![t] = y] /\ messages' = messages + 2
        /\ UNCHANGED <<conversation, history, upto, covered, faults, overlapped, skipped>>
    BY DEF Persist
  <1>2. p \in 0..Len(order)
    BY <1>0, <1>f DEF TurnState
  <1>3. order' = Insert(order, p) /\ order' \in Seq(Nat) /\ Len(order') = messages'
    BY <1>f, <1>p, <1>1, <1>2, InsertShape DEF Insert
  <1>4. slipped' \in SUBSET Nat
        /\ slipped' = IF p < Len(order) THEN slipped \cup {Len(order) + 1, Len(order) + 2} ELSE slipped
    BY <1>f, <1>p
  <1>5. y \in TurnState /\ y.pc = "question" /\ y.first = messages + 1 /\ y.rows = x.rows
    <2>1. messages + 1 \in Nat
      BY <1>f
    <2> QED
      BY <1>0, <2>1 DEF TurnState
  <1>6. turn' \in [Turns -> TurnState] /\ \A q \in Turns : turn'[q] = IF q = t THEN y ELSE turn[q]
    BY <1>1, <1>5, <1>f
  <1> HIDE DEF y
  <1>7. Timeline(order, slipped)'
    BY <1>f, <1>2, <1>3, <1>4, InsertTimeline
  <1>8. Stands(order', slipped', upto, covered)
    BY <1>f, <1>2, <1>3, <1>4, InsertStands
  <1>9. ASSUME NEW q \in Turns PROVE Committed(turn'[q], order', slipped')
    <2>1. Committed(turn[q], order', slipped')
      <3> DEFINE z == turn[q]
      <3>1. z \in TurnState /\ Committed(z, order, slipped)
        BY <1>f
      <3> HIDE DEF z
      <3>2. Committed(z, order', slipped')
        BY <1>f, <1>2, <1>3, <1>4, <3>1, LaterIsCommitted
      <3> QED
        BY <3>2 DEF z
    <2>2. CASE q = t
      BY <1>1, <1>3, <1>5, <1>6, <1>f, <2>1, <2>2 DEF Committed
    <2>3. CASE q # t
      BY <1>6, <2>1, <2>3
    <2> QED
      BY <2>2, <2>3
  <1>a. ConvTypeOK'
    <2>1. messages' \in Nat /\ upto' \in Nat /\ covered' \subseteq Nat
      BY <1>f, <1>1
    <2> QED
      BY <1>1, <1>3, <1>4, <1>6, <2>1 DEF ConvInv, ConvTypeOK, TurnState
  <1>b. ContextIsStored'
    <2>1. \A i \in 1..Len(history) : history[i] \in Nat /\ history[i] <= messages
      BY DEF ConvInv, ConvTypeOK, ContextIsStored
    <2>2. \A i \in 1..Len(history') : history'[i] <= messages'
      BY <1>f, <1>1, <2>1
    <2> QED
      BY <1>1, <1>3, <1>8, <2>2 DEF ContextIsStored, Stands
  <1> QED
    BY <1>7, <1>9, <1>a, <1>b DEF ConvInv

\* What is appended is a message of a stored round, whatever the history has become.
LEMMA AppendKeeps ==
  ASSUME ConversationConstants, ConvInv, NEW t \in Turns, AppendQuestion(t) \/ AppendAnswer(t)
  PROVE  ConvInv'
  <1> DEFINE x == turn[t]
  <1>f. /\ conversation \in {"none", "open", "deleted"}
        /\ messages \in Nat /\ history \in Seq(Nat) /\ upto \in Nat
        /\ covered \in SUBSET Nat /\ \A i \in 1..Len(history) : history[i] <= messages
        /\ turn \in [Turns -> TurnState]
        /\ faults \in 0..MaxFaults /\ overlapped \in BOOLEAN /\ skipped \in BOOLEAN
        /\ NoTurn \in TurnState
    BY ConvFacts
  <1>0. x \in TurnState /\ Committed(x, order, slipped)
    BY ConvFacts
  <1>1. PICK m \in {x.first, x.first + 1}, next \in {"reply", "summarize"} :
          /\ x.pc \in {"question", "reply"}
          /\ AppendHistory(t, x.pc, next, m)
    BY DEF AppendQuestion, AppendAnswer, AppendHistory
  <1>2. m \in Nat /\ m <= messages /\ x.first + 1 <= messages
    <2>1. x.first \in Nat
      BY <1>0 DEF TurnState
    <2> QED
      BY <1>f, <1>0, <1>1, <2>1, ConvFacts DEF Committed
  <1>a. Append(history, m) \in Seq(Nat)
        /\ \A i \in 1..Len(Append(history, m)) : Append(history, m)[i] <= messages
    BY <1>f, <1>2
  <1>b. Recent(Append(history, m)) \in Seq(Nat)
        /\ \A i \in 1..Len(Recent(Append(history, m))) : Recent(Append(history, m))[i] <= messages
    BY <1>f, <1>a, RecentIsPart
  <1> DEFINE y == [x EXCEPT !.pc = next, !.first = IF next = "summarize" THEN 0 ELSE x.first]
  <1>3. /\ turn' = [turn EXCEPT ![t] = y] /\ faults' \in 0..MaxFaults
        /\ history' \in {history, Recent(Append(history, m))}
        /\ UNCHANGED <<conversation, messages, order, slipped, upto, covered, overlapped, skipped>>
    BY <1>1, ConvFacts DEF AppendHistory
  <1>4. y \in TurnState /\ y.pc = next /\ y.rows = x.rows /\ (next = "reply" => y.first = x.first)
    BY <1>0 DEF TurnState
  <1> HIDE DEF y
  <1>5. Committed(y, order, slipped)
    BY <1>0, <1>2, <1>3, <1>4, ConvFacts DEF Committed
  <1>6. history' \in Seq(Nat) /\ \A i \in 1..Len(history') : history'[i] <= messages
    BY <1>f, <1>3, <1>b
  <1> QED
    BY <1>f, <1>3, <1>4, <1>5, <1>6, TurnReads

\* The next summary covers what the last one did and the messages up to its boundary, which
\* are all in the database; boundary and summary are written together, so a later write
\* of an older summary takes both back.
LEMMA SummaryKeeps ==
  ASSUME ConversationConstants, ConvInv, NEW t \in Turns, Summarize(t) \/ StoreSummary(t)
  PROVE  ConvInv'
  <1> DEFINE x == turn[t]
  <1>f. /\ conversation \in {"none", "open", "deleted"}
        /\ messages \in Nat /\ history \in Seq(Nat) /\ upto \in Nat
        /\ covered \in SUBSET Nat /\ \A i \in 1..Len(history) : history[i] <= messages
        /\ turn \in [Turns -> TurnState]
        /\ faults \in 0..MaxFaults /\ overlapped \in BOOLEAN /\ skipped \in BOOLEAN
        /\ NoTurn \in TurnState
    BY ConvFacts
  <1>0. x \in TurnState /\ Committed(x, order, slipped)
    BY ConvFacts
  <1>1. CASE Summarize(t)
    <2> DEFINE boundary == messages - SummaryKeep
               ask == [x EXCEPT !.pc = "compress", !.boundary = boundary,
                                !.seen = covered \cup Range(SubSeq(order, upto + 1, boundary))]
    <2>1. /\ \/ turn' = [turn EXCEPT ![t] = NoTurn]
             \/ ~(boundary <= upto) /\ turn' = [turn EXCEPT ![t] = ask]
          /\ UNCHANGED <<conversation, messages, order, slipped, history, upto, covered, faults, overlapped, skipped>>
      BY <1>1, <1>f DEF Summarize, SummarizeFrom
    <2>2. CASE turn' = [turn EXCEPT ![t] = NoTurn]
      <3>1. Committed(NoTurn, order, slipped)
        BY DEF NoTurn, Committed
      <3> QED
        BY <1>f, <2>1, <2>2, <3>1, TurnReads
    <2>3. CASE ~(boundary <= upto) /\ turn' = [turn EXCEPT ![t] = ask]
      <3>1. SummaryKeep \in Nat
        BY DEF ConversationConstants
      <3>2. boundary \in Nat /\ boundary <= messages /\ upto < boundary
        BY <1>f, <2>3, <3>1
      <3> HIDE DEF boundary
      <3> DEFINE part == SubSeq(order, upto + 1, boundary)
                 more == covered \cup Range(part)
      <3>3. more \in SUBSET Nat /\ Stands(order, slipped, boundary, more)
        <4>0. /\ order \in Seq(Nat) /\ Len(order) = messages /\ Timeline(order, slipped)
              /\ Stands(order, slipped, upto, covered)
          BY ConvFacts
        <4>1. /\ part \in Seq(Nat) /\ Len(part) = boundary - upto
              /\ \A i \in 1..boundary - upto : part[i] = order[upto + i]
          BY <1>f, <3>2, <4>0, SubSeqProperties
        <4> HIDE DEF part
        <4>2. Range(part) = {part[i] : i \in 1..boundary - upto}
          BY <4>1 DEF Range
        <4>3. ASSUME NEW i \in 1..boundary PROVE order[i] \in more \cup slipped
          <5>1. CASE i <= upto
            BY <4>0, <5>1 DEF Stands
          <5>2. CASE ~(i <= upto)
            <6>1. i - upto \in 1..boundary - upto /\ part[i - upto] = order[i]
              BY <1>f, <3>2, <4>1, <5>2
            <6> QED
              BY <4>2, <6>1
          <5> QED
            BY <5>1, <5>2
        <4>4. ASSUME slipped = {} PROVE more = 1..boundary
          <5>1. covered = 1..upto /\ \A i \in 1..messages : order[i] = i
            BY <4>0, <4>4 DEF Stands, Timeline
          <5>2. \A i \in 1..boundary - upto : part[i] = upto + i
            <6> SUFFICES ASSUME NEW i \in 1..boundary - upto PROVE part[i] = upto + i
              OBVIOUS
            <6>1. upto + i \in 1..messages
              BY <1>f, <3>2
            <6> QED
              BY <4>1, <5>1, <6>1
          <5>3. \A i \in 1..boundary : i > upto => i \in Range(part)
            <6> SUFFICES ASSUME NEW i \in 1..boundary, i > upto PROVE i \in Range(part)
              OBVIOUS
            <6>1. i - upto \in 1..boundary - upto /\ part[i - upto] = i
              BY <1>f, <3>2, <5>2
            <6> QED
              BY <4>2, <6>1
          <5>4. Range(part) \subseteq 1..boundary
            BY <1>f, <3>2, <4>2, <5>2
          <5> QED
            BY <1>f, <3>2, <5>1, <5>3, <5>4
        <4>5. more \in SUBSET Nat
          <5>1. \A i \in 1..boundary - upto : part[i] \in Nat
            BY <4>1
          <5> QED
            BY <1>f, <4>2, <5>1
        <4> QED
          BY <3>2, <4>0, <4>3, <4>4, <4>5 DEF Stands
      <3> HIDE DEF more
      <3>5. ask \in TurnState /\ ask.pc = "compress" /\ ask.boundary = boundary /\ ask.seen = more
            /\ ask.rows = x.rows
        BY <1>0, <3>2, <3>3 DEF TurnState, more
      <3> HIDE DEF ask
      <3>7. Committed(ask, order, slipped)
        BY <1>0, <3>3, <3>5 DEF Committed
      <3> QED
        BY <1>f, <2>1, <2>3, <3>5, <3>7, TurnReads
    <2> QED
      BY <2>1, <2>2, <2>3
  <1>2. CASE StoreSummary(t)
    <2>1. /\ turn' = [turn EXCEPT ![t] = NoTurn]
          /\ \/ covered' = x.seen /\ upto' = x.boundary
             \/ UNCHANGED <<covered, upto>>
          /\ UNCHANGED <<conversation, messages, order, slipped, history, faults, overlapped, skipped>>
      BY <1>2 DEF StoreSummary, StoreBoundary
    <2>2. x.boundary \in Nat /\ x.seen \in SUBSET Nat /\ Stands(order, slipped, x.boundary, x.seen)
      BY <1>0, <1>2 DEF StoreSummary, StoreBoundary, Committed, TurnState
    <2>3. upto' \in Nat /\ covered' \in SUBSET Nat /\ Stands(order, slipped, upto', covered')
      BY <1>f, <2>1, <2>2, ConvFacts
    <2>5. Committed(NoTurn, order, slipped)
      BY DEF NoTurn, Committed
    <2>6. history' \in Seq(Nat) /\ \A i \in 1..Len(history') : history'[i] <= messages
      BY <1>f, <2>1
    <2>7. conversation' \in {"none", "open", "deleted"} /\ faults' \in 0..MaxFaults
          /\ overlapped' \in BOOLEAN /\ skipped' \in BOOLEAN
      BY <1>f, <2>1
    <2> QED
      BY <1>f, <2>1, <2>3, <2>5, <2>6, <2>7, TurnMoves
  <1> QED
    BY <1>1, <1>2

\* The ways a turn, its slot, the history or the conversation go away.
LEMMA EndKeeps ==
  ASSUME ConversationConstants, ConvInv,
         \/ \E t \in Turns : EndTurn(t) \/ SlotLost(t)
         \/ Expire \/ DeleteConversation
  PROVE  ConvInv'
  <1>1. ASSUME NEW t \in Turns, EndTurn(t) PROVE ConvInv'
    <2> DEFINE x == turn[t]
    <2>f. /\ conversation \in {"none", "open", "deleted"}
          /\ messages \in Nat /\ history \in Seq(Nat) /\ upto \in Nat
          /\ covered \in SUBSET Nat /\ \A i \in 1..Len(history) : history[i] <= messages
          /\ turn \in [Turns -> TurnState]
          /\ faults \in 0..MaxFaults /\ overlapped \in BOOLEAN /\ skipped \in BOOLEAN
          /\ NoTurn \in TurnState
      BY ConvFacts
    <2>0. x \in TurnState /\ Committed(x, order, slipped)
      BY ConvFacts
    <2>1. /\ turn' = [turn EXCEPT ![t] = NoTurn]
          /\ UNCHANGED <<conversation, messages, order, slipped, history, upto, covered, faults, overlapped>>
      BY <1>1 DEF EndTurn
    <2>2. skipped' \in BOOLEAN
      <3> DEFINE cut == skipped \/ turn[t].pc \in {"question", "reply", "summarize", "compress"}
      <3>1. cut \in BOOLEAN
        OBVIOUS
      <3>2. skipped' = cut
        BY <1>1 DEF EndTurn
      <3> HIDE DEF cut
      <3> QED
        BY <3>1, <3>2
    <2>3. Committed(NoTurn, order, slipped)
      BY DEF NoTurn, Committed
    <2> QED
      BY <2>f, <2>1, <2>2, <2>3, TurnReads
  <1>2. ASSUME NEW t \in Turns, SlotLost(t) PROVE ConvInv'
    <2> DEFINE x == turn[t]
    <2>f. /\ conversation \in {"none", "open", "deleted"}
          /\ messages \in Nat /\ history \in Seq(Nat) /\ upto \in Nat
          /\ covered \in SUBSET Nat /\ \A i \in 1..Len(history) : history[i] <= messages
          /\ turn \in [Turns -> TurnState]
          /\ faults \in 0..MaxFaults /\ overlapped \in BOOLEAN /\ skipped \in BOOLEAN
          /\ NoTurn \in TurnState
      BY ConvFacts
    <2>0. x \in TurnState /\ Committed(x, order, slipped)
      BY ConvFacts
    <2> DEFINE y == [x EXCEPT !.slot = FALSE]
    <2>1. /\ turn' = [turn EXCEPT ![t] = y] /\ faults' \in 0..MaxFaults
          /\ UNCHANGED <<conversation, messages, order, slipped, history, upto, covered, overlapped, skipped>>
      BY <1>2, ConvFacts DEF SlotLost
    <2>2. /\ y \in TurnState /\ y.pc = x.pc /\ y.rows = x.rows /\ y.first = x.first
          /\ y.boundary = x.boundary /\ y.seen = x.seen
      BY <2>0 DEF TurnState
    <2> HIDE DEF y
    <2>3. Committed(y, order, slipped)
      BY <2>0, <2>1, <2>2 DEF Committed
    <2> QED
      BY <2>f, <2>1, <2>2, <2>3, TurnReads
  <1>3. CASE Expire
    <2>1. /\ history' = <<>> /\ faults' \in 0..MaxFaults
          /\ UNCHANGED <<conversation, messages, order, slipped, upto, covered, turn, overlapped, skipped>>
      BY <1>3, ConvFacts DEF Expire
    <2>2. <<>> \in Seq(Nat) /\ Len(<<>>) = 0
      OBVIOUS
    <2> QED
      BY <2>1, <2>2 DEF ConvInv, ConvTypeOK, ContextIsStored
  <1>4. CASE DeleteConversation
    BY <1>4 DEF DeleteConversation, ConvInv, ConvTypeOK, ContextIsStored
  <1> QED
    BY <1>1, <1>2, <1>3, <1>4

\* The invariant of the stored context holds always.
LEMMA ConvInvariant == ConvSpec => []ConvInv
  <1>1. ConvInit => ConvInv
    BY ConvInitInv, ConversationConstants
  <1>2. ConvInv /\ [ConvNext]_convVars => ConvInv'
    <2> SUFFICES ASSUME ConvInv, [ConvNext]_convVars PROVE ConvInv'
      OBVIOUS
    <2>1. CASE UNCHANGED convVars
      BY <2>1 DEF convVars, ConvInv, ConvTypeOK, ContextIsStored, Timeline, Committed, Stands
    <2>2. CASE ConvNext
      BY <2>2, ConversationConstants, LoadKeeps, PersistKeeps, AppendKeeps, SummaryKeeps, EndKeeps
         DEF ConvNext
    <2> QED
      BY <2>1, <2>2
  <1> QED
    BY <1>1, <1>2, PTL DEF ConvSpec

\* Summary and boundary agree and the history holds only stored messages, whatever turns
\* overlap, fail or write their summaries out of order.
THEOREM SummaryMatchesBoundary == ConvSpec => []ContextIsStored
  <1>1. ConvInv => ContextIsStored
    BY DEF ConvInv
  <1> QED
    BY <1>1, ConvInvariant, PTL

-----------------------------------------------------------------------------
(* Nothing is missing from the context.                                      *)

\* Nothing has gone wrong, which is what ContextComplete speaks about.
Calm == faults = 0 /\ ~overlapped /\ ~skipped
\* The messages the history holds when the last of them is m.
LastOf(m) == Recent([i \in 1..m |-> i])
\* What a turn is to know: all of it, from the summary and the history, or only the latest.
Known(x, m) == IF x.mode = "rag" THEN 1..m ELSE Range(LastOf(m))
\* The messages after the boundary of the summary fit into the history.
Short == messages - upto <= HistoryMax
\* How the history, the database and what the turn has seen agree at each step of the only
\* turn there is: the history follows the database one message behind in each of the two writes.
Stage(x) ==
    /\ x.pc \in {"history", "rows", "refill", "answer", "flushed"} => Short
    /\ x.pc \in {"history", "rows"} => x.seen = IF x.mode = "rag" THEN covered ELSE {}
    /\ x.pc \in {"refill", "answer"} => x.seen = Known(x, messages)
    /\ x.pc = "flushed" => x.place = messages
    /\ x.pc = "history" => history = <<>> \/ history = LastOf(messages)
    /\ x.pc \in {"rows", "refill"} => history = <<>>
    /\ x.pc = "refill" => x.rows = LastOf(messages)
    /\ x.pc \in {"answer", "flushed", "summarize", "compress"} => history = LastOf(messages)
    /\ x.pc = "question" => messages >= 2 /\ history = LastOf(messages - 2)
    /\ x.pc = "reply" => messages >= 2 /\ history = LastOf(messages - 1)
    /\ x.pc \in {"question", "reply"} => x.first = messages - 1
    /\ x.pc = "compress" => x.boundary = messages - SummaryKeep
\* Between turns the history is absent or holds the last messages, and is long enough.
Rested ==
    /\ history = <<>> \/ history = LastOf(messages)
    /\ conversation # "deleted" => Short
\* Messages come in pairs, and there are none before the conversation.
Rounds == messages % 2 = 0 /\ (conversation = "none" => messages = 0)
\* The inductive invariant: as long as nothing went wrong, at most one turn runs, it knows
\* what it is to know, and the messages have the order in which they were committed.
CompleteInv ==
    /\ Rounds
    /\ Calm => /\ slipped = {}
               /\ \A t, q \in Turns : Busy(t) /\ Busy(q) => t = q
               /\ (\A t \in Turns : ~Busy(t)) => Rested
               /\ \A t \in Turns : Stage(turn[t])
\* What the three settings have to satisfy, which the code does not check: what the summary
\* leaves out fits into the history, the history holds whole rounds, and it can wait for the next
\* summary.  The shipped settings (12, 12 and 6 messages) do.
SettingsFit ==
    /\ SummaryKeep <= HistoryMax
    /\ HistoryMax % 2 = 0 /\ SummaryTrigger <= HistoryMax + 2

\* The last messages are consecutive and end with m.
LEMMA LastOfShape ==
  ASSUME HistoryMax \in Nat \ {0}, NEW m \in Nat
  PROVE  /\ LastOf(m) \in Seq(Nat)
         /\ Len(LastOf(m)) = IF m <= HistoryMax THEN m ELSE HistoryMax
         /\ \A i \in 1..Len(LastOf(m)) : LastOf(m)[i] = m - Len(LastOf(m)) + i
  <1> DEFINE all == [i \in 1..m |-> i]
  <1>1. all \in Seq(Nat) /\ Len(all) = m /\ \A i \in 1..m : all[i] = i
    OBVIOUS
  <1>2. LastOf(m) = Recent(all)
    BY DEF LastOf
  <1> HIDE DEF all
  <1>3. CASE m <= HistoryMax
    BY <1>1, <1>2, <1>3 DEF Recent
  <1>4. CASE ~(m <= HistoryMax)
    <2> DEFINE k == m - HistoryMax + 1
    <2>1. k \in 1..m /\ Recent(all) = SubSeq(all, k, m)
      BY <1>1, <1>4 DEF Recent
    <2>2. /\ SubSeq(all, k, m) \in Seq(Nat) /\ Len(SubSeq(all, k, m)) = HistoryMax
          /\ \A i \in 1..HistoryMax : SubSeq(all, k, m)[i] = all[k + i - 1]
      BY <1>1, <2>1
    <2>3. \A i \in 1..HistoryMax : all[k + i - 1] = m - HistoryMax + i
      BY <1>1, <1>4
    <2> QED
      BY <1>2, <1>4, <2>1, <2>2, <2>3
  <1> QED
    BY <1>3, <1>4

\* Sequences with the same length and elements are equal.
LEMMA SameSequence ==
  ASSUME NEW s \in Seq(Nat), NEW u \in Seq(Nat), Len(s) = Len(u), \A i \in 1..Len(s) : s[i] = u[i]
  PROVE  s = u
  OBVIOUS

\* Appending the next message and trimming gives the last messages again.
LEMMA LastOfGrows ==
  ASSUME HistoryMax \in Nat \ {0}, NEW m \in Nat
  PROVE  Recent(Append(LastOf(m), m + 1)) = LastOf(m + 1)
  <1> DEFINE a == Append(LastOf(m), m + 1)
             n == Len(LastOf(m))
  <1>1. /\ LastOf(m) \in Seq(Nat) /\ n = IF m <= HistoryMax THEN m ELSE HistoryMax
        /\ \A i \in 1..n : LastOf(m)[i] = m - n + i
    BY LastOfShape
  <1>2. /\ LastOf(m + 1) \in Seq(Nat)
        /\ Len(LastOf(m + 1)) = IF m + 1 <= HistoryMax THEN m + 1 ELSE HistoryMax
        /\ \A i \in 1..Len(LastOf(m + 1)) : LastOf(m + 1)[i] = m + 1 - Len(LastOf(m + 1)) + i
    BY LastOfShape, m + 1 \in Nat
  <1>3. /\ a \in Seq(Nat) /\ Len(a) = n + 1 /\ n \in Nat
        /\ \A i \in 1..n + 1 : a[i] = m - n + i
    BY <1>1
  <1> HIDE DEF a, n
  <1>4. CASE n + 1 <= HistoryMax
    <2>1. n = m
      BY <1>1, <1>4
    <2>2. Recent(a) = a
      BY <1>3, <1>4 DEF Recent
    <2>0. Len(LastOf(m + 1)) = m + 1
      BY <1>2, <1>4, <2>1
    <2>3. \A i \in 1..m + 1 : LastOf(m + 1)[i] = i /\ a[i] = i
      <3> SUFFICES ASSUME NEW i \in 1..m + 1 PROVE LastOf(m + 1)[i] = i /\ a[i] = i
        OBVIOUS
      <3>1. LastOf(m + 1)[i] = m + 1 - (m + 1) + i
        BY <1>2, <2>0
      <3>2. a[i] = m - m + i
        BY <1>3, <2>1
      <3> QED
        BY <3>1, <3>2
    <2> QED
      BY <1>2, <1>3, <2>0, <2>1, <2>2, <2>3, SameSequence DEF a
  <1>5. CASE ~(n + 1 <= HistoryMax)
    <2>1. n = HistoryMax /\ m >= HistoryMax
      BY <1>1, <1>3, <1>5
    <2>2. Recent(a) = SubSeq(a, 2, HistoryMax + 1)
      <3>1. Len(a) - HistoryMax + 1 = 2 /\ ~(Len(a) <= HistoryMax)
        BY <1>3, <2>1
      <3> QED
        BY <1>3, <2>1, <3>1 DEF Recent
    <2>3. /\ Recent(a) \in Seq(Nat) /\ Len(Recent(a)) = HistoryMax
          /\ \A i \in 1..HistoryMax : Recent(a)[i] = a[i + 1]
      BY <1>3, <2>1, <2>2
    <2>4. \A i \in 1..HistoryMax : Recent(a)[i] = m + 1 - HistoryMax + i
      BY <1>3, <2>1, <2>3
    <2>5. /\ Len(LastOf(m + 1)) = HistoryMax
          /\ \A i \in 1..HistoryMax : LastOf(m + 1)[i] = m + 1 - HistoryMax + i
      <3>1. Len(LastOf(m + 1)) = HistoryMax
        BY <1>2, <2>1
      <3> QED
        BY <1>2, <3>1
    <2> QED
      BY <1>2, <2>3, <2>4, <2>5, SameSequence DEF a
  <1> QED
    BY <1>4, <1>5

\* Trimming twice is trimming once.
LEMMA LastOfIsRecent ==
  ASSUME HistoryMax \in Nat \ {0}, NEW m \in Nat
  PROVE  /\ Recent(LastOf(m)) = LastOf(m)
         /\ (LastOf(m) = <<>>) = (m = 0)
  <1>1. LastOf(m) \in Seq(Nat) /\ Len(LastOf(m)) = IF m <= HistoryMax THEN m ELSE HistoryMax
    BY LastOfShape
  <1> QED
    BY <1>1 DEF Recent

\* What the summary covers and the recent messages make up all of them.
LEMMA SummaryAndRecent ==
  ASSUME HistoryMax \in Nat \ {0}, NEW m \in Nat, NEW u \in Nat, u <= m, m - u <= HistoryMax
  PROVE  (1..u) \cup Range(LastOf(m)) = 1..m
  <1> DEFINE s == LastOf(m)
             n == Len(s)
  <1>1. /\ s \in Seq(Nat) /\ n = IF m <= HistoryMax THEN m ELSE HistoryMax
        /\ \A i \in 1..n : s[i] = m - n + i
    BY LastOfShape
  <1>2. Range(s) = {s[i] : i \in 1..n}
    BY <1>1 DEF Range
  <1> HIDE DEF s, n
  <1>3. \A k \in 1..m : k > u => k \in Range(s)
    <2> SUFFICES ASSUME NEW k \in 1..m, k > u PROVE k \in Range(s)
      OBVIOUS
    <2>1. n \in Nat /\ k - (m - n) \in 1..n
      BY <1>1
    <2>2. s[k - (m - n)] = k
      BY <1>1, <2>1
    <2> QED
      BY <1>2, <2>1, <2>2
  <1>4. Range(s) \subseteq 1..m
    BY <1>1, <1>2
  <1> QED
    BY <1>3, <1>4 DEF s

\* The messages of the recent history are the last HistoryMax.
LEMMA LastOfRange ==
  ASSUME HistoryMax \in Nat \ {0}, NEW m \in Nat
  PROVE  Range(LastOf(m)) = {k \in 1..m : k > m - HistoryMax}
  <1> DEFINE s == LastOf(m)
             n == Len(s)
  <1>1. /\ s \in Seq(Nat) /\ n = IF m <= HistoryMax THEN m ELSE HistoryMax
        /\ \A i \in 1..n : s[i] = m - n + i
    BY LastOfShape
  <1>2. Range(s) = {s[i] : i \in 1..n}
    BY <1>1 DEF Range
  <1> HIDE DEF s, n
  <1>3. ASSUME NEW k \in 1..m, k > m - HistoryMax PROVE k \in Range(s)
    <2>1. n \in Nat /\ k - (m - n) \in 1..n
      BY <1>1, <1>3
    <2>2. s[k - (m - n)] = k
      BY <1>1, <2>1
    <2> QED
      BY <1>2, <2>1, <2>2
  <1>4. ASSUME NEW i \in 1..n PROVE s[i] \in 1..m /\ s[i] > m - HistoryMax
    BY <1>1
  <1> QED
    BY <1>2, <1>3, <1>4 DEF s

\* A step of the only turn that is not idle keeps the invariant if it leaves that turn where
\* Stage has it, or at rest.
LEMMA OnlyTurnMoves ==
  ASSUME NEW t \in Turns, NEW y \in TurnState, turn \in [Turns -> TurnState],
         turn' = [turn EXCEPT ![t] = y], Rounds',
         Calm' => /\ slipped' = {} /\ \A q \in Turns \ {t} : turn[q].pc = "idle"
                  /\ Stage(y)'
                  /\ y.pc = "idle" => Rested'
  PROVE  CompleteInv'
  <1>1. \A q \in Turns : turn'[q] = IF q = t THEN y ELSE turn[q]
    OBVIOUS
  <1>2. SUFFICES ASSUME Calm'
                 PROVE  /\ slipped' = {}
                        /\ \A p, q \in Turns : Busy(p)' /\ Busy(q)' => p = q
                        /\ (\A q \in Turns : ~Busy(q)') => Rested'
                        /\ \A q \in Turns : Stage(turn[q])'
    BY DEF CompleteInv
  <1>3. \A q \in Turns \ {t} : turn'[q].pc = "idle"
    BY <1>1, <1>2
  <1>4. \A q \in Turns : Busy(q)' => q = t
    BY <1>3 DEF Busy
  <1>5. (\A q \in Turns : ~Busy(q)') => Rested'
    BY <1>1, <1>2 DEF Busy
  <1>6. ASSUME NEW q \in Turns \ {t} PROVE Stage(turn[q])'
    BY <1>3 DEF Stage
  <1>7. Stage(turn[t])'
    BY <1>1, <1>2 DEF Stage
  <1> QED
    BY <1>2, <1>4, <1>5, <1>6, <1>7

\* While all is calm the turns other than a busy one are idle.
LEMMA OthersIdle ==
  ASSUME CompleteInv, NEW t \in Turns, turn[t].pc # "idle", Calm
  PROVE  /\ slipped = {} /\ \A q \in Turns \ {t} : turn[q].pc = "idle"
         /\ Stage(turn[t])
  BY DEF CompleteInv, Busy

\* The conversation starts calm, at rest and without messages.
LEMMA CompleteInit == ConversationConstants /\ ConvInit => CompleteInv
  <1> SUFFICES ASSUME ConversationConstants, ConvInit PROVE CompleteInv
    OBVIOUS
  <1>1. \A t \in Turns : turn[t].pc = "idle"
    BY DEF ConvInit, NoTurn
  <1>2. Rounds /\ messages - upto <= HistoryMax /\ history = <<>> /\ slipped = {}
    BY DEF ConvInit, ConversationConstants, Rounds
  <1> QED
    BY <1>1, <1>2 DEF CompleteInv, Busy, Rested, Short, Stage

\* A turn begins, and loads the history from Redis or from the database.
LEMMA LoadCompletes ==
  ASSUME ConversationConstants, ConvInv, CompleteInv, NEW t \in Turns,
         \/ \E way \in {"rag", "agent"} : Begin(t, way)
         \/ LoadCached(t) \/ LoadRows(t) \/ Refill(t)
  PROVE  CompleteInv'
  <1> DEFINE x == turn[t]
  <1>f. /\ messages \in Nat /\ history \in Seq(Nat) /\ upto \in Nat /\ upto <= messages
        /\ covered \in SUBSET Nat /\ (slipped = {} => covered = 1..upto)
        /\ order \in Seq(Nat) /\ Len(order) = messages /\ Timeline(order, slipped)
        /\ turn \in [Turns -> TurnState] /\ x \in TurnState
        /\ NoTurn \in TurnState /\ Rounds
    BY ConvFacts DEF CompleteInv
  <1>h. HistoryMax \in Nat \ {0}
    BY DEF ConversationConstants
  <1>l. /\ Recent(LastOf(messages)) = LastOf(messages)
        /\ (LastOf(messages) = <<>>) = (messages = 0)
        /\ Short /\ slipped = {} => covered \cup Range(LastOf(messages)) = 1..messages
    BY <1>f, <1>h, LastOfIsRecent, SummaryAndRecent DEF Short
  <1>o. slipped = {} => Recent(order) = LastOf(messages)
    <2> SUFFICES ASSUME slipped = {} PROVE Recent(order) = LastOf(messages)
      OBVIOUS
    <2> DEFINE all == [i \in 1..messages |-> i]
    <2>1. all \in Seq(Nat) /\ Len(all) = messages /\ \A i \in 1..messages : all[i] = i
      BY <1>f
    <2> HIDE DEF all
    <2>2. order = all
      BY <1>f, <2>1, SameSequence DEF Timeline
    <2> QED
      BY <2>2 DEF LastOf, all
  <1>r. Rounds'
    <2>1. messages' = messages /\ (conversation' = conversation \/ conversation' = "open")
      BY DEF Begin, LoadCached, LoadRows, Refill
    <2> QED
      BY <1>f, <2>1 DEF Rounds
  <1>1. ASSUME NEW way \in {"rag", "agent"}, Begin(t, way) PROVE CompleteInv'
    <2> DEFINE joins == conversation = "open"
               given == IF way = "rag" THEN covered ELSE {}
               w == [NoTurn EXCEPT !.pc = "history", !.mode = way, !.seen = given, !.slot = joins]
    <2>1. /\ turn' = [turn EXCEPT ![t] = w] /\ conversation \in {"none", "open"}
          /\ UNCHANGED <<messages, order, slipped, history, upto, covered, faults, skipped>>
          /\ overlapped' = (overlapped \/ \E q \in Turns : Busy(q))
      BY <1>1 DEF Begin
    <2>2. joins \in BOOLEAN /\ given \in SUBSET Nat
      BY <1>f
    <2> HIDE DEF joins, given
    <2>3. w \in TurnState /\ w.pc = "history" /\ w.mode = way /\ w.seen = given
      BY <1>f, <2>2 DEF TurnState
    <2>4. PICK y \in TurnState :
             turn' = [turn EXCEPT ![t] = y] /\ y.pc = "history"
             /\ y.seen = IF y.mode = "rag" THEN covered ELSE {}
      BY <2>1, <2>3 DEF given
    <2>5. ASSUME Calm' PROVE Calm /\ slipped' = {} /\ \A q \in Turns : turn[q].pc = "idle"
      BY <2>1, <2>5 DEF Calm, Busy, CompleteInv
    <2>6. ASSUME Calm' PROVE Stage(y)'
      <3>1. Rested /\ Short
        BY <2>1, <2>5, <2>6 DEF CompleteInv, Busy, Rested
      <3> QED
        BY <2>1, <2>4, <3>1 DEF Stage, Short, Rested
    <2> QED
      BY <1>f, <1>r, <2>1, <2>3, <2>4, <2>5, <2>6, OnlyTurnMoves
  <1>2. CASE LoadCached(t)
    <2> DEFINE more == x.seen \cup Range(Recent(history))
               cached == [x EXCEPT !.pc = "answer", !.seen = more]
               z == [x EXCEPT !.pc = "rows"]
    <2>1. /\ x.pc = "history"
          /\ UNCHANGED <<messages, order, slipped, history, upto, covered, overlapped, skipped>>
          /\ \/ turn' = [turn EXCEPT ![t] = IF history # <<>> THEN cached ELSE z] /\ UNCHANGED faults
             \/ Fault /\ turn' = [turn EXCEPT ![t] = z]
      BY <1>2, <1>f DEF LoadCached
    <2>2. Recent(history) \in Seq(Nat)
      BY ConvFacts, RecentIsPart
    <2>3. more \in SUBSET Nat
      BY <1>f, <1>r, <2>2 DEF Range, TurnState
    <2>4. z \in TurnState /\ z.pc = "rows" /\ z.seen = x.seen /\ z.mode = x.mode
      BY <1>f DEF TurnState
    <2> HIDE DEF more
    <2>5. cached \in TurnState /\ cached.pc = "answer" /\ cached.seen = more /\ cached.mode = x.mode
      BY <1>f, <1>r, <2>3 DEF TurnState
    <2> HIDE DEF cached, z
    <2>6. CASE /\ turn' = [turn EXCEPT ![t] = IF history # <<>> THEN cached ELSE z]
               /\ UNCHANGED faults
      <3>1. PICK y \in TurnState :
               /\ turn' = [turn EXCEPT ![t] = y] /\ y.pc # "idle" /\ y.mode = x.mode
               /\ history = <<>> => y.pc = "rows" /\ y.seen = x.seen
               /\ history # <<>> => y.pc = "answer" /\ y.seen = more
        BY <2>4, <2>5, <2>6
      <3>2. ASSUME Calm' PROVE slipped' = {} /\ (\A q \in Turns \ {t} : turn[q].pc = "idle") /\ Stage(y)'
        <4>1. /\ slipped = {} /\ \A q \in Turns \ {t} : turn[q].pc = "idle"
              /\ Stage(x)
          BY <2>1, <2>6, <3>2, OthersIdle DEF Calm
        <4>2. /\ Short /\ (history = <<>> \/ history = LastOf(messages))
              /\ x.seen = IF x.mode = "rag" THEN covered ELSE {}
          BY <2>1, <4>1 DEF Stage
        <4>3. CASE history = <<>>
          <5>1. y.pc = "rows" /\ y.seen = IF y.mode = "rag" THEN covered ELSE {}
            BY <3>1, <4>2, <4>3
          <5>2. Short'
            BY <2>1, <4>2 DEF Short
          <5> QED
            BY <2>1, <4>1, <4>3, <5>1, <5>2 DEF Stage
        <4>4. CASE history # <<>>
          <5>1. y.pc = "answer" /\ y.seen = more
            BY <3>1, <4>4
          <5>2. history = LastOf(messages)
            BY <4>2, <4>4
          <5>3. y.seen = Known(y, messages)
            BY <1>l, <3>1, <4>1, <4>2, <5>1, <5>2 DEF more, Known
          <5>4. Short'
            BY <2>1, <4>2 DEF Short
          <5> QED
            BY <2>1, <4>1, <5>1, <5>2, <5>3, <5>4 DEF Stage, Known, LastOf
        <4> QED
          BY <4>3, <4>4
      <3> QED
        BY <1>f, <1>r, <2>1, <3>1, <3>2, OnlyTurnMoves
    <2>7. CASE Fault /\ turn' = [turn EXCEPT ![t] = z]
      <3>1. faults' = faults + 1 /\ faults \in Nat
        BY <2>7, ConvFacts DEF Fault, ConversationConstants
      <3>2. ~Calm'
        BY <3>1 DEF Calm
      <3> QED
        BY <1>f, <1>r, <2>1, <2>4, <2>7, <3>2, OnlyTurnMoves
    <2> QED
      BY <2>1, <2>6, <2>7
  <1>3. CASE LoadRows(t)
    <2> DEFINE rows == Recent(order)
               w == [x EXCEPT !.seen = x.seen \cup Range(rows), !.rows = rows,
                              !.pc = IF rows = <<>> THEN "answer" ELSE "refill"]
    <2>1. /\ x.pc = "rows" /\ turn' = [turn EXCEPT ![t] = w]
          /\ UNCHANGED <<conversation, messages, order, slipped, history, upto, covered, faults, overlapped, skipped>>
      BY <1>3, <1>f DEF LoadRows
    <2>2. rows \in Seq(Nat)
      <3>1. \A i \in 1..Len(order) : order[i] <= messages
        BY <1>f DEF Timeline
      <3> QED
        BY <1>f, <3>1, RecentIsPart
    <2> HIDE DEF rows
    <2>3. x.seen \cup Range(rows) \in SUBSET Nat
      BY <1>f, <1>r, <2>2 DEF Range, TurnState
    <2>w. /\ w \in TurnState /\ w.pc = IF rows = <<>> THEN "answer" ELSE "refill"
          /\ w.rows = rows /\ w.seen = x.seen \cup Range(rows) /\ w.mode = x.mode
      BY <1>f, <2>2, <2>3 DEF TurnState
    <2> HIDE DEF w
    <2>4. PICK y \in TurnState :
             /\ turn' = [turn EXCEPT ![t] = y] /\ y.pc = IF rows = <<>> THEN "answer" ELSE "refill"
             /\ y.rows = rows /\ y.seen = x.seen \cup Range(rows) /\ y.mode = x.mode
      BY <2>1, <2>w
    <2>5. ASSUME Calm' PROVE slipped' = {} /\ (\A q \in Turns \ {t} : turn[q].pc = "idle") /\ Stage(y)'
      <3>1. /\ slipped = {} /\ \A q \in Turns \ {t} : turn[q].pc = "idle"
            /\ Stage(x)
        BY <2>1, <2>5, OthersIdle DEF Calm
      <3>2. Short /\ history = <<>> /\ x.seen = IF x.mode = "rag" THEN covered ELSE {}
        BY <2>1, <3>1 DEF Stage
      <3>0. rows = LastOf(messages)
        BY <1>o, <3>1 DEF rows
      <3>3. y.seen = Known(y, messages)
        BY <1>l, <2>4, <3>0, <3>1, <3>2 DEF Known
      <3>4. Short' /\ y.rows = LastOf(messages)' /\ (y.pc = "answer" => history' = LastOf(messages)')
        BY <2>1, <2>4, <3>0, <3>2 DEF Short, LastOf
      <3>5. y.pc \in {"answer", "refill"}
        BY <2>4
      <3> QED
        BY <2>1, <3>1, <3>2, <3>3, <3>4, <3>5 DEF Stage, Known, LastOf
    <2> QED
      BY <1>f, <1>r, <2>1, <2>4, <2>5, OnlyTurnMoves
  <1>4. CASE Refill(t)
    <2> DEFINE w == [x EXCEPT !.pc = "answer", !.rows = <<>>]
    <2>1. /\ x.pc = "refill" /\ turn' = [turn EXCEPT ![t] = w]
          /\ \/ history' = x.rows /\ UNCHANGED faults
             \/ Fault
          /\ UNCHANGED <<conversation, messages, order, slipped, upto, covered, overlapped, skipped>>
      BY <1>4, <1>f DEF Refill
    <2>w. w \in TurnState /\ w.pc = "answer" /\ w.seen = x.seen /\ w.mode = x.mode
      <3>1. <<>> \in Seq(Nat)
        OBVIOUS
      <3> QED
        BY <1>f, <3>1 DEF TurnState
    <2> HIDE DEF w
    <2>2. PICK y \in TurnState :
             turn' = [turn EXCEPT ![t] = y] /\ y.pc = "answer" /\ y.seen = x.seen /\ y.mode = x.mode
      BY <2>1, <2>w
    <2>3. ASSUME Calm' PROVE slipped' = {} /\ (\A q \in Turns \ {t} : turn[q].pc = "idle") /\ Stage(y)'
      <3>1. history' = x.rows /\ UNCHANGED faults
        <4>1. faults \in Nat
          BY ConvFacts DEF ConversationConstants
        <4> QED
          BY <2>1, <2>3, <4>1 DEF Calm, Fault
      <3>2. /\ slipped = {} /\ \A q \in Turns \ {t} : turn[q].pc = "idle"
            /\ Stage(x)
        BY <2>1, <2>3, <3>1, OthersIdle DEF Calm
      <3>3. Short /\ x.seen = Known(x, messages) /\ x.rows = LastOf(messages)
        BY <2>1, <3>2 DEF Stage
      <3>4. Short' /\ history' = LastOf(messages)'
        BY <2>1, <3>1, <3>3 DEF Short, LastOf
      <3> QED
        BY <2>1, <2>2, <3>2, <3>3, <3>4 DEF Stage, Known, LastOf
    <2> QED
      BY <1>f, <1>r, <2>1, <2>2, <2>3, OnlyTurnMoves
  <1> QED
    BY <1>1, <1>2, <1>3, <1>4

\* A round is flushed into an open conversation, which then stays until the commit.
FlushedIsOpen == \A t \in Turns : turn[t].pc = "flushed" => conversation = "open"
LEMMA FlushedInvariant == ConvSpec => []FlushedIsOpen
  <1>1. ConvInit => FlushedIsOpen
    BY DEF ConvInit, NoTurn, FlushedIsOpen
  <1>2. ConvInv /\ FlushedIsOpen /\ [ConvNext]_convVars => FlushedIsOpen'
    <2> SUFFICES ASSUME ConvInv, FlushedIsOpen, [ConvNext]_convVars PROVE FlushedIsOpen'
      OBVIOUS
    <2>0. turn \in [Turns -> TurnState]
      BY ConvFacts, ConversationConstants
    <2>1. CASE UNCHANGED convVars
      BY <2>1 DEF convVars, FlushedIsOpen
    <2>2. ASSUME NEW t \in Turns, NEW way \in {"rag", "agent"}, Begin(t, way) PROVE FlushedIsOpen'
      <3>1. conversation' = "open"
        BY <2>2 DEF Begin
      <3> QED
        BY <3>1 DEF FlushedIsOpen
    <2>3. ASSUME NEW t \in Turns, Flush(t) PROVE FlushedIsOpen'
      <3>1. conversation' = "open"
        BY <2>3 DEF Flush
      <3> QED
        BY <3>1 DEF FlushedIsOpen
    <2>4. ASSUME NEW t \in Turns,
                 \/ LoadCached(t) \/ LoadRows(t) \/ Refill(t) \/ Persist(t)
                 \/ AppendQuestion(t) \/ AppendAnswer(t) \/ Summarize(t) \/ StoreSummary(t)
                 \/ EndTurn(t) \/ SlotLost(t)
          PROVE  FlushedIsOpen'
      <3>1. conversation' = conversation /\ \A q \in Turns \ {t} : turn'[q] = turn[q]
        BY <2>0, <2>4 DEF LoadCached, LoadRows, Refill, Persist, AppendQuestion, AppendAnswer,
             AppendHistory, Summarize, SummarizeFrom, StoreSummary, StoreBoundary, EndTurn, SlotLost
      <3>2. turn'[t].pc = "flushed" => turn[t].pc = "flushed"
        <4>1. CASE LoadCached(t) \/ LoadRows(t) \/ Refill(t) \/ Persist(t)
          BY <2>0, <4>1 DEF LoadCached, LoadRows, Refill, Persist, TurnState
        <4>2. CASE AppendQuestion(t) \/ AppendAnswer(t)
          BY <2>0, <4>2 DEF AppendQuestion, AppendAnswer, AppendHistory, TurnState
        <4>3. CASE Summarize(t) \/ StoreSummary(t)
          BY <2>0, <4>3 DEF Summarize, SummarizeFrom, StoreSummary, StoreBoundary, TurnState, NoTurn
        <4>4. CASE EndTurn(t) \/ SlotLost(t)
          BY <2>0, <4>4 DEF EndTurn, SlotLost, TurnState, NoTurn
        <4> QED
          BY <2>4, <4>1, <4>2, <4>3, <4>4
      <3> QED
        BY <3>1, <3>2 DEF FlushedIsOpen
    <2>5. CASE Expire
      BY <2>5 DEF Expire, FlushedIsOpen
    <2>6. CASE DeleteConversation
      BY <2>6 DEF DeleteConversation, FlushedIsOpen
    <2> QED
      BY <2>1, <2>2, <2>3, <2>4, <2>5, <2>6 DEF ConvNext
  <1> QED
    BY <1>1, <1>2, ConvInvariant, PTL DEF ConvSpec

\* The answer is persisted, and its two messages are appended to the history.
LEMMA RoundCompletes ==
  ASSUME ConversationConstants, ConvInv, CompleteInv, NEW t \in Turns,
         FlushedIsOpen, Flush(t) \/ Persist(t) \/ AppendQuestion(t) \/ AppendAnswer(t)
  PROVE  CompleteInv'
  <1> DEFINE x == turn[t]
  <1>f. /\ messages \in Nat /\ history \in Seq(Nat) /\ faults \in Nat
        /\ turn \in [Turns -> TurnState] /\ x \in TurnState /\ Rounds
    <2>1. faults \in Nat
      BY ConvFacts DEF ConversationConstants
    <2> QED
      BY <2>1, ConvFacts DEF CompleteInv
  <1>h. HistoryMax \in Nat \ {0}
    BY DEF ConversationConstants
  <1>3. CASE Flush(t)
    <2> DEFINE w == [x EXCEPT !.pc = "flushed", !.mode = "rag", !.seen = {}, !.place = messages]
    <2>1. /\ x.pc = "answer" /\ turn' = [turn EXCEPT ![t] = w]
          /\ UNCHANGED <<conversation, messages, order, slipped, history, upto, covered, faults,
                         overlapped, skipped>>
      BY <1>3, <1>f DEF Flush
    <2>w. w \in TurnState /\ w.pc = "flushed" /\ w.place = messages
      BY <1>f DEF TurnState
    <2> HIDE DEF w
    <2>2. PICK y \in TurnState :
             turn' = [turn EXCEPT ![t] = y] /\ y.pc = "flushed" /\ y.place = messages
      BY <2>1, <2>w
    <2>3. Rounds'
      BY <1>f, <2>1 DEF Rounds
    <2>4. ASSUME Calm' PROVE slipped' = {} /\ (\A q \in Turns \ {t} : turn[q].pc = "idle") /\ Stage(y)'
      <3>1. /\ slipped = {} /\ \A q \in Turns \ {t} : turn[q].pc = "idle"
            /\ Stage(x)
        BY <2>1, <2>4, OthersIdle DEF Calm
      <3>2. Short' /\ history' = LastOf(messages)'
        BY <2>1, <3>1 DEF Stage, Short, LastOf
      <3> QED
        BY <2>1, <2>2, <3>1, <3>2 DEF Stage
    <2> QED
      BY <1>f, <2>1, <2>2, <2>3, <2>4, OnlyTurnMoves
  <1>1. CASE Persist(t)
    <2> DEFINE w == [x EXCEPT !.pc = "question", !.place = 0, !.first = messages + 1]
    <2>1. /\ x.pc = "flushed" /\ turn' = [turn EXCEPT ![t] = w]
          /\ messages' = messages + 2
          /\ UNCHANGED <<conversation, history, upto, covered, faults, overlapped, skipped>>
      BY <1>1, <1>f DEF Persist
    <2>o. conversation = "open"
      BY <2>1 DEF FlushedIsOpen
    <2>s. ASSUME x.place = messages PROVE slipped' = slipped
      <3>1. PICK p \in x.place..messages :
               slipped' = IF p < messages THEN slipped \cup {messages + 1, messages + 2} ELSE slipped
        BY <1>1 DEF Persist
      <3>2. p = messages
        BY <1>f, <2>s, <3>1
      <3> QED
        BY <1>f, <3>1, <3>2
    <2>w. w \in TurnState /\ w.pc = "question" /\ w.first = messages + 1
      <3>1. messages + 1 \in Nat
        BY <1>f
      <3> QED
        BY <1>f, <3>1 DEF TurnState
    <2> HIDE DEF w
    <2>2. PICK y \in TurnState :
             turn' = [turn EXCEPT ![t] = y] /\ y.pc = "question" /\ y.first = messages + 1
      BY <2>1, <2>w
    <2>3. Rounds'
      BY <1>f, <2>1, <2>o DEF Rounds
    <2>4. ASSUME Calm' PROVE slipped' = {} /\ (\A q \in Turns \ {t} : turn[q].pc = "idle") /\ Stage(y)'
      <3>1. /\ slipped = {} /\ \A q \in Turns \ {t} : turn[q].pc = "idle"
            /\ Stage(x)
        BY <2>1, <2>4, OthersIdle DEF Calm
      <3>0. slipped' = {}
        BY <2>1, <2>s, <3>1 DEF Stage
      <3>2. messages' - 2 = messages /\ messages' >= 2 /\ messages' - 1 = messages + 1
        BY <1>f, <2>1
      <3>3. history' = LastOf(messages' - 2)
        BY <2>1, <3>1, <3>2 DEF Stage
      <3>4. LastOf(messages - 2)' = LastOf(messages' - 2)
        BY DEF LastOf, Recent
      <3> QED
        BY <2>1, <2>2, <3>0, <3>1, <3>2, <3>3, <3>4 DEF Stage
    <2> QED
      BY <1>f, <2>1, <2>2, <2>3, <2>4, OnlyTurnMoves
  <1>2. CASE AppendQuestion(t) \/ AppendAnswer(t)
    <2> DEFINE m == IF x.pc = "question" THEN x.first ELSE x.first + 1
               next == IF x.pc = "question" THEN "reply" ELSE "summarize"
               w == [x EXCEPT !.pc = next, !.first = IF next = "summarize" THEN 0 ELSE x.first]
    <2>1. /\ x.pc \in {"question", "reply"} /\ turn' = [turn EXCEPT ![t] = w]
          /\ \/ history' = Recent(Append(history, m)) /\ UNCHANGED faults
             \/ Fault /\ UNCHANGED history
          /\ UNCHANGED <<conversation, messages, order, slipped, upto, covered, overlapped, skipped>>
      BY <1>2, <1>f DEF AppendQuestion, AppendAnswer, AppendHistory
    <2>w. w \in TurnState /\ w.pc = next /\ (next = "reply" => w.first = x.first)
      BY <1>f DEF TurnState
    <2> HIDE DEF w
    <2>2. PICK y \in TurnState :
             turn' = [turn EXCEPT ![t] = y] /\ y.pc = next /\ (next = "reply" => y.first = x.first)
      BY <2>1, <2>w
    <2>3. Rounds'
      BY <1>f, <2>1 DEF Rounds
    <2>4. ASSUME Calm' PROVE slipped' = {} /\ (\A q \in Turns \ {t} : turn[q].pc = "idle") /\ Stage(y)'
      <3>1. history' = Recent(Append(history, m)) /\ UNCHANGED faults
        BY <1>f, <2>1, <2>4 DEF Calm, Fault
      <3>2. /\ slipped = {} /\ \A q \in Turns \ {t} : turn[q].pc = "idle"
            /\ Stage(x)
        BY <2>1, <2>4, <3>1, OthersIdle DEF Calm
      <3>3. x.first = messages - 1 /\ messages >= 2
        BY <2>1, <3>2 DEF Stage
      <3>4. LastOf(messages)' = LastOf(messages) /\ LastOf(messages - 1)' = LastOf(messages - 1)
        BY <2>1 DEF LastOf, Recent
      <3>5. CASE x.pc = "question"
        <4>1. history = LastOf(messages - 2) /\ messages - 2 \in Nat
          BY <1>f, <3>2, <3>3, <3>5 DEF Stage
        <4>2. m = messages - 2 + 1 /\ messages - 2 + 1 = messages - 1
          BY <1>f, <3>3, <3>5
        <4>3. history' = LastOf(messages - 1)
          BY <1>h, <3>1, <4>1, <4>2, LastOfGrows
        <4>4. y.pc = "reply" /\ y.first = messages - 1
          BY <2>2, <3>3, <3>5
        <4> QED
          BY <2>1, <3>2, <3>3, <3>4, <4>3, <4>4 DEF Stage
      <3>6. CASE x.pc = "reply"
        <4>1. history = LastOf(messages - 1) /\ messages - 1 \in Nat
          BY <1>f, <3>2, <3>3, <3>6 DEF Stage
        <4>2. m = messages - 1 + 1 /\ messages - 1 + 1 = messages
          BY <1>f, <3>3, <3>6
        <4>3. history' = LastOf(messages)
          BY <1>h, <3>1, <4>1, <4>2, LastOfGrows
        <4>4. y.pc = "summarize"
          BY <2>2, <3>6
        <4> QED
          BY <2>1, <3>2, <3>4, <4>3, <4>4 DEF Stage
      <3> QED
        BY <2>1, <3>5, <3>6
    <2>5. y.pc # "idle"
      BY <2>1, <2>2
    <2> QED
      BY <1>f, <2>1, <2>2, <2>3, <2>4, <2>5, OnlyTurnMoves
  <1> QED
    BY <1>1, <1>2, <1>3

\* The turn asks for a summary and stores it, or finds none is due.
LEMMA SummaryCompletes ==
  ASSUME ConversationConstants, SettingsFit, ConvInv, CompleteInv, NEW t \in Turns,
         Summarize(t) \/ StoreSummary(t)
  PROVE  CompleteInv'
  <1> DEFINE x == turn[t]
             boundary == messages - SummaryKeep
  <1>f. /\ messages \in Nat /\ upto \in Nat /\ upto <= messages /\ x \in TurnState
        /\ turn \in [Turns -> TurnState] /\ Rounds /\ covered \in SUBSET Nat
        /\ order \in Seq(Nat) /\ Len(order) = messages
        /\ conversation \in {"none", "open", "deleted"}
        /\ NoTurn \in TurnState /\ NoTurn.pc = "idle"
    BY ConvFacts DEF CompleteInv
  <1>c. /\ HistoryMax \in Nat \ {0} /\ SummaryKeep \in Nat /\ SummaryTrigger \in Nat
        /\ SummaryKeep <= HistoryMax /\ HistoryMax % 2 = 0 /\ SummaryTrigger <= HistoryMax + 2
    BY DEF ConversationConstants, SettingsFit
  <1>0. /\ x.pc \in {"summarize", "compress"} /\ messages' = messages
        /\ UNCHANGED <<conversation, messages, order, slipped, history, faults, overlapped, skipped>>
    BY DEF Summarize, SummarizeFrom, StoreSummary, StoreBoundary
  <1>r. Rounds'
    BY <1>f, <1>0 DEF Rounds
  <1>1. ASSUME Calm' PROVE /\ slipped' = {} /\ \A q \in Turns \ {t} : turn[q].pc = "idle"
                           /\ Stage(x) /\ history' = LastOf(messages)
                           /\ LastOf(messages)' = LastOf(messages)
    <2>1. /\ slipped = {} /\ \A q \in Turns \ {t} : turn[q].pc = "idle"
          /\ Stage(x)
      BY <1>0, <1>1, OthersIdle DEF Calm
    <2> QED
      BY <1>0, <2>1 DEF Stage, LastOf
  <1>n. messages = 0 => Short
    BY <1>f, <1>c DEF Short
  <1>2. ASSUME turn' = [turn EXCEPT ![t] = NoTurn], Calm' => (conversation' = "open" => Short')
        PROVE  CompleteInv'
    <2>1. ASSUME Calm' PROVE Rested'
      <3>1. conversation' = "open" => Short'
        BY <1>2, <2>1
      <3>2. conversation' = "none" => Short'
        <4>1. conversation = "none" => upto' = upto
          BY DEF Summarize, SummarizeFrom, StoreSummary, StoreBoundary
        <4> QED
          BY <1>0, <1>f, <1>n, <4>1 DEF Rounds, Short
      <3> QED
        BY <1>0, <1>1, <1>f, <2>1, <3>1, <3>2 DEF Rested
    <2>2. PICK y \in TurnState : turn' = [turn EXCEPT ![t] = y] /\ y.pc = "idle"
      BY <1>2, <1>f
    <2>3. Stage(y)'
      BY <2>2 DEF Stage
    <2> QED
      BY <1>f, <1>r, <1>1, <2>1, <2>2, <2>3, OnlyTurnMoves
  <1>3. CASE Summarize(t)
    <2> DEFINE w == [x EXCEPT !.pc = "compress", !.boundary = boundary,
                              !.seen = covered \cup Range(SubSeq(order, upto + 1, boundary))]
    <2>0. x.pc = "summarize" /\ upto' = upto
      BY <1>3 DEF Summarize, SummarizeFrom
    <2>1. CASE /\ conversation # "open" \/ messages < SummaryTrigger \/ boundary <= upto
               /\ turn' = [turn EXCEPT ![t] = NoTurn]
      <3>1. conversation' = "open" => Short'
        <4>1. CASE messages < SummaryTrigger
          <5>1. messages <= HistoryMax
            <6>1. messages % 2 = 0
              BY <1>f DEF Rounds
            <6> QED
              BY <1>c, <1>f, <4>1, <6>1
          <5> QED
            BY <1>0, <1>c, <1>f, <2>0, <5>1 DEF Short
        <4>2. CASE boundary <= upto
          BY <1>0, <1>c, <1>f, <2>0, <4>2 DEF Short
        <4> QED
          BY <1>0, <2>1, <4>1, <4>2
      <3> QED
        BY <1>2, <2>1, <3>1
    <2>2. CASE ~(boundary <= upto) /\ turn' = [turn EXCEPT ![t] = w]
      <3>1. boundary \in Nat
        BY <1>c, <1>f, <2>2
      <3>2. covered \cup Range(SubSeq(order, upto + 1, boundary)) \in SUBSET Nat
        <4> DEFINE part == SubSeq(order, upto + 1, boundary)
        <4>1. boundary <= messages
          BY <1>c, <1>f
        <4>2. part \in Seq(Nat)
          BY <1>f, <3>1, <4>1, SubSeqProperties
        <4> HIDE DEF part
        <4>3. Range(part) \in SUBSET Nat
          BY <4>2 DEF Range
        <4> QED
          BY <1>f, <4>3 DEF part
      <3>3. w \in TurnState /\ w.pc = "compress" /\ w.boundary = boundary
        BY <1>f, <3>1, <3>2 DEF TurnState
      <3> HIDE DEF w
      <3>4. PICK y \in TurnState :
               turn' = [turn EXCEPT ![t] = y] /\ y.pc = "compress" /\ y.boundary = boundary
        BY <2>2, <3>3
      <3>5. ASSUME Calm' PROVE Stage(y)'
        BY <1>0, <1>1, <3>4, <3>5 DEF Stage
      <3> QED
        BY <1>f, <1>r, <1>1, <3>4, <3>5, OnlyTurnMoves
    <2> QED
      BY <1>3, <1>f, <2>1, <2>2 DEF Summarize, SummarizeFrom
  <1>4. CASE StoreSummary(t)
    <2>1. /\ x.pc = "compress" /\ turn' = [turn EXCEPT ![t] = NoTurn]
          /\ conversation = "open" => upto' = x.boundary
      BY <1>4 DEF StoreSummary, StoreBoundary
    <2>2. ASSUME Calm', conversation' = "open" PROVE Short'
      <3>1. upto' = messages - SummaryKeep
        BY <1>0, <1>1, <2>1, <2>2 DEF Stage
      <3> QED
        BY <1>0, <1>c, <1>f, <3>1 DEF Short
    <2> QED
      BY <1>2, <2>1, <2>2
  <1> QED
    BY <1>3, <1>4

\* A turn that ends early ends before it has stored its round, or leaves its summary out;
\* slot, history and conversation go away as a fault or while all is at rest.
LEMMA EndCompletes ==
  ASSUME ConversationConstants, ConvInv, CompleteInv,
         \/ \E t \in Turns : EndTurn(t) \/ SlotLost(t)
         \/ Expire \/ DeleteConversation
  PROVE  CompleteInv'
  <1>f. /\ messages \in Nat /\ upto \in Nat /\ upto <= messages /\ faults \in Nat
        /\ turn \in [Turns -> TurnState] /\ Rounds
        /\ conversation \in {"none", "open", "deleted"}
        /\ NoTurn \in TurnState /\ NoTurn.pc = "idle"
    <2>1. faults \in Nat
      BY ConvFacts DEF ConversationConstants
    <2> QED
      BY <2>1, ConvFacts DEF CompleteInv
  <1>1. ASSUME NEW t \in Turns, EndTurn(t) PROVE CompleteInv'
    <2> DEFINE x == turn[t]
    <2>1. /\ x.pc # "idle" /\ turn' = [turn EXCEPT ![t] = NoTurn]
          /\ x.pc \in {"question", "reply", "summarize", "compress"} => skipped'
          /\ ~skipped' => ~skipped
          /\ UNCHANGED <<conversation, messages, order, slipped, history, upto, covered, faults, overlapped>>
      BY <1>1 DEF EndTurn, Busy
    <2>2. Rounds'
      BY <1>f, <2>1 DEF Rounds
    <2>3. PICK y \in TurnState : turn' = [turn EXCEPT ![t] = y] /\ y.pc = "idle"
      BY <1>f, <2>1
    <2>4. Stage(y)'
      BY <2>3 DEF Stage
    <2>5. ASSUME Calm' PROVE slipped' = {} /\ (\A q \in Turns \ {t} : turn[q].pc = "idle") /\ Rested'
      <3>1. /\ slipped = {} /\ \A q \in Turns \ {t} : turn[q].pc = "idle"
            /\ Stage(x)
        BY <2>1, <2>5, OthersIdle DEF Calm
      <3>2. x.pc \in {"history", "rows", "refill", "answer", "flushed"}
        <4>1. x \in TurnState
          BY <1>f
        <4> QED
          BY <2>1, <2>5, <4>1 DEF Calm, TurnState
      <3>3. Short /\ (history = <<>> \/ history = LastOf(messages))
        BY <3>1, <3>2 DEF Stage
      <3>4. Short' /\ LastOf(messages)' = LastOf(messages)
        BY <2>1, <3>3 DEF Short, LastOf
      <3> QED
        BY <2>1, <3>1, <3>3, <3>4 DEF Rested
    <2> QED
      BY <1>f, <2>2, <2>3, <2>4, <2>5, OnlyTurnMoves
  <1>2. ASSUME Fault, messages' = messages, conversation' = conversation PROVE CompleteInv'
    <2>1. ~Calm'
      BY <1>f, <1>2 DEF Calm, Fault
    <2> QED
      BY <1>2, <1>f, <2>1 DEF CompleteInv, Rounds
  <1>3. ASSUME NEW t \in Turns, SlotLost(t) PROVE CompleteInv'
    BY <1>2, <1>3 DEF SlotLost
  <1>4. CASE Expire
    <2>1. CASE \E t \in Turns : Busy(t)
      BY <1>2, <1>4, <2>1 DEF Expire
    <2>2. CASE \A t \in Turns : ~Busy(t)
      <3>1. /\ history' = <<>>
            /\ UNCHANGED <<conversation, messages, order, slipped, upto, covered, turn, faults, overlapped, skipped>>
        BY <1>4, <2>2 DEF Expire
      <3>2. \A t \in Turns : turn[t].pc = "idle"
        BY <2>2 DEF Busy
      <3> QED
        BY <1>f, <2>2, <3>1, <3>2 DEF CompleteInv, Rounds, Calm, Busy, Rested, Short, Stage
    <2> QED
      BY <2>1, <2>2
  <1>5. CASE DeleteConversation
    <2>1. /\ conversation = "open" /\ conversation' = "deleted"
          /\ UNCHANGED <<messages, order, slipped, history, upto, covered, turn, faults, overlapped, skipped>>
      BY <1>5 DEF DeleteConversation
    <2>2. LastOf(messages)' = LastOf(messages) /\ LastOf(messages - 1)' = LastOf(messages - 1)
          /\ LastOf(messages - 2)' = LastOf(messages - 2)
      BY <2>1 DEF LastOf
    <2>3. Rounds' /\ (Calm' => Calm) /\ (Rested => Rested')
      BY <1>f, <2>1, <2>2 DEF Rounds, Calm, Rested
    <2>4. ASSUME NEW t \in Turns, Stage(turn[t]) PROVE Stage(turn[t])'
      BY <2>1, <2>2, <2>4 DEF Stage, Short, Known
    <2> QED
      BY <2>1, <2>3, <2>4 DEF CompleteInv, Busy
  <1> QED
    BY <1>1, <1>3, <1>4, <1>5

\* With settings that fit, the invariant holds always.
LEMMA CompleteInvariant ==
  ASSUME SettingsFit
  PROVE  ConvSpec => []CompleteInv
  <1>1. ConvInit => CompleteInv
    BY CompleteInit, ConversationConstants
  <1>2. ConvInv /\ FlushedIsOpen /\ CompleteInv /\ [ConvNext]_convVars => CompleteInv'
    <2> SUFFICES ASSUME ConvInv, FlushedIsOpen, CompleteInv, [ConvNext]_convVars PROVE CompleteInv'
      OBVIOUS
    <2>1. CASE UNCHANGED convVars
      <3>1. UNCHANGED <<conversation, messages, order, slipped, history, upto, covered, turn, faults, overlapped, skipped>>
        BY <2>1 DEF convVars
      <3>2. /\ Rounds => Rounds'
            /\ Calm' => Calm
            /\ Rested => Rested'
        BY <3>1 DEF Rounds, Calm, Rested, Short, LastOf
      <3>3. ASSUME NEW t \in Turns, Stage(turn[t]) PROVE Stage(turn[t])'
        BY <3>1, <3>3 DEF Stage, Short, LastOf, Known
      <3> QED
        BY <3>1, <3>2, <3>3 DEF CompleteInv, Busy
    <2>2. CASE ConvNext
      BY <2>2, ConversationConstants, LoadCompletes, RoundCompletes, SummaryCompletes, EndCompletes
         DEF ConvNext
    <2> QED
      BY <2>1, <2>2
  <1> QED
    BY <1>1, <1>2, ConvInvariant, FlushedInvariant, PTL DEF ConvSpec

\* With settings that fit, as long as no fault, overlap or skipped summary has happened, a RAG
\* turn knows every message of the conversation, from the summary or the history, and an agent
\* turn exactly the latest HistoryMax.
THEOREM ContextStaysComplete ==
  ASSUME SettingsFit
  PROVE  ConvSpec => []ContextComplete
  <1>1. ConvInv /\ CompleteInv => ContextComplete
    <2> SUFFICES ASSUME ConvInv, CompleteInv, Calm, NEW t \in Turns, turn[t].pc = "answer"
                 PROVE  turn[t].seen = {m \in 1..messages : turn[t].mode = "rag" \/ m > messages - HistoryMax}
      BY DEF ContextComplete, Calm
    <2>1. turn[t].seen = Known(turn[t], messages)
      BY DEF CompleteInv, Stage
    <2>2. messages \in Nat /\ HistoryMax \in Nat \ {0}
      BY ConvFacts, ConversationConstants DEF ConversationConstants
    <2>3. Range(LastOf(messages)) = {m \in 1..messages : m > messages - HistoryMax}
      BY <2>2, LastOfRange
    <2>4. CASE turn[t].mode = "rag"
      BY <2>1, <2>4 DEF Known
    <2>5. CASE turn[t].mode # "rag"
      BY <2>1, <2>3, <2>5 DEF Known
    <2> QED
      BY <2>4, <2>5
  <1> QED
    BY <1>1, ConvInvariant, CompleteInvariant, PTL

-----------------------------------------------------------------------------
(* Providers.                                                                *)

\* Where a call stands: how often the primary has failed it tells which model is next, and
\* whether the breaker was open when the call asked.  A call that is still with the primary
\* has a failure left; one with the fallback model has used the primary up or was spared it.
\* A stream under way was opened by a model that had not failed the call.
WorksThrough(x) ==
    /\ x.pc \in {"primary", "pause"} =>
         ~x.met /\ ~x.second /\ x.attempt <= IF x.kind = "stream" THEN 0 ELSE Retries
    /\ x.pc = "fallback" => hasFallback /\ ~x.second
    /\ x.pc = "fallback" \/ (x.pc = "failed" /\ ~x.broken) =>
         x.attempt = IF x.met THEN 0 ELSE IF x.kind = "stream" THEN 1 ELSE Retries + 1
    /\ x.pc = "failed" /\ ~x.broken /\ hasFallback => x.second
    /\ x.pc = "streaming" \/ (x.pc = "failed" /\ x.broken) =>
         /\ x.kind = "stream" /\ ~x.second
         /\ hasFallback \/ (x.attempt = 0 /\ ~x.met)
    /\ x.pc # "failed" => ~x.broken

\* The inductive invariant of the providers.
ProvInv == ProvTypeOK /\ \A c \in LlmCalls : WorksThrough(llm[c])

\* A step of one call keeps the invariant if it leaves that call where WorksThrough has it.
LEMMA OneCallMoves ==
  ASSUME ProvInv, NEW c \in LlmCalls, NEW y \in LlmCall, WorksThrough(y),
         llm' = [llm EXCEPT ![c] = y], UNCHANGED hasFallback,
         failCount' \in 0..Threshold - 1, openLeft' \in 0..Cooldown,
         llmStarted' \in 0..MaxLlmCalls
  PROVE  ProvInv'
  <1>1. ProvTypeOK'
    BY DEF ProvInv, ProvTypeOK
  <1>2. ASSUME NEW d \in LlmCalls  PROVE WorksThrough(llm[d])'
    <2>1. llm'[d] = IF d = c THEN y ELSE llm[d]
      BY DEF ProvInv, ProvTypeOK
    <2>2. WorksThrough(llm'[d])
      BY <2>1 DEF ProvInv
    <2> QED
      BY <2>2 DEF WorksThrough
  <1> QED
    BY <1>1, <1>2 DEF ProvInv

\* Every call works through its models in order; the type invariant is part of the argument.
LEMMA ProvInvariant == ProvSpec => []ProvInv
  <1> USE ProviderConstants
  <1>1. ProvInit => ProvInv
    BY DEF ProvInit, ProvInv, ProvTypeOK, NoLlmCall, LlmCall, WorksThrough
  <1>2. ProvInv /\ [ProvNext]_provVars => ProvInv'
    <2> SUFFICES ASSUME ProvInv, [ProvNext]_provVars PROVE ProvInv'
      OBVIOUS
    <2>0. ASSUME NEW c \in LlmCalls
          PROVE  llm[c] \in LlmCall /\ WorksThrough(llm[c])
      BY <2>0 DEF ProvInv, ProvTypeOK
    <2>t. /\ hasFallback \in BOOLEAN /\ failCount \in 0..Threshold - 1
          /\ openLeft \in 0..Cooldown /\ llmStarted \in 0..MaxLlmCalls
      BY DEF ProvInv, ProvTypeOK
    <2>1. ASSUME NEW c \in LlmCalls, NEW kind \in {"completion", "stream"}, Ask(c, kind)
          PROVE  ProvInv'
      <3>0. llmStarted' \in 0..MaxLlmCalls /\ UNCHANGED <<hasFallback, failCount, openLeft>>
        BY <2>1, <2>t DEF Ask
      <3> DEFINE open == openLeft > 0
                 y == [NoLlmCall EXCEPT !.kind = kind, !.met = open,
                                        !.pc = IF open THEN AfterOpen ELSE "primary"]
      <3>1. llm' = [llm EXCEPT ![c] = y]
        BY <2>1 DEF Ask
      <3>2. open \in BOOLEAN
        OBVIOUS
      <3> HIDE DEF open
      <3>3. /\ y.kind = kind /\ y.met = open /\ y.attempt = 0 /\ y.second = FALSE
            /\ y.broken = FALSE
            /\ y.pc = IF open THEN AfterOpen ELSE "primary"
        BY DEF NoLlmCall
      <3>4. y \in LlmCall
        <4> DEFINE next == IF open THEN AfterOpen ELSE "primary"
        <4>1. next \in {"idle", "primary", "pause", "fallback", "streaming", "answered", "failed"}
          BY DEF AfterOpen
        <4>2. NoLlmCall \in LlmCall
          BY DEF NoLlmCall, LlmCall
        <4> HIDE DEF next
        <4>3. [NoLlmCall EXCEPT !.kind = kind, !.met = open, !.pc = next] \in LlmCall
          BY <3>2, <4>1, <4>2 DEF LlmCall
        <4> QED
          BY <4>3 DEF next
      <3> HIDE DEF y
      <3>5. WorksThrough(y)
        BY <2>t, <3>2, <3>3 DEF AfterOpen, WorksThrough
      <3> QED
        BY <2>t, <3>0, <3>1, <3>4, <3>5, OneCallMoves
    <2>2. ASSUME NEW c \in LlmCalls, PrimaryAnswers(c) \/ FallbackAnswers(c)
          PROVE  ProvInv'
      <3> DEFINE y == [llm[c] EXCEPT !.pc = Reply(llm[c].kind)]
      <3>0. llm[c] \in LlmCall /\ WorksThrough(llm[c]) /\ llm[c].pc \in {"primary", "fallback"}
        BY <2>0, <2>2 DEF PrimaryAnswers, FallbackAnswers
      <3>a. /\ y.kind = llm[c].kind /\ y.met = llm[c].met /\ y.second = llm[c].second
            /\ y.attempt = llm[c].attempt /\ y.broken = llm[c].broken
            /\ y.pc = IF llm[c].kind = "stream" THEN "streaming" ELSE "answered"
        BY <3>0 DEF LlmCall, Reply
      <3>b. llm[c].attempt \in 0..Retries + 1 /\ llm[c].kind \in {"completion", "stream"}
        BY <3>0 DEF LlmCall
      <3>c. y \in LlmCall
        BY <3>0 DEF LlmCall, Reply
      <3>d. WorksThrough(y)
        <4> HIDE DEF y
        <4> QED
          BY <2>t, <3>0, <3>a, <3>b DEF WorksThrough
      <3>1. y \in LlmCall /\ WorksThrough(y)
        BY <3>c, <3>d
      <3>2. /\ llm' = [llm EXCEPT ![c] = y]
            /\ failCount' \in 0..Threshold - 1 /\ UNCHANGED <<hasFallback, openLeft, llmStarted>>
        BY <2>2, <2>t DEF PrimaryAnswers, FallbackAnswers
      <3> QED
        BY <2>t, <3>1, <3>2, OneCallMoves
    <2>3. ASSUME NEW c \in LlmCalls, PrimaryFails(c)
          PROVE  ProvInv'
      <3> DEFINE again == llm[c].kind = "completion" /\ llm[c].attempt < Retries
                 y == [llm[c] EXCEPT !.attempt = llm[c].attempt + 1,
                         !.pc = IF again THEN "pause" ELSE IF hasFallback THEN "fallback" ELSE "failed"]
      <3>0. /\ llm[c] \in LlmCall /\ llm[c].pc = "primary" /\ ~llm[c].met /\ ~llm[c].second
            /\ ~llm[c].broken
            /\ llm[c].attempt <= IF llm[c].kind = "stream" THEN 0 ELSE Retries
        BY <2>0, <2>3 DEF PrimaryFails, WorksThrough
      <3>a. /\ y.kind = llm[c].kind /\ y.met = llm[c].met /\ y.second = llm[c].second
            /\ y.broken = llm[c].broken /\ y.attempt = llm[c].attempt + 1
            /\ y.pc = IF again THEN "pause" ELSE IF hasFallback THEN "fallback" ELSE "failed"
        BY <3>0 DEF LlmCall
      <3>b. llm[c].attempt \in 0..Retries + 1 /\ llm[c].kind \in {"completion", "stream"}
        BY <3>0 DEF LlmCall
      <3>c. llm[c].attempt + 1 \in 0..Retries + 1
        BY <3>0, <3>b
      <3>d. y \in LlmCall
        BY <3>0, <3>c DEF LlmCall
      <3>e. WorksThrough(y)
        <4> HIDE DEF y
        <4> QED
          BY <2>t, <3>0, <3>a, <3>b DEF WorksThrough
      <3>1. y \in LlmCall /\ WorksThrough(y)
        BY <3>d, <3>e
      <3>2. llm' = [llm EXCEPT ![c] = y] /\ UNCHANGED <<hasFallback, llmStarted>>
        BY <2>0, <2>3 DEF PrimaryFails, LlmCall
      <3>3. failCount' \in 0..Threshold - 1 /\ openLeft' \in 0..Cooldown
        BY <2>3, <2>t DEF PrimaryFails, Trips
      <3> QED
        BY <2>t, <3>1, <3>2, <3>3, OneCallMoves
    <2>4. ASSUME NEW c \in LlmCalls, TryAgain(c)
          PROVE  ProvInv'
      <3> DEFINE y == [llm[c] EXCEPT !.pc = "primary"]
      <3>1. y \in LlmCall /\ WorksThrough(y)
        BY <2>0, <2>4 DEF TryAgain, LlmCall, WorksThrough
      <3> QED
        BY <2>4, <2>t, <3>1, OneCallMoves DEF TryAgain
    <2>5. ASSUME NEW c \in LlmCalls, FallbackFails(c)
          PROVE  ProvInv'
      <3> DEFINE y == [llm[c] EXCEPT !.pc = "failed", !.second = TRUE]
      <3>1. y \in LlmCall /\ WorksThrough(y)
        BY <2>0, <2>5 DEF FallbackFails, LlmCall, WorksThrough
      <3>2. llm' = [llm EXCEPT ![c] = y]
        BY <2>0, <2>5 DEF FallbackFails, LlmCall
      <3> QED
        BY <2>5, <2>t, <3>1, <3>2, OneCallMoves DEF FallbackFails
    <2>6. ASSUME NEW c \in LlmCalls, StreamEnds(c)
          PROVE  ProvInv'
      <3> DEFINE y == [llm[c] EXCEPT !.pc = "answered"]
      <3>1. y \in LlmCall /\ WorksThrough(y)
        BY <2>0, <2>6 DEF StreamEnds, LlmCall, WorksThrough
      <3> QED
        BY <2>6, <2>t, <3>1, OneCallMoves DEF StreamEnds
    <2>7. ASSUME NEW c \in LlmCalls, StreamBreaks(c)
          PROVE  ProvInv'
      <3> DEFINE y == [llm[c] EXCEPT !.pc = "failed", !.broken = TRUE]
      <3>1. y \in LlmCall /\ WorksThrough(y)
        BY <2>0, <2>7 DEF StreamBreaks, LlmCall, WorksThrough
      <3>2. llm' = [llm EXCEPT ![c] = y]
        BY <2>0, <2>7 DEF StreamBreaks, LlmCall
      <3> QED
        BY <2>7, <2>t, <3>1, <3>2, OneCallMoves DEF StreamBreaks
    <2>8. CASE CoolDown
      BY <2>8 DEF CoolDown, ProvInv, ProvTypeOK, WorksThrough
    <2>9. CASE UNCHANGED provVars
      BY <2>9 DEF provVars, ProvInv, ProvTypeOK, WorksThrough
    <2> QED
      BY <2>1, <2>2, <2>3, <2>4, <2>5, <2>6, <2>7, <2>8, <2>9 DEF ProvNext
  <1> QED
    BY <1>1, <1>2, PTL DEF ProvSpec

\* Whatever the calls do to the breaker they share, no call that got no reply fails before the
\* fallback model was tried, and none without the attempts at the primary its kind allows,
\* unless the breaker was open when it asked.  A stream that breaks while it is read fails
\* the call at once, and is the stream of a model that had not failed it.
THEOREM FailoverIsComplete == ProvSpec => []FailsOnlyWhenAllFail
  <1>1. ProvInv => FailsOnlyWhenAllFail
    BY DEF ProvInv, WorksThrough, FailsOnlyWhenAllFail
  <1> QED
    BY <1>1, ProvInvariant, PTL

-----------------------------------------------------------------------------
(* Citations.                                                                *)

\* The kinds of line whose references are looked for.
RefKinds == SUBSET {"cited", "marks", "span"}
\* The references of a text, one line after the other.
LEMMA ReferenceFold ==
  ASSUME NEW K \in RefKinds, NEW s \in Seq(Kinds)
  PROVE  \E h : /\ h[0] = <<>> /\ References(K, s) = h[Len(s)]
                /\ h \in [0..Len(s) -> Seq(Kinds)]
                /\ \A k \in 1..Len(s) : h[k] = AddReference(K, h[k - 1], s[k])
  <1> DEFINE n == Len(s)
             T == Seq(Kinds)
             g == [p \in T \X (1..n) |-> AddReference(K, p[1], s[p[2]])]
             Equation(f) == f = [r \in SUBSET (1..n) |->
                              IF r = {} THEN <<>> ELSE AddReference(K, f[r \ {Max(r)}], s[Max(r)])]
  <1>0. n \in Nat /\ DOMAIN s = 1..n
    OBVIOUS
  <1>1. g \in [T \X (1..n) -> T]
    <2>1. \A a \in T, i \in 1..n : AddReference(K, a, s[i]) \in T
      BY DEF AddReference
    <2> QED
      BY <2>1
  <1>2. PICK f \in [SUBSET (1..n) -> T] : IsFold(f, g, <<>>, n)
    <2> HIDE DEF g, n, T
    <2>1. <<>> \in T
      BY DEF T
    <2> QED
      BY <1>0, <1>1, <2>1, FoldExists
  <1>3. Equation(f)
    <2>1. ASSUME NEW r \in SUBSET (1..n)
          PROVE  f[r] = IF r = {} THEN <<>> ELSE AddReference(K, f[r \ {Max(r)}], s[Max(r)])
      <3>1. CASE r = {}
        BY <1>2, <3>1 DEF IsFold
      <3>2. CASE r # {}
        <4>1. Max(r) \in r /\ Max(r) \in 1..n
          BY <1>0, <3>2, NatMax
        <4>2. f[r] = g[<<f[r \ {Max(r)}], Max(r)>>]
          BY <1>2, <3>2 DEF IsFold
        <4>3. f[r \ {Max(r)}] \in T
          BY <1>2
        <4> HIDE DEF T, n
        <4> QED
          BY <3>2, <4>1, <4>2, <4>3
      <3> QED
        BY <3>1, <3>2
    <2> QED
      BY <2>1
  <1>4. PICK e : Equation(e) /\ References(K, s) = e[1..n]
    <2> DEFINE F == FoldLeft(LAMBDA refs, k : AddReference(K, refs, k), <<>>, s)
    <2>1. \E e : Equation(e) /\ F = e[1..n]
      <3>1. \E e : Equation(e)
        BY <1>3
      <3>2. F = (CHOOSE e : Equation(e))[1..n]
        BY <1>0 DEF FoldLeft, MapThenFoldSet
      <3> HIDE DEF Equation, F
      <3> QED
        BY <3>1, <3>2
    <2>2. References(K, s) = F
      BY DEF References
    <2> QED
      BY <2>1, <2>2
  <1>5. Folds(e, T, g, <<>>, n)
    <2>1. \A r \in SUBSET (1..n) :
             e[r] = IF r = {} THEN <<>> ELSE AddReference(K, e[r \ {Max(r)}], s[Max(r)])
      BY <1>4
    <2>2. ASSUME NEW r \in SUBSET (1..n), r # {}, e[r \ {Max(r)}] \in T
          PROVE  e[r] = g[<<e[r \ {Max(r)}], Max(r)>>]
      <3>1. Max(r) \in 1..n
        BY <1>0, <2>2, NatMax
      <3>2. e[r] = AddReference(K, e[r \ {Max(r)}], s[Max(r)])
        BY <2>1, <2>2
      <3> HIDE DEF T, n
      <3> QED
        BY <2>2, <3>1, <3>2
    <2>3. e[{}] = <<>>
      BY <2>1
    <2> HIDE DEF g, T, n
    <2> QED
      BY <2>2, <2>3 DEF Folds
  <1>6. PICK h : IsChain(h, e, T, g, <<>>, n)
    <2>1. <<>> \in T
      OBVIOUS
    <2> HIDE DEF g, T, n
    <2> QED
      BY <1>0, <1>1, <1>5, <2>1, FoldChain
  <1>7. ASSUME NEW k \in 1..n PROVE h[k] = AddReference(K, h[k - 1], s[k])
    <2>1. h[k - 1] \in T
      BY <1>0, <1>6 DEF IsChain
    <2> HIDE DEF T, n
    <2> QED
      BY <1>6, <2>1 DEF IsChain
  <1>8. h[0] = <<>> /\ h[n] = e[1..n] /\ h \in [0..n -> T]
    BY <1>6 DEF IsChain
  <1> QED
    BY <1>4, <1>7, <1>8

\* The lines that stay, one line after the other.
LEMMA KeptFold ==
  ASSUME NEW s \in Seq(Kinds)
  PROVE  \E h : /\ h[0] = <<>> /\ KeptLines(s) = h[Len(s)]
                /\ h \in [0..Len(s) -> Seq(Kinds)]
                /\ \A k \in 1..Len(s) : h[k] = KeepLine(s, h[k - 1], k)
  <1> DEFINE n == Len(s)
             T == Seq(Kinds)
             g == [p \in T \X (1..n) |-> KeepLine(s, p[1], p[2])]
             ids == [i \in DOMAIN s |-> i]
             Equation(f) == f = [r \in SUBSET (1..n) |->
                              IF r = {} THEN <<>> ELSE KeepLine(s, f[r \ {Max(r)}], ids[Max(r)])]
  <1>0. n \in Nat /\ DOMAIN s = 1..n
    OBVIOUS
  <1>i. DOMAIN ids = 1..n /\ ids = [i \in DOMAIN s |-> i] /\ \A i \in 1..n : ids[i] = i
    OBVIOUS
  <1> HIDE DEF ids
  <1>1. g \in [T \X (1..n) -> T]
    <2>1. \A a \in T, i \in 1..n : KeepLine(s, a, i) \in T
      BY DEF KeepLine
    <2> QED
      BY <2>1
  <1>2. PICK f \in [SUBSET (1..n) -> T] : IsFold(f, g, <<>>, n)
    <2> HIDE DEF g, n, T
    <2>1. <<>> \in T
      BY DEF T
    <2> QED
      BY <1>0, <1>1, <2>1, FoldExists
  <1>3. Equation(f)
    <2>1. ASSUME NEW r \in SUBSET (1..n)
          PROVE  f[r] = IF r = {} THEN <<>> ELSE KeepLine(s, f[r \ {Max(r)}], ids[Max(r)])
      <3>1. CASE r = {}
        BY <1>2, <3>1 DEF IsFold
      <3>2. CASE r # {}
        <4>1. Max(r) \in r /\ Max(r) \in 1..n
          BY <1>0, <3>2, NatMax
        <4>2. f[r] = g[<<f[r \ {Max(r)}], Max(r)>>]
          BY <1>2, <3>2 DEF IsFold
        <4>3. f[r \ {Max(r)}] \in T
          BY <1>2
        <4> HIDE DEF T, n
        <4> QED
          BY <1>i, <3>2, <4>1, <4>2, <4>3
      <3> QED
        BY <3>1, <3>2
    <2> QED
      BY <2>1
  <1>4. PICK e : Equation(e) /\ KeptLines(s) = e[1..n]
    <2> DEFINE F == FoldLeft(LAMBDA kept, i : KeepLine(s, kept, i), <<>>, ids)
    <2>1. \E e : Equation(e) /\ F = e[1..n]
      <3>1. \E e : Equation(e)
        BY <1>3
      <3>2. F = (CHOOSE e : Equation(e))[1..n]
        BY <1>i DEF FoldLeft, MapThenFoldSet
      <3> HIDE DEF Equation, F
      <3> QED
        BY <3>1, <3>2
    <2>2. KeptLines(s) = F
      BY <1>i DEF KeptLines
    <2> QED
      BY <2>1, <2>2
  <1>5. Folds(e, T, g, <<>>, n)
    <2>1. \A r \in SUBSET (1..n) :
             e[r] = IF r = {} THEN <<>> ELSE KeepLine(s, e[r \ {Max(r)}], ids[Max(r)])
      BY <1>4
    <2>2. ASSUME NEW r \in SUBSET (1..n), r # {}, e[r \ {Max(r)}] \in T
          PROVE  e[r] = g[<<e[r \ {Max(r)}], Max(r)>>]
      <3>1. Max(r) \in 1..n
        BY <1>0, <2>2, NatMax
      <3>2. e[r] = KeepLine(s, e[r \ {Max(r)}], Max(r))
        BY <1>i, <2>1, <2>2, <3>1
      <3> HIDE DEF T, n
      <3> QED
        BY <2>2, <3>1, <3>2
    <2>3. e[{}] = <<>>
      BY <2>1
    <2> HIDE DEF g, T, n
    <2> QED
      BY <2>2, <2>3 DEF Folds
  <1>6. PICK h : IsChain(h, e, T, g, <<>>, n)
    <2>1. <<>> \in T
      OBVIOUS
    <2> HIDE DEF g, T, n
    <2> QED
      BY <1>0, <1>1, <1>5, <2>1, FoldChain
  <1>7. ASSUME NEW k \in 1..n PROVE h[k] = KeepLine(s, h[k - 1], k)
    <2>1. h[k - 1] \in T
      BY <1>0, <1>6 DEF IsChain
    <2> HIDE DEF T, n
    <2> QED
      BY <1>6, <2>1 DEF IsChain
  <1>8. h[0] = <<>> /\ h[n] = e[1..n] /\ h \in [0..n -> T]
    BY <1>6 DEF IsChain
  <1> QED
    BY <1>4, <1>7, <1>8

\* The removal of empty code blocks, one line after the other.
LEMMA FenceFold ==
  ASSUME NEW s \in Seq(Kinds)
  PROVE  \E h : /\ h[0] = <<>> /\ WithoutEmptyFences(s) = h[Len(s)]
                /\ h \in [0..Len(s) -> Seq(Kinds)]
                /\ \A k \in 1..Len(s) : h[k] = AddLine(h[k - 1], s[k])
  <1> DEFINE n == Len(s)
             T == Seq(Kinds)
             g == [p \in T \X (1..n) |-> AddLine(p[1], s[p[2]])]
             Equation(f) == f = [r \in SUBSET (1..n) |->
                              IF r = {} THEN <<>> ELSE AddLine(f[r \ {Max(r)}], s[Max(r)])]
  <1>0. n \in Nat /\ DOMAIN s = 1..n
    OBVIOUS
  <1>1. g \in [T \X (1..n) -> T]
    <2>1. ASSUME NEW a \in T, NEW i \in 1..n PROVE AddLine(a, s[i]) \in T
      <3>1. CASE Written(a) # {}
        <4>1. Written(a) \in SUBSET (1..Len(a)) /\ Len(a) \in Nat
          BY DEF Written
        <4>2. Max(Written(a)) \in 1..Len(a)
          BY <3>1, <4>1, NatMax
        <4>3. SubSeq(a, 1, Max(Written(a)) - 1) \in T
          BY <4>1, <4>2
        <4>4. Left(a[Max(Written(a))], s[i]) \in Kinds
          BY DEF Left, Kinds
        <4> QED
          BY <4>3, <4>4 DEF AddLine
      <3>2. CASE Written(a) = {}
        BY <3>2 DEF AddLine
      <3> QED
        BY <3>1, <3>2
    <2> QED
      BY <2>1
  <1>2. PICK f \in [SUBSET (1..n) -> T] : IsFold(f, g, <<>>, n)
    <2> HIDE DEF g, n, T
    <2>1. <<>> \in T
      BY DEF T
    <2> QED
      BY <1>0, <1>1, <2>1, FoldExists
  <1>3. Equation(f)
    <2>1. ASSUME NEW r \in SUBSET (1..n)
          PROVE  f[r] = IF r = {} THEN <<>> ELSE AddLine(f[r \ {Max(r)}], s[Max(r)])
      <3>1. CASE r = {}
        BY <1>2, <3>1 DEF IsFold
      <3>2. CASE r # {}
        <4>1. Max(r) \in r /\ Max(r) \in 1..n
          BY <1>0, <3>2, NatMax
        <4>2. f[r] = g[<<f[r \ {Max(r)}], Max(r)>>]
          BY <1>2, <3>2 DEF IsFold
        <4>3. f[r \ {Max(r)}] \in T
          BY <1>2
        <4> HIDE DEF T, n
        <4> QED
          BY <3>2, <4>1, <4>2, <4>3
      <3> QED
        BY <3>1, <3>2
    <2> QED
      BY <2>1
  <1>4. PICK e : Equation(e) /\ WithoutEmptyFences(s) = e[1..n]
    BY <1>0, <1>3 DEF WithoutEmptyFences, FoldLeft, MapThenFoldSet
  <1>5. Folds(e, T, g, <<>>, n)
    <2>1. \A r \in SUBSET (1..n) :
             e[r] = IF r = {} THEN <<>> ELSE AddLine(e[r \ {Max(r)}], s[Max(r)])
      BY <1>4
    <2>2. ASSUME NEW r \in SUBSET (1..n), r # {}, e[r \ {Max(r)}] \in T
          PROVE  e[r] = g[<<e[r \ {Max(r)}], Max(r)>>]
      <3>1. Max(r) \in 1..n
        BY <1>0, <2>2, NatMax
      <3>2. e[r] = AddLine(e[r \ {Max(r)}], s[Max(r)])
        BY <2>1, <2>2
      <3> HIDE DEF T, n
      <3> QED
        BY <2>2, <3>1, <3>2
    <2>3. e[{}] = <<>>
      BY <2>1
    <2> HIDE DEF g, T, n
    <2> QED
      BY <2>2, <2>3 DEF Folds
  <1>6. PICK h : IsChain(h, e, T, g, <<>>, n)
    <2>1. <<>> \in T
      OBVIOUS
    <2> HIDE DEF g, T, n
    <2> QED
      BY <1>0, <1>1, <1>5, <2>1, FoldChain
  <1>7. ASSUME NEW k \in 1..n PROVE h[k] = AddLine(h[k - 1], s[k])
    <2>1. h[k - 1] \in T
      BY <1>0, <1>6 DEF IsChain
    <2> HIDE DEF T, n
    <2> QED
      BY <1>6, <2>1 DEF IsChain
  <1>8. h[0] = <<>> /\ h[n] = e[1..n] /\ h \in [0..n -> T]
    BY <1>6 DEF IsChain
  <1> QED
    BY <1>4, <1>7, <1>8

\* The references of a text are those of any window of it outside of which there are none.
LEMMA ReferencesOfWindow ==
  ASSUME NEW K \in RefKinds, NEW s \in Seq(Kinds), NEW t \in Seq(Kinds), NEW d \in Nat, d + Len(t) <= Len(s),
         \A i \in 1..Len(t) : t[i] = s[d + i],
         \A i \in 1..Len(s) : i <= d \/ i > d + Len(t) => s[i] \notin K
  PROVE  References(K, t) = References(K, s)
  <1> DEFINE m == Len(t)
             n == Len(s)
  <1>0. m \in Nat /\ n \in Nat /\ d + m <= n
    OBVIOUS
  <1>1. PICK g : /\ g[0] = <<>> /\ References(K, s) = g[n]
                 /\ \A k \in 1..n : g[k] = AddReference(K, g[k - 1], s[k])
    BY ReferenceFold, SMTT(20)
  <1>2. PICK h : /\ h[0] = <<>> /\ References(K, t) = h[m]
                 /\ \A k \in 1..m : h[k] = AddReference(K, h[k - 1], t[k])
    BY ReferenceFold
  <1>3. ASSUME NEW k \in 1..n, k <= d \/ k > d + m PROVE g[k] = g[k - 1]
    <2>1. s[k] \notin K
      BY <1>3
    <2> QED
      BY <1>1, <2>1 DEF AddReference
  <1>4. ASSUME NEW k \in 1..m PROVE h[k] = AddReference(K, h[k - 1], s[d + k])
                                    /\ g[d + k] = AddReference(K, g[d + k - 1], s[d + k])
    <2>1. d + k \in 1..n
      BY <1>0
    <2> QED
      BY <1>1, <1>2, <2>1
  <1> HIDE DEF m, n
  <1>5. g[d] = <<>>
    <2> DEFINE G == {k \in 0..d : g[k] = <<>>}
    <2>1. 0 \in G
      BY <1>1
    <2>2. \A k \in 1..d : k - 1 \in G => k \in G
      BY <1>0, <1>3
    <2>3. \A k \in 0..d : k \in G
      <3> HIDE DEF G
      <3> QED
        BY <2>1, <2>2, UpTo
    <2> QED
      BY <2>3
  <1>6. h[m] = g[d + m]
    <2> DEFINE G == {k \in 0..m : h[k] = g[d + k]}
    <2>1. 0 \in G
      BY <1>0, <1>2, <1>5
    <2>2. ASSUME NEW k \in 1..m, k - 1 \in G PROVE k \in G
      <3>1. h[k - 1] = g[d + (k - 1)] /\ d + (k - 1) = d + k - 1
        BY <1>0, <2>2
      <3>2. h[k] = AddReference(K, h[k - 1], s[d + k]) /\ g[d + k] = AddReference(K, g[d + k - 1], s[d + k])
        BY <1>4
      <3> QED
        BY <3>1, <3>2
    <2>3. \A k \in 0..m : k \in G
      <3> HIDE DEF G
      <3> QED
        BY <1>0, <2>1, <2>2, UpTo
    <2> QED
      BY <1>0, <2>3
  <1>7. g[n] = g[d + m]
    <2> DEFINE r == n - (d + m)
               G == {k \in 0..r : g[d + m + k] = g[d + m]}
    <2>0. r \in Nat /\ d + m + r = n
      BY <1>0
    <2>1. 0 \in G
      BY <1>0
    <2>2. ASSUME NEW k \in 1..r, k - 1 \in G PROVE k \in G
      <3>1. d + m + k \in 1..n /\ d + m + k > d + m /\ d + m + (k - 1) = d + m + k - 1
        BY <1>0, <2>0
      <3>2. PICK j \in 1..n : j = d + m + k
        BY <3>1
      <3>3. j > d + m
        BY <1>0, <3>1, <3>2
      <3>4. g[j] = g[j - 1]
        BY <1>3, <3>3
      <3>5. j - 1 = d + m + (k - 1)
        BY <1>0, <3>2
      <3>6. g[d + m + k] = g[d + m + (k - 1)]
        BY <3>2, <3>4, <3>5
      <3> QED
        BY <2>2, <3>6
    <2>3. \A k \in 0..r : k \in G
      <3> HIDE DEF G, r
      <3> QED
        BY <2>0, <2>1, <2>2, UpTo
    <2> HIDE DEF r
    <2> QED
      BY <2>0, <2>3
  <1> QED
    BY <1>1, <1>2, <1>6, <1>7

\* An empty text has no references, and a further line adds its own.
LEMMA ReferencesOfAppend ==
  ASSUME NEW K \in RefKinds, NEW s \in Seq(Kinds), NEW x \in Kinds
  PROVE  /\ References(K, <<>>) = <<>>
         /\ References(K, Append(s, x)) = AddReference(K, References(K, s), x)
  <1>1. References(K, <<>>) = <<>>
    <2>1. <<>> \in Seq(Kinds) /\ Len(<<>>) = 0
      OBVIOUS
    <2>2. PICK h : h[0] = <<>> /\ References(K, <<>>) = h[Len(<<>>)]
      BY <2>1, ReferenceFold, SMTT(20)
    <2> QED
      BY <2>1, <2>2
  <1> DEFINE n == Len(s)
             t == Append(s, x)
  <1>2. n \in Nat /\ t \in Seq(Kinds) /\ Len(t) = n + 1 /\ t[n + 1] = x /\ \A i \in 1..n : t[i] = s[i]
    OBVIOUS
  <1> HIDE DEF t
  <1>3. PICK g : /\ g[0] = <<>> /\ References(K, s) = g[n]
                 /\ \A k \in 1..n : g[k] = AddReference(K, g[k - 1], s[k])
    BY ReferenceFold
  <1>4. PICK h : /\ h[0] = <<>> /\ References(K, t) = h[n + 1]
                 /\ \A k \in 1..n + 1 : h[k] = AddReference(K, h[k - 1], t[k])
    <2>1. \E h : /\ h[0] = <<>> /\ References(K, t) = h[Len(t)]
                 /\ \A k \in 1..Len(t) : h[k] = AddReference(K, h[k - 1], t[k])
      BY <1>2, ReferenceFold
    <2> QED
      BY <1>2, <2>1
  <1>5. h[n] = g[n]
    <2> DEFINE G == {k \in 0..n : h[k] = g[k]}
    <2>1. 0 \in G
      BY <1>2, <1>3, <1>4
    <2>2. ASSUME NEW k \in 1..n, k - 1 \in G PROVE k \in G
      <3>1. k \in 1..n + 1 /\ h[k - 1] = g[k - 1] /\ t[k] = s[k]
        BY <1>2, <2>2
      <3>2. h[k] = AddReference(K, h[k - 1], t[k]) /\ g[k] = AddReference(K, g[k - 1], s[k])
        BY <1>3, <1>4, <3>1
      <3> QED
        BY <3>1, <3>2
    <2>3. \A k \in 0..n : k \in G
      <3> HIDE DEF G, n
      <3> QED
        BY <1>2, <2>1, <2>2, UpTo
    <2> QED
      BY <1>2, <2>3
  <1>6. h[n + 1] = AddReference(K, h[n], x)
    BY <1>2, <1>4
  <1> QED
    BY <1>1, <1>3, <1>4, <1>5, <1>6 DEF t

\* The lines that stay are lines of a text, among them all that have a valid reference.
LEMMA KeptReferences ==
  ASSUME NEW K \in RefKinds, NEW s \in Seq(Kinds)
  PROVE  KeptLines(s) \in Seq(Kinds) /\ References(K, KeptLines(s)) = References(K, s)
  <1> DEFINE n == Len(s)
  <1>0. n \in Nat
    OBVIOUS
  <1>1. PICK c : /\ c[0] = <<>> /\ KeptLines(s) = c[n] /\ c \in [0..n -> Seq(Kinds)]
                 /\ \A k \in 1..n : c[k] = KeepLine(s, c[k - 1], k)
    BY KeptFold
  <1>2. PICK g : /\ g[0] = <<>> /\ References(K, s) = g[n]
                 /\ \A k \in 1..n : g[k] = AddReference(K, g[k - 1], s[k])
    BY ReferenceFold
  <1> DEFINE G == {k \in 0..n : References(K, c[k]) = g[k]}
  <1>3. 0 \in G
    <2>1. References(K, <<>>) = <<>>
      <3>1. <<>> \in Seq(Kinds) /\ "blank" \in Kinds
        BY DEF Kinds
      <3> QED
        BY <3>1, ReferencesOfAppend
    <2> QED
      BY <1>0, <1>1, <1>2, <2>1
  <1>4. ASSUME NEW k \in 1..n, k - 1 \in G PROVE k \in G
    <2>1. /\ c[k - 1] \in Seq(Kinds) /\ s[k] \in Kinds /\ References(K, c[k - 1]) = g[k - 1]
          /\ c[k] = KeepLine(s, c[k - 1], k) /\ g[k] = AddReference(K, g[k - 1], s[k])
      <3>1. k - 1 \in 0..n /\ References(K, c[k - 1]) = g[k - 1]
        BY <1>4
      <3> QED
        BY <1>0, <1>1, <1>2, <3>1
    <2>2. CASE Keeps(s, k)
      <3>1. c[k] = Append(c[k - 1], s[k])
        BY <2>1, <2>2 DEF KeepLine
      <3>2. References(K, Append(c[k - 1], s[k])) = AddReference(K, References(K, c[k - 1]), s[k])
        BY <2>1, ReferencesOfAppend
      <3>3. References(K, c[k]) = g[k]
        BY <2>1, <3>1, <3>2
      <3> QED
        BY <3>3
    <2>3. CASE ~Keeps(s, k)
      <3>1. s[k] \notin K
        BY <2>3 DEF Keeps, Cites, RefKinds
      <3> QED
        BY <2>1, <2>3, <3>1 DEF KeepLine, AddReference
    <2> QED
      BY <2>2, <2>3
  <1>5. \A k \in 0..n : k \in G
    <2> HIDE DEF G, n
    <2> QED
      BY <1>0, <1>3, <1>4, UpTo
  <1> QED
    BY <1>0, <1>1, <1>2, <1>5

\* All lines of a text are of the kinds A.
Of(A, s) == \A i \in DOMAIN s : s[i] \in A
\* The removal of empty code blocks takes no references along, but for those of a line with
\* ``` before them.
LEMMA FenceReferences ==
  ASSUME NEW K \in RefKinds, NEW s \in Seq(Kinds), "span" \notin K \/ Of(Kinds \ Fences, s)
  PROVE  WithoutEmptyFences(s) \in Seq(Kinds) /\ References(K, WithoutEmptyFences(s)) = References(K, s)
  <1> DEFINE n == Len(s)
  <1>0. n \in Nat
    OBVIOUS
  <1>1. PICK c : /\ c[0] = <<>> /\ WithoutEmptyFences(s) = c[n] /\ c \in [0..n -> Seq(Kinds)]
                 /\ \A k \in 1..n : c[k] = AddLine(c[k - 1], s[k])
    BY FenceFold
  <1>2. PICK g : /\ g[0] = <<>> /\ References(K, s) = g[n]
                 /\ \A k \in 1..n : g[k] = AddReference(K, g[k - 1], s[k])
    BY ReferenceFold
  <1> DEFINE G == {k \in 0..n : References(K, c[k]) = g[k]}
  <1>3. 0 \in G
    <2>1. References(K, <<>>) = <<>>
      <3>1. <<>> \in Seq(Kinds) /\ "blank" \in Kinds
        BY DEF Kinds
      <3> QED
        BY <3>1, ReferencesOfAppend
    <2> QED
      BY <1>0, <1>1, <1>2, <2>1
  <1>4. ASSUME NEW k \in 1..n, k - 1 \in G PROVE k \in G
    <2>1. PICK out \in Seq(Kinds) : out = c[k - 1]
      BY <1>1
    <2>2. /\ s[k] \in Kinds /\ References(K, out) = g[k - 1]
          /\ c[k] = AddLine(out, s[k]) /\ g[k] = AddReference(K, g[k - 1], s[k])
      BY <1>1, <1>2, <1>4, <2>1
    <2> DEFINE opens == /\ s[k] \in Fences /\ Written(out) # {}
                        /\ out[Max(Written(out))] \in Fences \cup {"span"}
    <2>3. CASE opens
      <3>0. "span" \notin K
        BY <2>3 DEF Of
      <3>1. Written(out) \in SUBSET (1..Len(out)) /\ Len(out) \in Nat
        BY DEF Written
      <3>2. PICK m \in 1..Len(out) : m = Max(Written(out)) /\ \A i \in Written(out) : i <= m
        BY <2>3, <3>1, NatMax
      <3> DEFINE x == Left(out[m], s[k])
      <3>3. /\ c[k] = Append(SubSeq(out, 1, m - 1), x)
            /\ x \in Kinds /\ x \notin K
        <4>1. x \in {"rest", "short", "blank"}
          BY DEF Left
        <4> HIDE DEF x
        <4>2. x \in Kinds /\ x \notin K
          BY <4>1 DEF Kinds, RefKinds
        <4> QED
          BY <2>2, <2>3, <3>2, <4>2 DEF AddLine, x
      <3> HIDE DEF x
      <3>z. PICK z \in Int : z = m - 1
        BY <3>1
      <3>t. \A i \in 1..z : i \in 1..Len(out) /\ out[i] \in Kinds
        BY <3>1, <3>z
      <3>4. PICK t \in Seq(Kinds) : t = SubSeq(out, 1, m - 1)
        <4>1. SubSeq(out, 1, z) \in Seq(Kinds)
          BY <3>t, SubSeqProperties
        <4> QED
          BY <3>z, <4>1
      <3>5. Len(t) = m - 1 /\ \A i \in 1..m - 1 : t[i] = out[i]
        BY <3>1, <3>4, SubSeqProperties
      <3>6. ASSUME NEW i \in 1..Len(out), i > m - 1 PROVE out[i] \notin K
        <4>1. CASE i = m
          BY <2>3, <3>0, <3>2, <4>1 DEF RefKinds, Fences
        <4>2. CASE i > m
          <5>1. i \notin Written(out)
            BY <3>1, <3>2, <4>2
          <5> QED
            BY <5>1 DEF Written, RefKinds
        <4> QED
          BY <3>1, <3>6, <4>1, <4>2
      <3>7. References(K, t) = References(K, out)
        <4>1. 0 + Len(t) <= Len(out) /\ \A i \in 1..Len(t) : t[i] = out[0 + i]
          BY <3>1, <3>5
        <4>2. \A i \in 1..Len(out) : i <= 0 \/ i > 0 + Len(t) => out[i] \notin K
          BY <3>1, <3>5, <3>6
        <4> QED
          BY <4>1, <4>2, ReferencesOfWindow
      <3>8. g[k] = g[k - 1]
        BY <2>2, <2>3 DEF AddReference, RefKinds, Fences
      <3>9. References(K, c[k]) = References(K, t)
        <4>1. References(K, Append(t, x)) = AddReference(K, References(K, t), x)
          BY <3>3, ReferencesOfAppend
        <4> QED
          BY <3>3, <3>4, <4>1 DEF AddReference
      <3> QED
        BY <2>2, <3>7, <3>8, <3>9
    <2>4. CASE ~opens
      <3>1. c[k] = Append(out, s[k])
        BY <2>2, <2>4 DEF AddLine
      <3>2. References(K, Append(out, s[k])) = AddReference(K, References(K, out), s[k])
        BY <2>2, ReferencesOfAppend
      <3>3. References(K, c[k]) = g[k]
        BY <2>2, <3>1, <3>2
      <3> QED
        BY <3>3
    <2> QED
      BY <2>3, <2>4
  <1>5. \A k \in 0..n : k \in G
    <2> HIDE DEF G, n
    <2> QED
      BY <1>0, <1>3, <1>4, UpTo
  <1> QED
    BY <1>0, <1>1, <1>2, <1>5

\* Nor do blank lines at the start and at the end.
LEMMA TrimmedReferences ==
  ASSUME NEW K \in RefKinds, NEW s \in Seq(Kinds)
  PROVE  Trimmed(s) \in Seq(Kinds) /\ References(K, Trimmed(s)) = References(K, s)
  <1>0. /\ Written(s) \in SUBSET (1..Len(s)) /\ Written(s) \in SUBSET Nat /\ Len(s) \in Nat
        /\ <<>> \in Seq(Kinds) /\ Len(<<>>) = 0
    BY DEF Written
  <1>b. \A i \in 1..Len(s) : i \notin Written(s) => s[i] \notin K
    BY DEF Written, RefKinds
  <1>1. CASE Written(s) = {}
    <2>1. Trimmed(s) = <<>>
      BY <1>1 DEF Trimmed
    <2>2. \A i \in 1..Len(s) : s[i] \notin K
      BY <1>1, <1>b
    <2>3. References(K, <<>>) = References(K, s)
      <3>1. /\ 0 \in Nat /\ 0 + Len(<<>>) <= Len(s)
            /\ \A i \in 1..Len(<<>>) : <<>>[i] = s[0 + i]
        BY <1>0
      <3> QED
        BY <1>0, <2>2, <3>1, ReferencesOfWindow
    <2> QED
      BY <1>0, <2>1, <2>3
  <1>2. CASE Written(s) # {}
    <2>1. PICK a \in 1..Len(s) : a = Min(Written(s)) /\ \A i \in Written(s) : a <= i
      <3>1. \E a \in Written(s) : \A i \in Written(s) : a <= i
        BY <1>0, <1>2, NatMin
      <3> QED
        BY <1>0, <3>1 DEF Min
    <2>2. PICK z \in 1..Len(s) : z = Max(Written(s)) /\ z \in Written(s) /\ \A i \in Written(s) : i <= z
      BY <1>0, <1>2, NatMax
    <2>3. a <= z
      BY <2>1, <2>2
    <2>t. a \in Int /\ z \in Int /\ \A i \in a..z : i \in 1..Len(s) /\ s[i] \in Kinds
      BY <1>0, <2>3
    <2>4. PICK t \in Seq(Kinds) : t = SubSeq(s, a, z)
      BY <2>t, SubSeqProperties
    <2>5. Len(t) = z - a + 1 /\ \A i \in 1..z - a + 1 : t[i] = s[(a - 1) + i]
      BY <2>3, <2>4
    <2>6. /\ a - 1 \in Nat /\ (a - 1) + Len(t) <= Len(s)
          /\ \A i \in 1..Len(t) : t[i] = s[(a - 1) + i]
      BY <1>0, <2>3, <2>5
    <2>7. ASSUME NEW i \in 1..Len(s), i <= a - 1 \/ i > (a - 1) + Len(t) PROVE s[i] \notin K
      <3>1. i < a \/ i > z
        BY <1>0, <2>3, <2>5, <2>7
      <3>2. i \notin Written(s)
        BY <1>0, <2>1, <2>2, <3>1
      <3> QED
        BY <1>b, <3>2
    <2>8. References(K, t) = References(K, s)
      BY <2>6, <2>7, ReferencesOfWindow
    <2> QED
      BY <1>2, <2>1, <2>2, <2>4, <2>8 DEF Trimmed
  <1> QED
    BY <1>1, <1>2

\* What each pass makes of the kinds of line of a text: the first leaves no list item without
\* reference, the removal of code blocks may leave ends of lines, the last adds nothing.
LEMMA KeptAre ==
  ASSUME NEW A, NEW s \in Seq(Kinds), Of(A, s)
  PROVE  KeptLines(s) \in Seq(Kinds) /\ Of(A \ {"bullet"}, KeptLines(s))
  <1> DEFINE n == Len(s)
  <1>0. n \in Nat
    OBVIOUS
  <1>1. PICK c : /\ c[0] = <<>> /\ KeptLines(s) = c[n] /\ c \in [0..n -> Seq(Kinds)]
                 /\ \A k \in 1..n : c[k] = KeepLine(s, c[k - 1], k)
    BY KeptFold
  <1> DEFINE G == {k \in 0..n : \A i \in DOMAIN c[k] : c[k][i] \in A \ {"bullet"}}
  <1>2. 0 \in G
    BY <1>0, <1>1
  <1>3. ASSUME NEW k \in 1..n, k - 1 \in G PROVE k \in G
    <2>1. PICK out \in Seq(Kinds) : out = c[k - 1]
      BY <1>1
    <2>2. Of(A \ {"bullet"}, out) /\ c[k] = KeepLine(s, out, k) /\ s[k] \in A
      BY <1>1, <1>3, <2>1 DEF Of
    <2>3. CASE Keeps(s, k)
      <3>1. c[k] = Append(out, s[k]) /\ s[k] # "bullet"
        BY <2>2, <2>3 DEF KeepLine, Keeps, Fences, Cites
      <3>2. Of(A \ {"bullet"}, Append(out, s[k]))
        BY <2>1, <2>2, <3>1 DEF Of
      <3> QED
        BY <3>1, <3>2, SMTT(20) DEF Of
    <2>4. CASE ~Keeps(s, k)
      <3>1. c[k] = out
        BY <2>2, <2>4 DEF KeepLine
      <3> QED
        BY <2>2, <3>1 DEF Of
    <2> QED
      BY <2>3, <2>4
  <1>4. \A k \in 0..n : k \in G
    <2> HIDE DEF G, n
    <2> QED
      BY <1>0, <1>2, <1>3, UpTo
  <1>5. n \in 0..n
    BY <1>0
  <1> QED
    BY <1>1, <1>4, <1>5 DEF Of

LEMMA TrimmedAre ==
  ASSUME NEW A, NEW s \in Seq(Kinds), Of(A, s)
  PROVE  Trimmed(s) \in Seq(Kinds) /\ Of(A, Trimmed(s))
  <1>0. /\ Written(s) \in SUBSET (1..Len(s)) /\ Written(s) \in SUBSET Nat /\ Len(s) \in Nat
    BY DEF Written
  <1>1. CASE Written(s) = {}
    BY <1>1 DEF Trimmed, Of
  <1>2. CASE Written(s) # {}
    <2>1. PICK a \in 1..Len(s) : a = Min(Written(s))
      <3>1. \E a \in Written(s) : \A i \in Written(s) : a <= i
        BY <1>0, <1>2, NatMin
      <3> QED
        BY <1>0, <3>1 DEF Min
    <2>2. PICK z \in 1..Len(s) : z = Max(Written(s))
      BY <1>0, <1>2, NatMax
    <2>3. a \in Int /\ z \in Int /\ \A i \in a..z : i \in 1..Len(s) /\ s[i] \in Kinds
      BY <1>0
    <2>4. PICK t \in Seq(Kinds) : t = SubSeq(s, a, z)
      BY <2>3, SubSeqProperties
    <2>5. \A i \in DOMAIN t : t[i] = s[a + i - 1] /\ a + i - 1 \in DOMAIN s
      BY <2>4, <2>3, SubSeqProperties
    <2> QED
      BY <1>2, <2>1, <2>2, <2>4, <2>5 DEF Trimmed, Of
  <1> QED
    BY <1>1, <1>2

LEMMA FencesAre ==
  ASSUME NEW A, NEW s \in Seq(Kinds), Of(A, s)
  PROVE  /\ WithoutEmptyFences(s) \in Seq(Kinds)
         /\ Of(A \cup {"rest", "short", "blank"}, WithoutEmptyFences(s))
  <1> DEFINE n == Len(s)
             B == A \cup {"rest", "short", "blank"}
  <1>0. n \in Nat
    OBVIOUS
  <1>1. PICK c : /\ c[0] = <<>> /\ WithoutEmptyFences(s) = c[n] /\ c \in [0..n -> Seq(Kinds)]
                 /\ \A k \in 1..n : c[k] = AddLine(c[k - 1], s[k])
    BY FenceFold
  <1> DEFINE G == {k \in 0..n : \A i \in DOMAIN c[k] : c[k][i] \in B}
  <1>2. 0 \in G
    BY <1>0, <1>1
  <1>3. ASSUME NEW k \in 1..n, k - 1 \in G PROVE k \in G
    <2>1. PICK out \in Seq(Kinds) : out = c[k - 1]
      BY <1>1
    <2>2. Of(B, out) /\ c[k] = AddLine(out, s[k]) /\ s[k] \in B /\ c[k] \in Seq(Kinds)
      BY <1>1, <1>3, <2>1 DEF Of
    <2> HIDE DEF B
    <2>3. CASE c[k] = Append(out, s[k])
      <3>1. Of(B, Append(out, s[k]))
        BY <2>1, <2>2 DEF Of
      <3>2. Of(B, c[k])
        BY <2>3, <3>1
      <3> QED
        BY <3>2 DEF Of
    <2>4. CASE c[k] # Append(out, s[k])
      <3>1. Written(out) # {} /\ Written(out) \in SUBSET (1..Len(out)) /\ Len(out) \in Nat
        BY <2>2, <2>4 DEF AddLine, Written
      <3>2. PICK m \in 1..Len(out) : m = Max(Written(out))
        BY <3>1, NatMax
      <3>3. PICK x \in Kinds : x = Left(out[m], s[k]) /\ x \in B
        BY DEF Left, Kinds, B
      <3>4. c[k] = Append(SubSeq(out, 1, m - 1), x)
        BY <2>2, <2>4, <3>2, <3>3 DEF AddLine
      <3>z. PICK z \in Int : z = m - 1
        BY <3>1
      <3>t. \A i \in 1..z : i \in 1..Len(out) /\ out[i] \in Kinds
        BY <3>1, <3>z
      <3>5. PICK t \in Seq(Kinds) : t = SubSeq(out, 1, m - 1)
        <4>1. SubSeq(out, 1, z) \in Seq(Kinds)
          BY <3>t, SubSeqProperties
        <4> QED
          BY <3>z, <4>1
      <3>6. Len(t) = m - 1 /\ \A i \in 1..m - 1 : t[i] = out[i]
        BY <3>1, <3>5, SubSeqProperties
      <3>7. Of(B, t)
        BY <2>2, <3>1, <3>6 DEF Of
      <3>8. Of(B, Append(t, x))
        BY <3>3, <3>5, <3>7 DEF Of
      <3>9. Of(B, c[k])
        BY <3>4, <3>5, <3>8
      <3> QED
        BY <3>9 DEF Of
    <2> QED
      BY <2>3, <2>4
  <1>4. \A k \in 0..n : k \in G
    <2> HIDE DEF G, n, B
    <2> QED
      BY <1>0, <1>2, <1>3, UpTo
  <1>5. n \in 0..n
    BY <1>0
  <1> QED
    BY <1>1, <1>4, <1>5 DEF Of

\* Repair as a whole, when there are sources at all: the references are those of the generated
\* text, also of the lines with ``` before them if it has no code block.
LEMMA RepairedReferences ==
  ASSUME NEW K \in RefKinds, NEW s \in Seq(Kinds), mode # "bare",
         "span" \notin K \/ Of(Kinds \ Fences, s)
  PROVE  References(K, Repaired(s)) = References(K, s)
  <1>1. PICK a \in Seq(Kinds) : /\ a = Trimmed(KeptLines(s)) /\ References(K, a) = References(K, s)
                                /\ Of(Kinds \ Fences, s) => Of(Kinds \ Fences, a)
    <2>1. PICK l \in Seq(Kinds) : l = KeptLines(s) /\ References(K, l) = References(K, s)
      BY KeptReferences
    <2>2. Trimmed(l) \in Seq(Kinds) /\ References(K, Trimmed(l)) = References(K, l)
      BY TrimmedReferences
    <2>3. ASSUME Of(Kinds \ Fences, s) PROVE Of(Kinds \ Fences, Trimmed(l))
      <3>1. Of((Kinds \ Fences) \ {"bullet"}, l)
        BY <2>1, <2>3, KeptAre
      <3>2. Of((Kinds \ Fences) \ {"bullet"}, Trimmed(l))
        BY <3>1, TrimmedAre
      <3> QED
        BY <3>2 DEF Of
    <2> QED
      BY <2>1, <2>2, <2>3
  <1>2. PICK b \in Seq(Kinds) : b = WithoutEmptyFences(a) /\ References(K, b) = References(K, a)
    BY <1>1, FenceReferences
  <1>3. References(K, Trimmed(b)) = References(K, b)
    BY TrimmedReferences
  <1> QED
    BY <1>1, <1>2, <1>3 DEF Repaired

\* A repaired text is a text, and has no list item without reference.
LEMMA RepairedIsText ==
  ASSUME NEW s \in Seq(Kinds)
  PROVE  Repaired(s) \in Seq(Kinds) /\ Unlisted(Repaired(s))
  <1> DEFINE A == Kinds \ {"bullet"}
  <1>0. Of(Kinds, s) /\ A \cup {"rest", "short", "blank"} = A
    BY DEF Of, Kinds
  <1> HIDE DEF A
  <1>1. PICK l \in Seq(Kinds) : l = KeptLines(s) /\ Of(A, l)
    BY <1>0, KeptAre DEF A
  <1>2. PICK a \in Seq(Kinds) : a = Trimmed(l) /\ Of(A, a)
    BY <1>1, TrimmedAre
  <1>3. PICK b \in Seq(Kinds) : b = WithoutEmptyFences(a) /\ Of(A, b)
    BY <1>0, <1>2, FencesAre
  <1>4. PICK r \in Seq(Kinds) : r = Trimmed(b) /\ Of(A, r)
    BY <1>3, TrimmedAre
  <1>5. Unlisted(r) /\ Unlisted(<<>>) /\ <<>> \in Seq(Kinds)
    BY <1>4 DEF Of, Unlisted, A
  <1> QED
    BY <1>1, <1>2, <1>3, <1>4, <1>5 DEF Repaired

\* A text that may be persisted, with the verdict it carries.
Verdict(s, v) ==
    \/ v = TRUE /\ CitationsValid(s)
    \/ v = FALSE /\ s = Fallback /\ quoting
    \/ v = FALSE /\ s = Refusal /\ ~InChat
\* How far the text has come tells what is known of it: checked, it carries its verdict; with
\* substance, a chat may show it; persisted, it is the text that was checked.
CiteInv ==
    /\ quoting \in BOOLEAN /\ raw \in Seq(Kinds)
    /\ step \in {"generate", "check", "repair", "substance", "persist", "store", "done"}
    /\ step = "check" => text = raw
    /\ step \in {"generate", "check", "repair", "substance", "persist"} => persisted = <<>> /\ stored = FALSE
    /\ step \in {"substance", "persist", "store"} => Verdict(text, valid)
    /\ step \in {"substance", "persist", "store"} => Unlisted(text) \/ text = raw
    /\ step \in {"persist", "store"} /\ InChat => Substantive(text)
    /\ step = "store" => persisted = text /\ stored = FALSE
    /\ step = "done" => StoredIsCited

\* The quotation of the sources has substance, and fails the check exactly when a source
\* contains a bracketed number; the refusal always fails it.
LEMMA FallbackVerdict ==
  ASSUME quoting \in BOOLEAN
  PROVE  /\ Substantive(Fallback)
         /\ quoting => ~CitationsValid(Fallback)
         /\ ~quoting /\ mode # "bare" => CitationsValid(Fallback)
         /\ ~CitationsValid(Refusal)
  <1>1. /\ DOMAIN Fallback = 1..4 /\ Fallback[1] = "heading" /\ Fallback[2] = "blank"
        /\ Fallback[3] = "cited" /\ Fallback[4] = IF quoting THEN "wrong" ELSE "cited"
    BY DEF Fallback
  <1>2. Substantive(Fallback)
    BY <1>1 DEF Substantive
  <1>3. ~CitationsValid(Refusal)
    BY DEF Refusal, CitationsValid
  <1>4. ASSUME quoting PROVE ~CitationsValid(Fallback)
    <2>1. 4 \in DOMAIN Fallback /\ Fallback[4] = "wrong"
      BY <1>1, <1>4
    <2> QED
      BY <2>1 DEF CitationsValid
  <1>5. ASSUME ~quoting, mode # "bare" PROVE CitationsValid(Fallback)
    <2>1. \A i \in DOMAIN Fallback : Fallback[i] \in {"heading", "blank", "cited"}
      BY <1>1, <1>5
    <2>2. 3 \in DOMAIN Fallback /\ Fallback[3] \in Cites
      BY <1>1 DEF Cites
    <2>3. \A i \in DOMAIN Fallback : Fallback[i] \notin {"wrong", "wronghead", "prose", "longfence"}
      BY <2>1
    <2> QED
      BY <1>5, <2>2, <2>3 DEF CitationsValid
  <1> QED
    BY <1>2, <1>3, <1>4, <1>5

\* A text that passes the check is sound; so what is persisted is sound or an exception.
LEMMA VerdictIsSound ==
  ASSUME NEW s, Verdict(s, valid)
  PROVE  /\ Sound(s) \/ (s = Fallback /\ quoting) \/ (s = Refusal /\ ~InChat)
         /\ valid => Sound(s)
  BY DEF Verdict, CitationsValid, Sound

\* Neither the quotation nor the refusal has a list item without reference.
LEMMA ExceptionsUnlisted == Unlisted(Fallback) /\ Unlisted(Refusal) /\ Unlisted(<<>>)
  <1>1. /\ DOMAIN Fallback = 1..4 /\ Fallback[1] = "heading" /\ Fallback[2] = "blank"
        /\ Fallback[3] = "cited" /\ Fallback[4] = IF quoting THEN "wrong" ELSE "cited"
    BY DEF Fallback
  <1>2. Unlisted(Fallback)
    BY <1>1 DEF Unlisted
  <1> QED
    BY <1>2 DEF Unlisted, Refusal

\* What the model writes is a text, and so is the quotation.
LEMMA GeneratedIsText ==
  /\ \A s \in SeqOf(Generated, MaxLines) : s \in Seq(Kinds)
  /\ Fallback \in Seq(Kinds) /\ Refusal \in Seq(Kinds) /\ <<>> \in Seq(Kinds)
  <1>1. ASSUME NEW z \in SeqOf(Generated, MaxLines) PROVE z \in Seq(Kinds)
    <2>1. PICK m \in Nat : z \in [1..m -> Generated]
      BY CitationConstants DEF CitationConstants, SeqOf
    <2>2. z \in [1..m -> Kinds]
      <3> HIDE DEF Kinds
      <3> QED
        BY <2>1, CitationConstants DEF CitationConstants
    <2> QED
      BY <2>2
  <1>2. Fallback \in Seq(Kinds) /\ Refusal \in Seq(Kinds) /\ <<>> \in Seq(Kinds)
    BY DEF Fallback, Refusal, Kinds
  <1> QED
    BY <1>1, <1>2

\* Every way from the model to the database keeps the verdict and the text together.
LEMMA CiteInvariant == CiteSpec => []CiteInv
  <1>1. CiteInit => CiteInv
    BY GeneratedIsText DEF CiteInit, CiteInv
  <1>2. CiteInv /\ [CiteNext]_citeVars => CiteInv'
    <2> SUFFICES ASSUME CiteInv, [CiteNext]_citeVars PROVE CiteInv'
      OBVIOUS
    <2>f. /\ Substantive(Fallback) /\ ~CitationsValid(Refusal)
          /\ quoting => ~CitationsValid(Fallback)
          /\ ~quoting /\ mode # "bare" => CitationsValid(Fallback)
      BY FallbackVerdict DEF CiteInv
    <2>s. ASSUME UNCHANGED <<mode, quoting>>
          PROVE  /\ Fallback' = Fallback /\ (InChat <=> InChat')
                 /\ \A s : CitationsValid(s)' = CitationsValid(s)
      BY <2>s DEF Fallback, CitationsValid, InChat
    <2>r. Repaired(raw) \in Seq(Kinds) /\ Unlisted(Repaired(raw))
      BY RepairedIsText DEF CiteInv
    <2>1. CASE Generate
      <3>1. PICK s \in SeqOf(Generated, MaxLines) : raw' = s /\ text' = s
        BY <2>1 DEF Generate
      <3> QED
        BY <2>1, <3>1, GeneratedIsText DEF Generate, CiteInv
    <2>2. CASE GenerateFails
      <3>1. CASE mode = "rag"
        BY <2>2, <3>1, GeneratedIsText DEF GenerateFails, CiteInv
      <3>2. CASE mode # "rag"
        BY <2>2, <3>2 DEF GenerateFails, CiteInv, StoredIsCited, Unlisted
      <3> QED
        BY <3>1, <3>2
    <2>3. CASE CheckCitations
      <3>1. /\ step = "check" /\ text = raw
            /\ UNCHANGED <<mode, quoting, raw, text, persisted, stored>>
        BY <2>3 DEF CheckCitations, CiteInv
      <3>2. PICK supported \in BOOLEAN :
               /\ valid' = (CitationsValid(raw) /\ supported)
               /\ step' = IF valid' THEN "substance" ELSE "repair"
        BY <2>3 DEF CheckCitations
      <3>3. CASE CitationsValid(raw) /\ supported
        <4>1. valid' = TRUE /\ step' = "substance"
          BY <3>2, <3>3
        <4>2. Verdict(text, valid)'
          BY <2>s, <3>1, <3>3, <4>1 DEF Verdict
        <4>3. (Unlisted(text) \/ text = raw)'
          BY <3>1
        <4> QED
          BY <3>1, <4>1, <4>2, <4>3 DEF CiteInv
      <3>4. CASE ~(CitationsValid(raw) /\ supported)
        <4>1. step' = "repair"
          BY <3>2, <3>4
        <4> QED
          BY <3>1, <4>1 DEF CiteInv
      <3> QED
        BY <3>3, <3>4
    <2>4. CASE Repair
      <3> DEFINE repaired == Repaired(raw)
      <3>1. /\ step = "repair" /\ step' = "substance" /\ UNCHANGED <<mode, quoting, raw, persisted, stored>>
            /\ valid' = CitationsValid(text')
        BY <2>4 DEF Repair
      <3>2. \/ CitationsValid(repaired) /\ text' = repaired
            \/ ~CitationsValid(repaired) /\ InChat /\ text' = Fallback
            \/ ~CitationsValid(repaired) /\ ~InChat /\ text' = Refusal
        BY <2>4 DEF Repair
      <3>u. (Unlisted(text) \/ text = raw)'
        BY <2>r, <3>2, ExceptionsUnlisted DEF Unlisted
      <3> HIDE DEF repaired
      <3>3. Verdict(text, valid)'
        <4>1. CASE CitationsValid(text')
          <5>1. valid' = TRUE
            BY <3>1, <4>1 DEF CitationsValid
          <5> QED
            BY <2>s, <3>1, <4>1, <5>1 DEF Verdict, CitationsValid
        <4>2. CASE ~CitationsValid(text')
          <5>1. valid' = FALSE
            BY <3>1, <4>2 DEF CitationsValid
          <5>2. \/ InChat /\ text' = Fallback /\ quoting
                \/ ~InChat /\ text' = Refusal
            BY <2>f, <3>1, <3>2, <4>2 DEF InChat, CitationsValid
          <5>3. Refusal' = Refusal
            BY DEF Refusal
          <5> QED
            BY <2>s, <3>1, <5>1, <5>2, <5>3 DEF Verdict
        <4> QED
          BY <4>1, <4>2
      <3> QED
        BY <3>1, <3>3, <3>u DEF CiteInv
    <2>5. CASE RequireSubstance
      <3>1. /\ step = "substance" /\ step' = "persist" /\ UNCHANGED <<mode, quoting, raw, persisted, stored>>
        BY <2>5 DEF RequireSubstance
      <3>2. CASE (~InChat \/ Substantive(text)) /\ UNCHANGED <<text, valid>>
        <4>1. Verdict(text, valid)'
          BY <2>s, <3>1, <3>2 DEF Verdict, CiteInv, Refusal
        <4>2. InChat' => Substantive(text)'
          BY <2>s, <3>1, <3>2 DEF Substantive
        <4>3. (Unlisted(text) \/ text = raw)'
          BY <3>1, <3>2 DEF CiteInv, Unlisted
        <4> QED
          BY <3>1, <4>1, <4>2, <4>3 DEF CiteInv
      <3>3. CASE InChat /\ text' = Fallback /\ valid' = CitationsValid(Fallback)
        <4>1. Verdict(text, valid)'
          <5>1. CASE quoting
            <6>1. valid' = FALSE
              BY <2>f, <3>3, <5>1 DEF CitationsValid
            <6> QED
              BY <2>s, <3>1, <3>3, <5>1, <6>1 DEF Verdict
          <5>2. CASE ~quoting
            <6>1. valid' = TRUE /\ CitationsValid(Fallback)
              BY <2>f, <3>3, <5>2 DEF CitationsValid, InChat
            <6> QED
              BY <2>s, <3>1, <3>3, <6>1 DEF Verdict, CitationsValid
          <5> QED
            BY <5>1, <5>2
        <4>2. Substantive(text)'
          BY <2>f, <3>3 DEF Substantive
        <4>3. (Unlisted(text) \/ text = raw)'
          BY <3>3, ExceptionsUnlisted DEF Unlisted
        <4> QED
          BY <3>1, <4>1, <4>2, <4>3 DEF CiteInv
      <3> QED
        BY <2>5, <3>2, <3>3 DEF RequireSubstance
    <2>6. CASE PersistAnswer
      <3>1. /\ step = "persist" /\ step' = "store" /\ persisted' = text
            /\ UNCHANGED <<mode, quoting, raw, text, valid, stored>>
        BY <2>6 DEF PersistAnswer
      <3>2. Verdict(text, valid)' /\ (InChat' => Substantive(text)')
        BY <2>s, <3>1 DEF Verdict, CiteInv, Refusal, Substantive
      <3>3. (Unlisted(text) \/ text = raw)'
        BY <3>1 DEF CiteInv, Unlisted
      <3> QED
        BY <3>1, <3>2, <3>3 DEF CiteInv
    <2>7. CASE StoreAnswer
      <3>1. /\ step = "store" /\ step' = "done" /\ stored' = (InChat /\ valid)
            /\ UNCHANGED <<mode, quoting, raw, text, valid, persisted>>
        BY <2>7 DEF StoreAnswer
      <3>2. /\ Sound(text) \/ (text = Fallback /\ quoting) \/ (text = Refusal /\ ~InChat)
            /\ valid => Sound(text)
            /\ InChat => Substantive(text)
            /\ persisted = text
            /\ Unlisted(text) \/ text = raw
        BY <3>1, VerdictIsSound DEF CiteInv
      <3>3. StoredIsCited'
        BY <2>s, <3>1, <3>2 DEF StoredIsCited, Sound, Substantive, Refusal, Unlisted
      <3> QED
        BY <3>1, <3>3 DEF CiteInv
    <2>8. CASE UNCHANGED citeVars
      BY <2>8 DEF citeVars, CiteInv, Verdict, Substantive, StoredIsCited, Sound, Fallback, Refusal,
                  CitationsValid, InChat, Unlisted
    <2> QED
      BY <2>1, <2>2, <2>3, <2>4, <2>5, <2>6, <2>7, <2>8 DEF CiteNext
  <1> QED
    BY <1>1, <1>2, PTL DEF CiteSpec

\* Whatever the model writes, of whatever length, and whatever the judge says: outside of list
\* items no claim without a reference to an existing source is persisted or cached, but for the
\* named exceptions, and a list item without one only in an answer that is stored as generated.
THEOREM StoredAnswersAreCited == CiteSpec => []StoredIsCited
  <1>1. ASSUME CiteInv PROVE StoredIsCited
    <2>1. CASE step \in {"generate", "check", "repair", "substance", "persist"}
      BY <1>1, <2>1, ExceptionsUnlisted DEF CiteInv, StoredIsCited
    <2>2. CASE step = "store"
      BY <1>1, <2>2, VerdictIsSound DEF CiteInv, StoredIsCited
    <2> QED
      BY <1>1, <2>1, <2>2 DEF CiteInv
  <1> QED
    BY <1>1, CiteInvariant, PTL

\* A text that keeps the references of the generated one, or stands in for it.
Keeping(K, s) == References(K, s) = References(K, raw)
Faithful(s) ==
    \/ s \in {Fallback, Refusal}
    \/ /\ Keeping({"cited", "marks"}, s)
       /\ Of(Kinds \ Fences, raw) => Keeping({"cited", "marks", "span"}, s)
\* From the check to the database the text is faithful.
FaithInv ==
    /\ step \in {"substance", "persist", "store"} => Faithful(text)
    /\ RepairKeepsSupported

\* Whatever is persisted, every line with a valid reference that the model wrote is in it, in
\* its place among the others, or the whole answer gave way: for texts of any length.
LEMMA FaithInvariant == CiteSpec => []FaithInv
  <1>1. CiteInit => FaithInv
    BY DEF CiteInit, FaithInv, RepairKeepsSupported
  <1>2. CiteInv /\ FaithInv /\ [CiteNext]_citeVars => FaithInv'
    <2> SUFFICES ASSUME CiteInv, FaithInv, [CiteNext]_citeVars PROVE FaithInv'
      OBVIOUS
    <2>t. raw \in Seq(Kinds)
      BY DEF CiteInv
    <2>s. ASSUME UNCHANGED <<raw, quoting>>
          PROVE  /\ Fallback' = Fallback /\ Refusal' = Refusal
                 /\ UNCHANGED persisted => RepairKeepsSupported'
                 /\ UNCHANGED text => (Faithful(text)' <=> Faithful(text))
      <3>1. Fallback' = Fallback /\ Refusal' = Refusal
        BY <2>s DEF Fallback, Refusal
      <3>2. ASSUME UNCHANGED persisted PROVE RepairKeepsSupported'
        BY <2>s, <3>1, <3>2 DEF FaithInv, RepairKeepsSupported
      <3>3. ASSUME UNCHANGED text PROVE Faithful(text)' <=> Faithful(text)
        BY <2>s, <3>1, <3>3 DEF Faithful, Keeping, Of
      <3> QED
        BY <3>1, <3>2, <3>3
    <2>1. CASE Generate \/ GenerateFails
      <3>1. persisted' = <<>> /\ step' \in {"check", "done"}
        BY <2>1 DEF Generate, GenerateFails, CiteInv
      <3> QED
        BY <3>1 DEF FaithInv, RepairKeepsSupported
    <2>3. CASE CheckCitations
      <3>1. /\ text = raw /\ step' \in {"substance", "repair"}
            /\ UNCHANGED <<quoting, raw, text, persisted>>
        BY <2>3 DEF CheckCitations, CiteInv
      <3>2. Faithful(text)'
        BY <3>1 DEF Faithful, Keeping, Of
      <3> QED
        BY <2>s, <3>1, <3>2 DEF FaithInv
    <2>4. CASE Repair
      <3>1. step' = "substance" /\ UNCHANGED <<quoting, raw, persisted>>
        BY <2>4 DEF Repair
      <3>2. \/ CitationsValid(Repaired(raw)) /\ text' = Repaired(raw)
            \/ text' = Fallback
            \/ text' = Refusal
        BY <2>4 DEF Repair
      <3>3. ASSUME CitationsValid(Repaired(raw)) PROVE Faithful(Repaired(raw))
        <4>1. mode # "bare"
          BY <3>3 DEF CitationsValid
        <4>2. {"cited", "marks"} \in RefKinds /\ "span" \notin {"cited", "marks"}
              /\ {"cited", "marks", "span"} \in RefKinds
          BY DEF RefKinds
        <4>3. Keeping({"cited", "marks"}, Repaired(raw))
          BY <2>t, <4>1, <4>2, RepairedReferences DEF Keeping
        <4>4. ASSUME Of(Kinds \ Fences, raw) PROVE Keeping({"cited", "marks", "span"}, Repaired(raw))
          BY <2>t, <4>1, <4>2, <4>4, RepairedReferences DEF Keeping
        <4> QED
          BY <4>3, <4>4 DEF Faithful
      <3>4. Faithful(text)'
        <4>1. Faithful(text')
          BY <3>2, <3>3 DEF Faithful
        <4> QED
          BY <2>s, <3>1, <4>1 DEF Faithful, Keeping, Of
      <3> QED
        BY <2>s, <3>1, <3>4 DEF FaithInv
    <2>5. CASE RequireSubstance
      <3>1. /\ step = "substance" /\ step' = "persist" /\ UNCHANGED <<quoting, raw, persisted>>
            /\ text' = text \/ text' = Fallback
        BY <2>5 DEF RequireSubstance
      <3>2. Faithful(text)'
        <4>1. CASE text' = text
          BY <2>s, <3>1, <4>1 DEF FaithInv
        <4>2. CASE text' = Fallback
          BY <2>s, <3>1, <4>2 DEF Faithful
        <4> QED
          BY <3>1, <4>1, <4>2
      <3> QED
        BY <2>s, <3>1, <3>2 DEF FaithInv
    <2>6. CASE PersistAnswer
      <3>1. /\ step = "persist" /\ step' = "store" /\ persisted' = text
            /\ UNCHANGED <<quoting, raw, text>>
        BY <2>6 DEF PersistAnswer
      <3>2. Faithful(text)' /\ persisted' = text'
        BY <2>s, <3>1 DEF FaithInv
      <3>3. (\A i \in DOMAIN raw' : raw'[i] \notin Fences) => Of(Kinds \ Fences, raw)'
        BY <2>t, <3>1 DEF Of
      <3>4. RepairKeepsSupported'
        BY <3>2, <3>3 DEF Faithful, Keeping, RepairKeepsSupported
      <3> QED
        BY <3>2, <3>4 DEF FaithInv
    <2>7. CASE StoreAnswer \/ UNCHANGED citeVars
      <3>1. /\ UNCHANGED <<quoting, raw, text, persisted>>
            /\ step' \in {"substance", "persist", "store"} => step \in {"substance", "persist", "store"}
        BY <2>7 DEF StoreAnswer, citeVars
      <3> QED
        BY <2>s, <3>1 DEF FaithInv
    <2> QED
      BY <2>1, <2>3, <2>4, <2>5, <2>6, <2>7 DEF CiteNext
  <1> QED
    BY <1>1, <1>2, CiteInvariant, PTL DEF CiteSpec

\* Repair never loses a line whose references are valid and have no ``` before them, nor changes
\* their order, and loses no line with valid references at all in a text without code blocks:
\* what is persisted keeps all of them, or is the quotation of the sources or the refusal.
THEOREM RepairKeepsSupport == CiteSpec => []RepairKeepsSupported
  <1>1. FaithInv => RepairKeepsSupported
    BY DEF FaithInv
  <1> QED
    BY <1>1, FaithInvariant, PTL

\* Whatever the model writes, every stage of an answer hands on a text and a verdict.
THEOREM CiteTypeCorrect == CiteSpec => []CiteTypeOK
  <1>k. Fallback \in Seq(Kinds) /\ Refusal \in Seq(Kinds)
    BY GeneratedIsText
  <1>v. \A s : CitationsValid(s) \in BOOLEAN
    BY DEF CitationsValid
  <1>1. CiteInit => CiteTypeOK
    <2>1. <<>> \in Seq(Kinds)
      OBVIOUS
    <2> HIDE DEF Kinds
    <2> QED
      BY <2>1 DEF CiteInit, CiteTypeOK
  <1>2. CiteTypeOK /\ [CiteNext]_citeVars => CiteTypeOK'
    <2> SUFFICES ASSUME CiteTypeOK, [CiteNext]_citeVars PROVE CiteTypeOK'
      OBVIOUS
    <2> USE DEF CiteTypeOK
    <2>1. CASE Generate
      <3>1. PICK s \in SeqOf(Generated, MaxLines) : raw' = s /\ text' = s
        BY <2>1 DEF Generate
      <3>2. s \in Seq(Kinds)
        BY GeneratedIsText
      <3> QED
        BY <2>1, <3>1, <3>2 DEF Generate
    <2>2. CASE GenerateFails
      BY <1>k, <2>2 DEF GenerateFails
    <2>3. CASE CheckCitations
      BY <1>v, <2>3 DEF CheckCitations
    <2>4. CASE Repair
      BY <1>k, <2>4, <1>v, RepairedIsText DEF Repair
    <2>5. CASE RequireSubstance
      BY <1>k, <1>v, <2>5 DEF RequireSubstance
    <2>6. CASE PersistAnswer \/ StoreAnswer \/ UNCHANGED citeVars
      BY <2>6 DEF PersistAnswer, StoreAnswer, citeVars
    <2> QED
      BY <2>1, <2>2, <2>3, <2>4, <2>5, <2>6 DEF CiteNext
  <1> QED
    BY <1>1, <1>2, PTL DEF CiteSpec

-----------------------------------------------------------------------------
(* The semantic answer cache.                                                *)

\* What explains an entry of the cache of a user.
Explained(u, e) ==
    \/ Current(e) \/ e.late \/ u \in missed
    \/ \E j \in DOMAIN invalidations : u \in invalidations[j]
\* The inductive invariant of the cache: a running invalidation explains the entries of the
\* keys it has still to delete.
CacheInv ==
    /\ CacheTypeOK /\ cache \in [Readers -> Seq(Entry)]
    /\ \A u \in Readers : \A i \in 1..Len(cache[u]) : Explained(u, cache[u][i])
    /\ SuspiciousWasReviewed

\* An invalidation that goes leaves the others where they were, one place earlier.
LEMMA OthersRemain ==
  ASSUME NEW S, NEW s \in Seq(S), NEW i \in DOMAIN s
  PROVE  /\ RemoveAt(s, i) \in Seq(S)
         /\ \A j \in DOMAIN s : j # i => \E k \in DOMAIN RemoveAt(s, i) : RemoveAt(s, i)[k] = s[j]
  <1> DEFINE a == SubSeq(s, 1, i - 1)
             b == SubSeq(s, i + 1, Len(s))
  <1>0. Len(s) \in Nat /\ i \in 1..Len(s) /\ DOMAIN s = 1..Len(s)
    OBVIOUS
  <1>1. /\ a \in Seq(S) /\ Len(a) = i - 1 /\ \A k \in 1..i - 1 : a[k] = s[k]
    BY <1>0
  <1>2. /\ b \in Seq(S) /\ Len(b) = Len(s) - i /\ \A k \in 1..Len(b) : b[k] = s[i + k]
    <2>1. /\ b \in Seq(S)
          /\ Len(b) = (IF i + 1 <= Len(s) THEN Len(s) - (i + 1) + 1 ELSE 0)
          /\ \A k \in 1..Len(b) : b[k] = s[i + 1 + k - 1]
      BY <1>0, SubSeqProperties
    <2>2. Len(b) = Len(s) - i
      BY <1>0, <2>1
    <2>3. \A k \in 1..Len(b) : i + 1 + k - 1 = i + k
      BY <1>0, <2>2
    <2> QED
      BY <2>1, <2>2, <2>3
  <1>3. RemoveAt(s, i) = a \o b
    BY DEF RemoveAt
  <1> HIDE DEF a, b
  <1>4. /\ a \o b \in Seq(S) /\ Len(a \o b) = Len(s) - 1
        /\ \A k \in 1..Len(s) - 1 : (a \o b)[k] = IF k <= i - 1 THEN a[k] ELSE b[k - (i - 1)]
    <2>1. Len(a) + Len(b) = Len(s) - 1
      BY <1>0, <1>1, <1>2
    <2>2. /\ a \o b \in Seq(S) /\ Len(a \o b) = Len(a) + Len(b)
          /\ \A k \in 1..Len(a) + Len(b) :
                (a \o b)[k] = IF k <= Len(a) THEN a[k] ELSE b[k - Len(a)]
      BY <1>1, <1>2, ConcatProperties
    <2> QED
      BY <1>1, <2>1, <2>2
  <1>d. DOMAIN (a \o b) = 1..Len(s) - 1
    BY <1>4
  <1>5. ASSUME NEW j \in DOMAIN s, j # i
        PROVE  \E k \in DOMAIN (a \o b) : (a \o b)[k] = s[j]
    <2>1. CASE j < i
      <3>1. j \in 1..Len(s) - 1 /\ (a \o b)[j] = s[j]
        BY <1>0, <1>1, <1>4, <2>1
      <3> QED
        BY <1>d, <3>1
    <2>2. CASE j > i
      <3>1. j - 1 \in 1..Len(s) - 1 /\ j - i \in 1..Len(s) - i /\ ~(j - 1 <= i - 1)
        BY <1>0, <2>2
      <3>2. (a \o b)[j - 1] = s[j]
        <4>1. (a \o b)[j - 1] = b[j - 1 - (i - 1)]
          BY <1>4, <3>1
        <4>2. j - 1 - (i - 1) = j - i /\ i + (j - i) = j /\ j - i \in 1..Len(b)
          BY <1>0, <1>2, <3>1
        <4> QED
          BY <1>2, <4>1, <4>2
      <3> QED
        BY <1>d, <3>1, <3>2
    <2> QED
      BY <1>0, <1>5, <2>1, <2>2
  <1> QED
    BY <1>3, <1>4, <1>5

\* The types the steps below rely on.
LEMMA CacheFacts ==
  ASSUME CacheConstants, CacheInv
  PROVE  /\ epoch \in 0..MaxEpoch /\ approved \in 0..MaxEpoch /\ release \in 0..MaxEpoch
         /\ gone \in BOOLEAN /\ quarantined \in BOOLEAN /\ scanned \in BOOLEAN /\ overtaken \in BOOLEAN
         /\ cache \in [Readers -> Seq(Entry)] /\ \A u \in Readers : Len(cache[u]) <= CacheSize
         /\ asker \in [Askers -> Asking]
         /\ invalidations \in Seq(SUBSET Readers) /\ missed \subseteq Readers
         /\ cacheFaults \in 0..MaxCacheFaults /\ (CacheFault => cacheFaults' \in 0..MaxCacheFaults)
         /\ NoEntry \in Entry /\ IdleAsker \in Asking
         /\ CacheSize \in Nat \ {0} /\ MaxEpoch \in Nat /\ ReaderOf \in [Askers -> Readers]
  <1>1. NoEntry \in Entry
    BY DEF NoEntry, Entry, CacheConstants
  <1>2. IdleAsker \in Asking
    BY <1>1 DEF IdleAsker, Asking
  <1> QED
    BY <1>1, <1>2 DEF CacheInv, CacheTypeOK, CacheFault, CacheConstants

\* An entry stays explained when nothing it is explained by goes.
LEMMA StaysExplained ==
  ASSUME NEW u, NEW e, Explained(u, e),
         Current(e) => Current(e)' \/ \E j \in DOMAIN invalidations' : u \in invalidations'[j],
         u \in missed => u \in missed',
         (\E j \in DOMAIN invalidations : u \in invalidations[j])
           => \/ u \in missed'
              \/ \E j \in DOMAIN invalidations' : u \in invalidations'[j]
  PROVE  Explained(u, e)'
  BY DEF Explained

\* Nothing is cached at first.
LEMMA CacheInitInv == CacheConstants /\ CacheInit => CacheInv
  <1> SUFFICES ASSUME CacheConstants, CacheInit PROVE CacheInv
    OBVIOUS
  <1>1. <<>> \in Seq(Entry) /\ <<>> \in Seq(SUBSET Readers) /\ Len(<<>>) = 0
    OBVIOUS
  <1>2. NoEntry \in Entry
    BY DEF NoEntry, Entry, CacheConstants
  <1>3. IdleAsker \in Asking
    BY <1>2 DEF IdleAsker, Asking
  <1>4. /\ epoch \in 0..MaxEpoch /\ approved \in 0..MaxEpoch /\ release \in 0..MaxEpoch
        /\ cacheFaults \in 0..MaxCacheFaults /\ 0 <= CacheSize
    BY DEF CacheInit, CacheConstants
  <1>5. cache \in [Readers -> Seq(Entry)] /\ \A u \in Readers : cache[u] = <<>>
    BY <1>1 DEF CacheInit
  <1>6. CacheTypeOK
    BY <1>1, <1>3, <1>4, <1>5 DEF CacheInit, CacheTypeOK
  <1> QED
    BY <1>1, <1>5, <1>6 DEF CacheInit, CacheInv, SuspiciousWasReviewed

\* The steps of a request: what is stored is current, or marked as late.
\* A step that leaves every entry it keeps explained.
LEMMA CacheStep ==
  ASSUME CacheConstants, CacheInv, NEW c \in [Readers -> Seq(Entry)], cache' = c,
         \A v \in Readers : Len(c[v]) <= CacheSize,
         \A v \in Readers : \A i \in 1..Len(c[v]) : Explained(v, c[v][i])',
         epoch' \in 0..MaxEpoch, approved' \in 0..MaxEpoch, release' \in 0..MaxEpoch,
         gone' \in BOOLEAN, quarantined' \in BOOLEAN, scanned' \in BOOLEAN, overtaken' \in BOOLEAN,
         asker' \in [Askers -> Asking], invalidations' \in Seq(SUBSET Readers),
         missed' \subseteq Readers, cacheFaults' \in 0..MaxCacheFaults, SuspiciousWasReviewed'
  PROVE  CacheInv'
  <1>1. CacheTypeOK'
    BY DEF CacheTypeOK
  <1>2. \A v \in Readers : \A i \in 1..Len(cache[v])' : Explained(v, cache[v][i])'
    BY DEF Explained, Current
  <1> QED
    BY <1>1, <1>2 DEF CacheInv

\* The steps of a request: lookup, retrieval, storing, serving.
LEMMA AskerKeeps ==
  ASSUME CacheConstants, CacheInv, NEW a \in Askers,
         Lookup(a) \/ Retrieve(a) \/ Store(a) \/ Delivered(a)
  PROVE  CacheInv'
  <1> DEFINE x == asker[a]
             u == ReaderOf[a]
  <1>0. /\ UNCHANGED <<epoch, gone, quarantined, scanned, approved, invalidations, release,
                       missed, overtaken>>
    BY DEF Lookup, Retrieve, Store, Delivered
  <1>f. /\ cache \in [Readers -> Seq(Entry)] /\ \A v \in Readers : Len(cache[v]) <= CacheSize
        /\ asker \in [Askers -> Asking] /\ x \in Asking /\ u \in Readers
        /\ NoEntry \in Entry /\ IdleAsker \in Asking /\ CacheSize \in Nat \ {0}
        /\ epoch \in 0..MaxEpoch
    BY CacheFacts
  <1>1. asker' \in [Askers -> Asking]
    <2>1. CASE Lookup(a)
      <3> DEFINE e == cache[u][1]
      <3>1. cache[u] # <<>> => e \in Entry
        BY <1>f
      <3> HIDE DEF e
      <3>2. cache[u] # <<>> => [pc |-> "served", entry |-> e] \in Asking
        BY <3>1 DEF Asking
      <3>3. [x EXCEPT !.pc = "missed"] \in Asking
        BY <1>f DEF Asking
      <3>4. \E y \in Asking : asker' = [asker EXCEPT ![a] = y]
        <4>1. \/ asker' = [asker EXCEPT ![a] = [x EXCEPT !.pc = "missed"]]
              \/ cache[u] # <<>> /\ asker' = [asker EXCEPT ![a] = [pc |-> "served", entry |-> e]]
          BY <2>1, <1>f DEF Lookup, e
        <4> QED
          BY <3>2, <3>3, <4>1
      <3> QED
        BY <1>f, <3>4
    <2>2. CASE Retrieve(a)
      <3> DEFINE e == [NoEntry EXCEPT !.epoch = epoch]
      <3>1. e \in Entry
        BY <1>f DEF Entry
      <3> HIDE DEF e
      <3>2. [pc |-> "read", entry |-> e] \in Asking
        BY <3>1 DEF Asking
      <3>3. \/ asker' = [asker EXCEPT ![a] = IdleAsker]
            \/ asker' = [asker EXCEPT ![a] = [pc |-> "read", entry |-> e]]
        BY <2>2 DEF Retrieve, e
      <3> QED
        BY <1>f, <3>2, <3>3
    <2>3. CASE Store(a) \/ Delivered(a)
      <3>1. asker' = [asker EXCEPT ![a] = IdleAsker]
        BY <2>3 DEF Store, Delivered
      <3> QED
        BY <1>f, <3>1
    <2> QED
      BY <2>1, <2>2, <2>3
  <1>2. cacheFaults' \in 0..MaxCacheFaults
    BY CacheFacts DEF Lookup, Retrieve, Store, Delivered
  <1>3. ASSUME NEW v, NEW e, Explained(v, e) PROVE Explained(v, e)'
    BY <1>0, <1>3 DEF Explained, Current
  <1>4. CASE cache' = cache
    <2>1. \A v \in Readers : \A i \in 1..Len(cache'[v]) : Explained(v, cache[v][i])
      BY <1>4 DEF CacheInv
    <2>2. \A v \in Readers : \A i \in 1..Len(cache'[v]) : Explained(v, cache[v][i])'
      BY <1>3, <1>4, <2>1
    <2> QED
      BY <1>0, <1>1, <1>2, <1>4, <2>2 DEF CacheInv, CacheTypeOK, SuspiciousWasReviewed
  <1>5. CASE Store(a) /\ cache' # cache
    <2> DEFINE late == x.entry.epoch # epoch \/ gone \/ quarantined
               e == [x.entry EXCEPT !.late = late]
               s == <<e>> \o cache[u]
    <2>1. cache' = [cache EXCEPT ![u] = Newest(s)]
      BY <1>5, <1>f DEF Store
    <2>2. e \in Entry /\ e.epoch = x.entry.epoch /\ e.late = late
      <3>1. late \in BOOLEAN
        OBVIOUS
      <3>2. x.entry \in Entry
        BY <1>f DEF Asking
      <3> HIDE DEF late
      <3> QED
        BY <3>1, <3>2 DEF Entry
    <2>3. Explained(u, e)
      <3>1. late \/ Current(e)
        BY <2>2 DEF Current
      <3> HIDE DEF e, late
      <3> QED
        BY <2>2, <3>1 DEF Explained
    <2> HIDE DEF e
    <2>4. /\ s \in Seq(Entry) /\ Len(s) = Len(cache[u]) + 1 /\ s[1] = e
          /\ \A i \in 2..Len(s) : s[i] = cache[u][i - 1]
      BY <1>f, <2>2
    <2>5. \A i \in 1..Len(s) : Explained(u, s[i])
      <3> SUFFICES ASSUME NEW i \in 1..Len(s) PROVE Explained(u, s[i])
        OBVIOUS
      <3>1. CASE i = 1
        BY <2>3, <2>4, <3>1
      <3>2. CASE i # 1
        <4>1. i \in 2..Len(s) /\ i - 1 \in 1..Len(cache[u])
          BY <1>f, <2>4, <3>2
        <4>2. Explained(u, cache[u][i - 1])
          BY <1>f, <4>1 DEF CacheInv
        <4> QED
          BY <2>4, <4>1, <4>2
      <3> QED
        BY <3>1, <3>2
    <2> HIDE DEF s
    <2>6. /\ Newest(s) \in Seq(Entry) /\ Len(Newest(s)) <= CacheSize
          /\ Len(Newest(s)) <= Len(s) /\ \A i \in 1..Len(Newest(s)) : Newest(s)[i] = s[i]
      BY <1>f, <2>4 DEF Newest
    <2>7. PICK z \in Seq(Entry) : z = Newest(s)
      BY <2>6
    <2>8. \A i \in 1..Len(z) : Explained(u, z[i])'
      <3> SUFFICES ASSUME NEW i \in 1..Len(z) PROVE Explained(u, z[i])'
        BY <1>f
      <3>1. Explained(u, z[i])
        BY <1>f, <2>4, <2>5, <2>6, <2>7
      <3> QED
        BY <1>3, <3>1
    <2> DEFINE c == [cache EXCEPT ![u] = z]
    <2>9. /\ c \in [Readers -> Seq(Entry)] /\ cache' = c
          /\ \A v \in Readers : c[v] = IF v = u THEN z ELSE cache[v]
      BY <1>f, <2>1, <2>7
    <2>p. PICK d \in [Readers -> Seq(Entry)] : d = c
      BY <2>9
    <2> HIDE DEF c
    <2>10. \A v \in Readers : Len(d[v]) <= CacheSize
      BY <1>f, <2>6, <2>7, <2>9, <2>p
    <2>11. \A v \in Readers : \A i \in 1..Len(d[v]) : Explained(v, d[v][i])'
      <3> SUFFICES ASSUME NEW v \in Readers, NEW i \in 1..Len(d[v]) PROVE Explained(v, d[v][i])'
        OBVIOUS
      <3>1. CASE v = u
        <4>1. d[v] = z
          BY <2>9, <2>p, <3>1
        <4>2. Explained(u, z[i])'
          BY <2>8, <4>1
        <4> QED
          BY <3>1, <4>1, <4>2 DEF Explained, Current
      <3>2. CASE v # u
        <4>1. d[v] = cache[v]
          BY <2>9, <2>p, <3>2
        <4>2. Explained(v, d[v][i])
          BY <4>1 DEF CacheInv
        <4> QED
          BY <1>3, <4>2
      <3> QED
        BY <3>1, <3>2
    <2> QED
      BY <1>0, <1>1, <1>2, <2>9, <2>p, <2>10, <2>11, CacheFacts, CacheStep DEF CacheInv, SuspiciousWasReviewed
  <1> QED
    BY <1>4, <1>5 DEF Lookup, Retrieve, Store, Delivered

\* A change of what is on line: every key is to be deleted from then on.
LEMMA ChangeKeeps ==
  ASSUME CacheConstants, CacheInv,
         \/ \E q \in BOOLEAN : GoOnline(q)
         \/ GoOffline \/ ReadQuarantined \/ ReleaseQuarantined
  PROVE  CacheInv'
  <1>f. /\ cache \in [Readers -> Seq(Entry)] /\ \A v \in Readers : Len(cache[v]) <= CacheSize
        /\ asker \in [Askers -> Asking] /\ invalidations \in Seq(SUBSET Readers)
        /\ missed \subseteq Readers /\ cacheFaults \in 0..MaxCacheFaults
        /\ epoch \in 0..MaxEpoch /\ approved \in 0..MaxEpoch /\ release \in 0..MaxEpoch
        /\ MaxEpoch \in Nat
        /\ gone \in BOOLEAN /\ quarantined \in BOOLEAN /\ scanned \in BOOLEAN /\ overtaken \in BOOLEAN
    BY CacheFacts
  <1>0. UNCHANGED <<cache, asker, missed, cacheFaults>>
    BY DEF GoOnline, GoOffline, ReadQuarantined, ReleaseQuarantined
  <1>1. /\ epoch' \in 0..MaxEpoch /\ approved' \in 0..MaxEpoch /\ release' \in 0..MaxEpoch
        /\ gone' \in BOOLEAN /\ quarantined' \in BOOLEAN /\ scanned' \in BOOLEAN
        /\ overtaken' \in BOOLEAN
    <2>1. CASE \E q \in BOOLEAN : GoOnline(q)
      <3>1. PICK q \in BOOLEAN : GoOnline(q)
        BY <2>1
      <3>2. /\ epoch' = epoch + 1 /\ epoch < MaxEpoch /\ quarantined' = q /\ scanned' = q
            /\ overtaken' = FALSE /\ UNCHANGED <<gone, approved, release>>
        BY <3>1 DEF GoOnline
      <3>3. epoch + 1 \in 0..MaxEpoch
        BY <1>f, <3>2
      <3> QED
        BY <1>f, <3>2, <3>3
    <2>2. CASE GoOffline \/ ReadQuarantined
      BY <1>f, <2>2 DEF GoOffline, ReadQuarantined
    <2>3. CASE ReleaseQuarantined
      <3> DEFINE over == release # epoch
      <3>1. over \in BOOLEAN
        OBVIOUS
      <3> HIDE DEF over
      <3>2. /\ quarantined' = FALSE /\ approved' = release /\ overtaken' = over /\ release' = 0
            /\ UNCHANGED <<epoch, gone, scanned>>
        BY <2>3 DEF ReleaseQuarantined, over
      <3>3. 0 \in 0..MaxEpoch
        BY <1>f
      <3> QED
        BY <1>f, <3>1, <3>2, <3>3
    <2> QED
      BY <2>1, <2>2, <2>3
  <1>2. SuspiciousWasReviewed'
    <2>1. CASE \E q \in BOOLEAN : GoOnline(q)
      <3>1. PICK q \in BOOLEAN : quarantined' = q /\ scanned' = q
        BY <2>1 DEF GoOnline
      <3> QED
        BY <3>1 DEF SuspiciousWasReviewed
    <2>2. CASE GoOffline \/ ReadQuarantined
      BY <2>2 DEF GoOffline, ReadQuarantined, SuspiciousWasReviewed, CacheInv
    <2>3. CASE ReleaseQuarantined
      <3>1. approved' = release /\ epoch' = epoch /\ overtaken' = (release # epoch)
        BY <2>3 DEF ReleaseQuarantined
      <3>2. CASE release = epoch
        BY <3>1, <3>2 DEF SuspiciousWasReviewed
      <3>3. CASE release # epoch
        BY <3>1, <3>3 DEF SuspiciousWasReviewed
      <3> QED
        BY <3>2, <3>3
    <2> QED
      BY <2>1, <2>2, <2>3
  <1>3. /\ invalidations' \in Seq(SUBSET Readers)
        /\ \A v \in Readers, e \in Entry : Explained(v, e) => Explained(v, e)'
    <2>1. CASE ReadQuarantined
      <3>1. UNCHANGED <<epoch, gone, quarantined, missed, invalidations>>
        BY <2>1 DEF ReadQuarantined
      <3> QED
        BY <1>f, <3>1 DEF Explained, Current
    <2>2. CASE ~ReadQuarantined
      <3>1. invalidations' = Append(invalidations, Readers)
        BY <2>2 DEF GoOnline, GoOffline, ReleaseQuarantined
      <3> DEFINE n == Len(invalidations) + 1
      <3>2. /\ invalidations' \in Seq(SUBSET Readers)
            /\ n \in DOMAIN invalidations' /\ invalidations'[n] = Readers
        BY <1>f, <3>1
      <3> HIDE DEF n
      <3> QED
        BY <3>2 DEF Explained
    <2> QED
      BY <2>1, <2>2
  <1>4. PICK c \in [Readers -> Seq(Entry)] : c = cache
    BY <1>f
  <1>5. \A v \in Readers : \A i \in 1..Len(c[v]) : Explained(v, c[v][i])'
    <2> SUFFICES ASSUME NEW v \in Readers, NEW i \in 1..Len(c[v]) PROVE Explained(v, c[v][i])'
      OBVIOUS
    <2>1. c[v][i] \in Entry /\ Explained(v, c[v][i])
      BY <1>4 DEF CacheInv
    <2> QED
      BY <1>3, <2>1
  <1> QED
    BY <1>f, <1>0, <1>1, <1>2, <1>3, <1>4, <1>5, CacheStep

\* An invalidation empties the keys it is done with, and answers for the others until it
\* fails; then they are counted as missed.
LEMMA InvalidationKeeps ==
  ASSUME CacheConstants, CacheInv, NEW i \in DOMAIN invalidations,
         InvalidationFails(i) \/ \E u \in Readers : DeleteKey(i, u)
  PROVE  CacheInv'
  <1>f. /\ cache \in [Readers -> Seq(Entry)] /\ \A v \in Readers : Len(cache[v]) <= CacheSize
        /\ asker \in [Askers -> Asking] /\ invalidations \in Seq(SUBSET Readers)
        /\ missed \subseteq Readers /\ cacheFaults \in 0..MaxCacheFaults
        /\ epoch \in 0..MaxEpoch /\ approved \in 0..MaxEpoch /\ release \in 0..MaxEpoch
        /\ gone \in BOOLEAN /\ quarantined \in BOOLEAN /\ scanned \in BOOLEAN /\ overtaken \in BOOLEAN
        /\ CacheSize \in Nat
    BY CacheFacts
  <1>0. UNCHANGED <<epoch, gone, quarantined, scanned, approved, asker, release, overtaken>>
    BY DEF InvalidationFails, DeleteKey
  <1>s. SuspiciousWasReviewed'
    BY <1>0 DEF SuspiciousWasReviewed, CacheInv
  <1>r. /\ RemoveAt(invalidations, i) \in Seq(SUBSET Readers)
        /\ \A j \in DOMAIN invalidations :
             j # i => \E k \in DOMAIN RemoveAt(invalidations, i) :
                        RemoveAt(invalidations, i)[k] = invalidations[j]
    BY <1>f, OthersRemain
  <1>i. invalidations[i] \in SUBSET Readers
    BY <1>f
  <1>1. CASE InvalidationFails(i)
    <2>1. /\ missed' = missed \cup invalidations[i] /\ invalidations' = RemoveAt(invalidations, i)
          /\ cache' = cache /\ cacheFaults' \in 0..MaxCacheFaults
      BY <1>1, CacheFacts DEF InvalidationFails
    <2>2. missed' \subseteq Readers /\ invalidations' \in Seq(SUBSET Readers)
      BY <1>f, <1>i, <1>r, <2>1
    <2>3. ASSUME NEW v, NEW e, Explained(v, e) PROVE Explained(v, e)'
      <3>1. CASE Current(e) \/ e.late \/ v \in missed
        BY <1>0, <2>1, <3>1 DEF Explained, Current
      <3>2. ASSUME NEW j \in DOMAIN invalidations, v \in invalidations[j] PROVE Explained(v, e)'
        <4>1. CASE j = i
          BY <2>1, <3>2, <4>1 DEF Explained
        <4>2. CASE j # i
          BY <1>r, <2>1, <3>2, <4>2 DEF Explained
        <4> QED
          BY <4>1, <4>2
      <3> QED
        BY <2>3, <3>1, <3>2 DEF Explained
    <2>4. PICK c \in [Readers -> Seq(Entry)] : c = cache
      BY <1>f
    <2>5. \A v \in Readers : \A k \in 1..Len(c[v]) : Explained(v, c[v][k])'
      BY <2>3, <2>4 DEF CacheInv
    <2> QED
      BY <1>f, <1>0, <1>s, <2>1, <2>2, <2>4, <2>5, CacheStep
  <1>2. ASSUME NEW u \in Readers, DeleteKey(i, u) PROVE CacheInv'
    <2>1. /\ u \in invalidations[i] /\ missed' = missed \ {u} /\ UNCHANGED cacheFaults
          /\ cache' = [cache EXCEPT ![u] = <<>>]
          /\ invalidations' = IF invalidations[i] = {u} THEN RemoveAt(invalidations, i)
                              ELSE [invalidations EXCEPT ![i] = invalidations[i] \ {u}]
      BY <1>2 DEF DeleteKey
    <2>2. missed' \subseteq Readers /\ invalidations' \in Seq(SUBSET Readers)
      <3>1. [invalidations EXCEPT ![i] = invalidations[i] \ {u}] \in Seq(SUBSET Readers)
        <4>1. invalidations[i] \ {u} \in SUBSET Readers
          BY <1>i
        <4> QED
          BY <1>f, <4>1, ExceptSeq
      <3> QED
        BY <1>f, <1>r, <2>1, <3>1
    <2>3. ASSUME NEW v \in Readers \ {u}, NEW e, Explained(v, e) PROVE Explained(v, e)'
      <3>1. CASE Current(e) \/ e.late \/ v \in missed
        BY <1>0, <2>1, <3>1 DEF Explained, Current
      <3>2. ASSUME NEW j \in DOMAIN invalidations, v \in invalidations[j] PROVE Explained(v, e)'
        <4>1. CASE invalidations[i] = {u}
          BY <1>r, <2>1, <3>2, <4>1 DEF Explained
        <4>2. CASE invalidations[i] # {u}
          <5>1. j \in DOMAIN invalidations' /\ v \in invalidations'[j]
            BY <1>f, <2>1, <3>2, <4>2
          <5> QED
            BY <5>1 DEF Explained
        <4> QED
          BY <4>1, <4>2
      <3> QED
        BY <2>3, <3>1, <3>2 DEF Explained
    <2>4. PICK c \in [Readers -> Seq(Entry)] :
             /\ cache' = c /\ \A v \in Readers : c[v] = IF v = u THEN <<>> ELSE cache[v]
      <3>1. <<>> \in Seq(Entry)
        OBVIOUS
      <3> DEFINE d == [cache EXCEPT ![u] = <<>>]
      <3>2. d \in [Readers -> Seq(Entry)] /\ \A v \in Readers : d[v] = IF v = u THEN <<>> ELSE cache[v]
        BY <1>f, <3>1
      <3>3. cache' = d
        BY <2>1
      <3> HIDE DEF d
      <3> QED
        BY <3>2, <3>3
    <2>5. \A v \in Readers : Len(c[v]) <= CacheSize
      <3>1. Len(<<>>) = 0
        OBVIOUS
      <3> QED
        BY <1>f, <2>4, <3>1
    <2>6. \A v \in Readers : \A k \in 1..Len(c[v]) : Explained(v, c[v][k])'
      <3> SUFFICES ASSUME NEW v \in Readers, NEW k \in 1..Len(c[v]) PROVE Explained(v, c[v][k])'
        OBVIOUS
      <3>1. v # u /\ c[v] = cache[v]
        BY <2>4
      <3>2. Explained(v, c[v][k])
        BY <3>1 DEF CacheInv
      <3> QED
        BY <2>3, <3>1, <3>2
    <2> QED
      BY <1>f, <1>0, <1>s, <2>1, <2>2, <2>4, <2>5, <2>6, CacheStep
  <1> QED
    BY <1>1, <1>2

\* A key expires.
LEMMA ExpiryKeeps ==
  ASSUME CacheConstants, CacheInv, NEW u \in Readers, KeyExpires(u)
  PROVE  CacheInv'
  <1>f. /\ cache \in [Readers -> Seq(Entry)] /\ \A v \in Readers : Len(cache[v]) <= CacheSize
        /\ asker \in [Askers -> Asking] /\ invalidations \in Seq(SUBSET Readers)
        /\ missed \subseteq Readers
        /\ epoch \in 0..MaxEpoch /\ approved \in 0..MaxEpoch /\ release \in 0..MaxEpoch
        /\ gone \in BOOLEAN /\ quarantined \in BOOLEAN /\ scanned \in BOOLEAN /\ overtaken \in BOOLEAN
        /\ CacheSize \in Nat
    BY CacheFacts
  <1>1. /\ cache' = [cache EXCEPT ![u] = <<>>] /\ cacheFaults' \in 0..MaxCacheFaults
        /\ UNCHANGED <<epoch, gone, quarantined, scanned, approved, asker, invalidations, release,
                       missed, overtaken>>
    BY CacheFacts DEF KeyExpires
  <1>2. PICK c \in [Readers -> Seq(Entry)] :
           /\ cache' = c /\ \A v \in Readers : c[v] = IF v = u THEN <<>> ELSE cache[v]
    <2>1. <<>> \in Seq(Entry)
      OBVIOUS
    <2> DEFINE d == [cache EXCEPT ![u] = <<>>]
    <2>2. d \in [Readers -> Seq(Entry)] /\ \A v \in Readers : d[v] = IF v = u THEN <<>> ELSE cache[v]
      BY <1>f, <2>1
    <2>3. cache' = d
      BY <1>1
    <2> HIDE DEF d
    <2> QED
      BY <2>2, <2>3
  <1>3. \A v \in Readers : Len(c[v]) <= CacheSize
    <2>1. Len(<<>>) = 0
      OBVIOUS
    <2> QED
      BY <1>f, <1>2, <2>1
  <1>4. ASSUME NEW v \in Readers, NEW k \in 1..Len(c[v]) PROVE Explained(v, c[v][k])'
    <2>1. v # u /\ c[v] = cache[v]
      BY <1>2
    <2>2. Explained(v, c[v][k])
      BY <2>1 DEF CacheInv
    <2> QED
      BY <1>1, <2>2 DEF Explained, Current
  <1>5. SuspiciousWasReviewed'
    BY <1>1 DEF SuspiciousWasReviewed, CacheInv
  <1> QED
    BY <1>f, <1>1, <1>2, <1>3, <1>4, <1>5, CacheStep

\* The invariant of the cache holds always.
LEMMA CacheInvariant == CacheSpec => []CacheInv
  <1>1. CacheInit => CacheInv
    BY CacheInitInv, CacheConstants
  <1>2. CacheInv /\ [CacheNext]_cacheVars => CacheInv'
    <2> SUFFICES ASSUME CacheInv, [CacheNext]_cacheVars PROVE CacheInv'
      OBVIOUS
    <2>1. CASE UNCHANGED cacheVars
      BY <2>1 DEF cacheVars, CacheInv, CacheTypeOK, SuspiciousWasReviewed, Explained, Current
    <2>2. CASE CacheNext
      BY <2>2, CacheConstants, AskerKeeps, ChangeKeeps, InvalidationKeeps, ExpiryKeeps DEF CacheNext
    <2> QED
      BY <2>1, <2>2
  <1> QED
    BY <1>1, <1>2, PTL DEF CacheSpec

\* An entry about an earlier content, in a cache of any size and after any interleaving of
\* requests, activations, deletions and invalidations, was stored late, or its invalidation is
\* under way or was cut short.
THEOREM StaleAnswersAreExplained == CacheSpec => []StaleAnswersExplained
  <1>1. ASSUME CacheInv PROVE StaleAnswersExplained
    <2> SUFFICES ASSUME NEW u \in Readers, NEW i \in 1..CacheSize, i <= Len(cache[u])
                 PROVE  Explained(u, cache[u][i])
      BY DEF StaleAnswersExplained, Explained
    <2>1. i \in 1..Len(cache[u])
      BY <1>1, CacheFacts, CacheConstants
    <2> QED
      BY <1>1, <2>1 DEF CacheInv
  <1> QED
    BY <1>1, CacheInvariant, PTL

\* Content found suspicious goes back on line only through the release of an administrator who
\* looked at it, unless the release was overtaken by a newer content.
THEOREM SuspiciousIsReviewed == CacheSpec => []SuspiciousWasReviewed
  <1>1. CacheInv => SuspiciousWasReviewed
    BY DEF CacheInv
  <1> QED
    BY <1>1, CacheInvariant, PTL

==============================================================================
