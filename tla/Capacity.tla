------------------------------ MODULE Capacity ------------------------------
(***************************************************************************)
(* Chat capacity leases.  An answer takes a slot in up to three scopes     *)
(* (global, user, conversation) with one script in Redis; a keep-alive     *)
(* task renews the slot while the answer streams, and the end of the       *)
(* stream releases it.  When Redis fails, the slots of the process are     *)
(* used.  Times are relative: an entry is the number of ticks it has left, *)
(* 0 when it has expired and nobody has purged it, -1 when it is absent.   *)
(***************************************************************************)
EXTENDS Integers, FiniteSets

CONSTANTS
    Answers,      \* requests to the chat endpoint
    Processes,    \* API processes
    ProcessOf, UserOf, ConversationOf,   \* of an answer; NoConversation for a new one
    NoConversation,
    GlobalLimit, UserLimit,   \* chat_global_concurrency, chat_user_concurrency
    Lease,        \* chat_slot_lease_seconds, in ticks
    MaxOutages    \* bound: Redis outages, lost replies, process deaths

ASSUME CapacityConstants ==
    /\ GlobalLimit \in Nat \ {0} /\ UserLimit \in Nat \ {0}
    /\ Lease \in Nat \ {0, 1} /\ MaxOutages \in Nat
    /\ ProcessOf \in [Answers -> Processes]
    /\ DOMAIN UserOf = Answers /\ DOMAIN ConversationOf = Answers
    /\ IsFiniteSet(Answers)

VARIABLES
    slot,        \* per backend, answer and scope: ticks left, 0 or -1
    answer,      \* state of each answer
    redisUp,
    outages

capVars == <<slot, answer, redisUp, outages>>

Backends == {"redis", "local"}
Scopes == {"global", "user", "conversation"}
Order(s) == CASE s = "global" -> 1 [] s = "user" -> 2 [] OTHER -> 3
Limit(s) == CASE s = "global" -> GlobalLimit [] s = "user" -> UserLimit [] OTHER -> 1
ScopesOf(a) == IF ConversationOf[a] = NoConversation THEN {"global", "user"} ELSE Scopes
\* Two answers whose slots of a scope are members of the same sorted set.
SameKey(b, s, a, q) ==
    /\ s \in ScopesOf(a) /\ s \in ScopesOf(q)
    /\ b = "local" => ProcessOf[a] = ProcessOf[q]
    /\ s # "global" => UserOf[a] = UserOf[q]
    /\ s = "conversation" => ConversationOf[a] = ConversationOf[q]

Unexpired(b, s, a) == {q \in Answers : SameKey(b, s, a, q) /\ slot[b][q][s] > 0}
Full(b, a) == {s \in ScopesOf(a) : Cardinality(Unexpired(b, s, a)) >= Limit(s)}
Blocked(b, a) == Full(b, a) # {}

\* The script purges key by key and stops at the first full one; the local variant
\* purges all keys first.
Purged(b, a, q, s) ==
    /\ SameKey(b, s, a, q) /\ slot[b][q][s] = 0
    /\ b = "redis" => \A f \in Full(b, a) : Order(s) <= Order(f)
AfterAcquire(b, a) ==
    [q \in Answers |-> [s \in Scopes |->
        IF q = a /\ s \in ScopesOf(a) /\ ~Blocked(b, a) THEN Lease
        ELSE IF Purged(b, a, q, s) THEN -1 ELSE slot[b][q][s]]]
Removed(b, a) == [slot EXCEPT ![b][a] = [s \in Scopes |-> -1]]
Outage == outages < MaxOutages /\ outages' = outages + 1
Over == [pc |-> "over", backend |-> "none", beat |-> FALSE]

CapInit ==
    /\ slot = [b \in Backends |-> [a \in Answers |-> [s \in Scopes |-> -1]]]
    /\ answer = [a \in Answers |-> Over]
    /\ redisUp = TRUE
    /\ outages = 0

\* A new request under the name of a finished one, when nothing unexpired is left of that
\* one: every acquisition draws a fresh token.
Fresh(a) == answer[a] = Over /\ \A b \in Backends, s \in Scopes : slot[b][a][s] <= 0

Acquire(a) ==
    /\ Fresh(a) /\ redisUp
    /\ slot' = [slot EXCEPT !["redis"] = AfterAcquire("redis", a)]
    /\ answer' = IF Blocked("redis", a) THEN answer
                 ELSE [answer EXCEPT ![a] = [pc |-> "held", backend |-> "redis", beat |-> FALSE]]
    /\ UNCHANGED <<redisUp, outages>>

\* Redis does not answer; the script may have run all the same.
AcquireLocally(a) ==
    /\ Fresh(a)
    /\ \E reached \in BOOLEAN :
          /\ IF reached THEN Outage ELSE ~redisUp /\ UNCHANGED outages
          /\ slot' = [b \in Backends |->
                        IF b = "local" \/ reached THEN AfterAcquire(b, a) ELSE slot[b]]
    /\ answer' = IF Blocked("local", a) THEN answer
                 ELSE [answer EXCEPT ![a] = [pc |-> "held", backend |-> "local", beat |-> FALSE]]
    /\ UNCHANGED redisUp

\* The stream starts, and with it the keep-alive task.
Stream(a) ==
    /\ answer[a].pc = "held"
    /\ answer' = [answer EXCEPT ![a].pc = "streaming", ![a].beat = TRUE]
    /\ UNCHANGED <<slot, redisUp, outages>>

\* release_chat_slot: the entries of its backend, if that is reachable.
Released(a) ==
    LET b == answer[a].backend IN
    IF b = "redis" /\ ~redisUp THEN slot ELSE Removed(b, a)

\* Mutant: the keep-alive task is not cancelled when the stream ends.
ReleaseKeepsTask(a) ==
    /\ answer[a].pc \in {"held", "streaming"}
    /\ slot' = Released(a)
    /\ answer' = [answer EXCEPT ![a].pc = "over"]
    /\ UNCHANGED <<redisUp, outages>>

\* The request is refused after it took the slot, or the stream ends or is closed by the
\* client: the slot is released.
Release(a) ==
    /\ answer[a].pc \in {"held", "streaming"}
    /\ slot' = Released(a)
    /\ answer' = [answer EXCEPT ![a] = Over]
    /\ UNCHANGED <<redisUp, outages>>

\* Any other exception before the stream keeps the slot until it expires.
FailEarly(a) ==
    /\ answer[a].pc = "held"
    /\ answer' = [answer EXCEPT ![a] = Over]
    /\ UNCHANGED <<slot, redisUp, outages>>

\* Mutant: the renewal reaches the first key only.
BeatFirstKey(a) ==
    /\ answer[a].beat
    /\ LET b == answer[a].backend IN
       IF (b = "redis" => redisUp) /\ \A s \in ScopesOf(a) : slot[b][a][s] >= 0
       THEN slot' = [slot EXCEPT ![b][a]["global"] = Lease] /\ UNCHANGED answer
       ELSE answer' = [answer EXCEPT ![a].beat = FALSE] /\ UNCHANGED slot
    /\ UNCHANGED <<redisUp, outages>>

\* A renewal; it looks for the entry, not for its expiry.  One failure ends the task.
Beat(a) ==
    /\ answer[a].beat
    /\ LET b == answer[a].backend IN
       IF (b = "redis" => redisUp) /\ \A s \in ScopesOf(a) : slot[b][a][s] >= 0
       THEN /\ slot' = [slot EXCEPT ![b][a] = [s \in Scopes |-> IF s \in ScopesOf(a) THEN Lease ELSE -1]]
            /\ UNCHANGED answer
       ELSE answer' = [answer EXCEPT ![a].beat = FALSE] /\ UNCHANGED slot
    /\ UNCHANGED <<redisUp, outages>>

\* The keep-alive runs three times per lease, and a request that holds a slot starts to
\* stream within one lease (assumption PreparationIsShort): neither misses its expiry,
\* which the renewals set to the same time in all scopes.
Timely ==
    \A a \in Answers :
       (answer[a].pc = "held" \/ answer[a].beat) => slot[answer[a].backend][a]["global"] > 1

Tick ==
    /\ Timely
    /\ \E b \in Backends, a \in Answers, s \in Scopes : slot[b][a][s] > 0
    /\ slot' = [b \in Backends |-> [a \in Answers |-> [s \in Scopes |->
                  IF slot[b][a][s] > 0 THEN slot[b][a][s] - 1 ELSE slot[b][a][s]]]]
    /\ UNCHANGED <<answer, redisUp, outages>>

RedisFails == redisUp /\ Outage /\ redisUp' = FALSE /\ UNCHANGED <<slot, answer>>
RedisReturns == ~redisUp /\ redisUp' = TRUE /\ UNCHANGED <<slot, answer, outages>>

\* The local slots die with their process.
ProcessDies(p) ==
    /\ Outage
    /\ \E a \in Answers : ProcessOf[a] = p /\ answer[a] # Over
    /\ answer' = [a \in Answers |-> IF ProcessOf[a] = p THEN Over ELSE answer[a]]
    /\ slot' = [slot EXCEPT !["local"] = [a \in Answers |->
                  IF ProcessOf[a] = p THEN [s \in Scopes |-> -1] ELSE slot["local"][a]]]
    /\ UNCHANGED redisUp

CapNext ==
    \/ \E a \in Answers : \/ Acquire(a) \/ AcquireLocally(a) \/ Stream(a) \/ Release(a)
                          \/ FailEarly(a) \/ Beat(a)
    \/ Tick \/ RedisFails \/ RedisReturns
    \/ \E p \in Processes : ProcessDies(p)

\* Answers come to their end and time passes; Redis may stay away.
CapFairness ==
    /\ \A a \in Answers : WF_capVars(Release(a))
    /\ WF_capVars(Tick)

CapSpec == CapInit /\ [][CapNext]_capVars

-----------------------------------------------------------------------------
CapTypeOK ==
    /\ slot \in [Backends -> [Answers -> [Scopes -> -1..Lease]]]
    /\ answer \in [Answers -> [pc : {"held", "streaming", "over"},
                               backend : Backends \cup {"none"}, beat : BOOLEAN]]
    /\ redisUp \in BOOLEAN /\ outages \in 0..MaxOutages

\* Answers at work whose keep-alive has not given up.
Counted(b, s, a) ==
    {q \in Answers : SameKey(b, s, a, q) /\ answer[q].backend = b
                     /\ (answer[q].pc = "held" \/ answer[q].beat)}
\* No scope ever has more answers at work than its limit, in Redis or in one process, as
\* long as their renewals succeed; with the conversation scope, two turns of one
\* conversation never run together.  Entries that requests leave behind do not matter.
LimitsHold ==
    \A b \in Backends, a \in Answers : \A s \in ScopesOf(a) :
       Cardinality(Counted(b, s, a)) <= Limit(s)

\* Capacity lost to dead processes, failed releases and lost replies comes back: every
\* scope has room again and again, however the answers come and go.
CapacityComesBack == \A a \in Answers : []<>(~Blocked("redis", a))

=============================================================================
