------------------------------- MODULE Outbox -------------------------------
(***************************************************************************)
(* The transactional outbox (app/tasks/outbox.py) and the admin requests   *)
(* that act on its dead letters (app/routers/admin.py).  Events are rows   *)
(* of outbox_events.  Dispatchers are runs of dispatch_outbox_batch: beat  *)
(* starts one every two seconds, so several may run at once.               *)
(*                                                                         *)
(* A dispatcher claims a batch in one transaction (FOR UPDATE SKIP LOCKED) *)
(* and then handles each event in a session of its own, without a lock:    *)
(* it reads the row, publishes, and writes what it concluded.  Its claim   *)
(* is only the due time it pushed 60 s ahead.                              *)
(***************************************************************************)
EXTENDS Naturals, FiniteSets, Sequences

CONSTANTS
    Events,      \* rows of outbox_events
    Recovery,    \* those written by the lease reconciler, without a workspace
    Dispatchers, \* concurrent runs of dispatch_outbox_batch
    Admins,      \* concurrent admin requests
    NULL,
    BatchSize,   \* settings.outbox_batch_size
    MaxRetries,  \* settings.outbox_max_retries
    MaxMoves     \* bound on admin requests and faults together

ASSUME OutboxAssumption ==
    /\ Recovery \subseteq Events
    /\ BatchSize \in Nat \ {0} /\ MaxRetries \in Nat \ {0} /\ MaxMoves \in Nat

VARIABLES
    status,     \* outbox_events.status; "absent" before the business commit
    retryCount, \* outbox_events.retry_count
    due,        \* next_retry_at <= now
    letters,    \* dead letters with source "outbox", in order of creation
    delivered,  \* events the broker has received at least once
    batch,      \* claimed events a dispatcher has not looked at yet
    current,    \* the row a dispatcher is working on, as it read it
    request,    \* what an admin request read
    moves

rowVars == <<status, retryCount, due>>
vars == <<rowVars, letters, delivered, batch, current, request, moves>>

------------------------------------------------------------------------------
Unsent   == {"pending", "publishing"}
Statuses == {"absent", "sent", "failed"} \cup Unsent

Letter  == [event: Events, state: {"pending", "replayed", "discarded"}]
Current == [event: Events, retries: Nat, published: BOOLEAN]

\* reset: the status read was not 'pending', so the replay writes it.
Request == [kind: {"replay", "discard"}, letter: Nat, reset: BOOLEAN]

NoRecord == NULL \notin Current /\ NULL \notin Request
ASSUME NullAssumption == NoRecord

TypeOK ==
    /\ status \in [Events -> Statuses]
    /\ retryCount \in [Events -> Nat]
    /\ due \in [Events -> BOOLEAN]
    /\ letters \in Seq(Letter)
    /\ delivered \subseteq Events
    /\ batch \in [Dispatchers -> SUBSET Events]
    /\ current \in [Dispatchers -> Current \cup {NULL}]
    /\ request \in [Admins -> Request \cup {NULL}]
    /\ \A a \in Admins : request[a] # NULL => request[a].letter \in 1..Len(letters)
    /\ moves \in 0..MaxMoves

Init ==
    /\ status = [e \in Events |-> "absent"]
    /\ retryCount = [e \in Events |-> 0]
    /\ due = [e \in Events |-> FALSE]
    /\ letters = <<>> /\ delivered = {}
    /\ batch = [d \in Dispatchers |-> {}]
    /\ current = [d \in Dispatchers |-> NULL]
    /\ request = [a \in Admins |-> NULL]
    /\ moves = MaxMoves

Move == moves > 0 /\ moves' = moves - 1

Held(e) == \E d \in Dispatchers :
    e \in batch[d] \/ (current[d] # NULL /\ current[d].event = e)

------------------------------------------------------------------------------
\* The business transaction commits its row and the event together.
Enqueue(e) ==
    /\ status[e] = "absent"
    /\ status' = [status EXCEPT ![e] = "pending"]
    /\ due' = [due EXCEPT ![e] = TRUE]
    /\ UNCHANGED <<retryCount, letters, delivered, batch, current, request, moves>>

\* Mutant of Due: rows a crashed dispatcher left behind are not taken again.
DuePending == {e \in Events : status[e] = "pending" /\ due[e]}

\* What the dispatcher selects: new rows, retries, and claims that ran out.
Due == {e \in Events : status[e] \in Unsent /\ due[e]}

Idle(d) == batch[d] = {} /\ current[d] = NULL

\* Older rows come first, unless another claim has them locked (skip_locked).
Claim(d) ==
    /\ Idle(d)
    /\ \E B \in (SUBSET Due) \ {{}} :
         /\ Cardinality(B) <= BatchSize
         /\ batch' = [batch EXCEPT ![d] = B]
         /\ status' = [e \in Events |-> IF e \in B THEN "publishing" ELSE status[e]]
         /\ due' = [e \in Events |-> due[e] /\ e \notin B]
    /\ UNCHANGED <<retryCount, letters, delivered, current, request, moves>>

\* The event is read again in its own session; another dispatcher may be done.
Read(d) ==
    /\ current[d] = NULL
    /\ \E e \in batch[d] :
         /\ batch' = [batch EXCEPT ![d] = @ \ {e}]
         /\ current' = IF status[e] = "publishing"
                       THEN [current EXCEPT ![d] =
                               [event |-> e, retries |-> retryCount[e], published |-> FALSE]]
                       ELSE current
    /\ UNCHANGED <<rowVars, letters, delivered, request, moves>>

\* apply_async.
Publish(d) ==
    /\ current[d] # NULL /\ ~current[d].published
    /\ delivered' = delivered \cup {current[d].event}
    /\ current' = [current EXCEPT ![d].published = TRUE]
    /\ UNCHANGED <<rowVars, letters, batch, request, moves>>

\* Mutant of MarkSent: sent is written before the broker has answered.
MarkSentFirst(d) ==
    /\ current[d] # NULL
    /\ status' = [status EXCEPT ![current[d].event] = "sent"]
    /\ current' = [current EXCEPT ![d] = NULL]
    /\ UNCHANGED <<retryCount, due, letters, delivered, batch, request, moves>>

MarkSent(d) ==
    /\ current[d] # NULL /\ current[d].published
    /\ status' = [status EXCEPT ![current[d].event] = "sent"]
    /\ current' = [current EXCEPT ![d] = NULL]
    /\ UNCHANGED <<retryCount, due, letters, delivered, batch, request, moves>>

\* Mutant of Fail: the letter is written when the budget is reached exactly, not
\* when a replayed event fails beyond it.
FailLetterAtLimit(d) ==
    LET e == current[d].event
        n == current[d].retries + 1
    IN  /\ current[d] # NULL /\ Move
        /\ retryCount' = [retryCount EXCEPT ![e] = n]
        /\ due' = [due EXCEPT ![e] = FALSE]
        /\ status' = [status EXCEPT ![e] = IF n >= MaxRetries THEN "failed" ELSE "pending"]
        /\ letters' = IF n = MaxRetries
                      THEN Append(letters, [event |-> e, state |-> "pending"]) ELSE letters
        /\ current' = [current EXCEPT ![d] = NULL]
        /\ UNCHANGED <<delivered, batch, request>>

\* The except branch: publishing raised, possibly after the broker had accepted
\* the message.  The counter written is the one read, plus one.
Fail(d) ==
    LET e == current[d].event
        n == current[d].retries + 1
    IN  /\ current[d] # NULL /\ Move
        /\ retryCount' = [retryCount EXCEPT ![e] = n]
        /\ due' = [due EXCEPT ![e] = FALSE]
        /\ \/ /\ n < MaxRetries
              /\ status' = [status EXCEPT ![e] = "pending"] /\ letters' = letters
           \/ /\ n >= MaxRetries
              /\ status' = [status EXCEPT ![e] = "failed"]
              /\ letters' = Append(letters, [event |-> e, state |-> "pending"])
        /\ current' = [current EXCEPT ![d] = NULL]
        /\ UNCHANGED <<delivered, batch, request>>

\* The process dies, or a commit raises and ends the run: the rest of the batch
\* stays "publishing".
Crash(d) ==
    /\ ~Idle(d) /\ Move
    /\ batch' = [batch EXCEPT ![d] = {}] /\ current' = [current EXCEPT ![d] = NULL]
    /\ UNCHANGED <<rowVars, letters, delivered, request>>

------------------------------------------------------------------------------
(* Time: next_retry_at comes.                                              *)

BecomesDue(e) ==
    /\ status[e] \in Unsent /\ ~due[e]
    /\ due' = [due EXCEPT ![e] = TRUE]
    /\ UNCHANGED <<status, retryCount, letters, delivered, batch, current, request>>

\* The backoff is over, or a claim nobody works on any more.
Elapse(e) ==
    (status[e] = "pending" \/ ~Held(e)) /\ BecomesDue(e) /\ moves' = moves

\* A batch that takes longer than 60 s loses its claim.
ClaimLapses(e) ==
    status[e] = "publishing" /\ Held(e) /\ BecomesDue(e) /\ Move

------------------------------------------------------------------------------
(* Admin requests: an unlocked read, then a write of what changed.  An     *)
(* administrator sees the letters of one workspace; a letter whose         *)
(* workspace_id is NULL is "not found" to every request.                   *)

Visible(l) == letters[l].event \notin Recovery

Open(a, kind) ==
    /\ request[a] = NULL /\ Move
    /\ \E l \in DOMAIN letters :
         /\ letters[l].state = "pending" /\ Visible(l)
         /\ request' = [request EXCEPT ![a] =
               [kind |-> kind, letter |-> l,
                reset |-> status[letters[l].event] # "pending"]]
    /\ UNCHANGED <<rowVars, letters, delivered, batch, current>>

ReplayRead(a)  == Open(a, "replay")
DiscardRead(a) == Open(a, "discard")

Resolve(a, state) ==
    /\ letters' = [letters EXCEPT ![request[a].letter].state = state]
    /\ request' = [request EXCEPT ![a] = NULL]

\* The event is pending again; its retry_count stays what it was.
ReplayCommit(a) ==
    /\ request[a] # NULL /\ request[a].kind = "replay"
    /\ Resolve(a, "replayed")
    /\ LET e == letters[request[a].letter].event
       IN  /\ status' = [status EXCEPT ![e] = IF request[a].reset THEN "pending" ELSE @]
           /\ due' = [due EXCEPT ![e] = TRUE]
    /\ UNCHANGED <<retryCount, delivered, batch, current, moves>>

\* Mutant of DiscardCommit: the verdict is written on the event as well.
DiscardEvent(a) ==
    /\ request[a] # NULL /\ request[a].kind = "discard"
    /\ Resolve(a, "discarded")
    /\ status' = [status EXCEPT ![letters[request[a].letter].event] = "discarded"]
    /\ UNCHANGED <<retryCount, due, delivered, batch, current, moves>>

\* The event itself keeps the status it has.
DiscardCommit(a) ==
    /\ request[a] # NULL /\ request[a].kind = "discard"
    /\ Resolve(a, "discarded")
    /\ UNCHANGED <<rowVars, delivered, batch, current, moves>>

------------------------------------------------------------------------------
Dispatch(d) == Claim(d) \/ Read(d) \/ Publish(d) \/ MarkSent(d)

Next ==
    \/ \E e \in Events : Enqueue(e) \/ Elapse(e) \/ ClaimLapses(e)
    \/ \E d \in Dispatchers : Dispatch(d) \/ Fail(d) \/ Crash(d)
    \/ \E a \in Admins :
         ReplayRead(a) \/ DiscardRead(a) \/ ReplayCommit(a) \/ DiscardCommit(a)

Spec == Init /\ [][Next]_vars

\* Beat starts the dispatcher every two seconds, a dispatcher that lives goes on,
\* and time passes.  Failures, crashes and admin requests are never owed.
Fairness ==
    /\ \A d \in Dispatchers : WF_vars(Dispatch(d))
    /\ \A e \in Events : WF_vars(Elapse(e))

FairSpec == Spec /\ Fairness

------------------------------------------------------------------------------
(* Properties.                                                             *)

Place(s) == CASE s = "absent" -> "none"
              [] s \in Unsent -> "owed"
              [] s = "sent"   -> "done"
              [] s = "failed" -> "parked"

Promise == INSTANCE Delivery WITH place <- [e \in Events |-> Place(status[e])]

\* The outbox implements Delivery, whatever dispatchers overwrite: an event is
\* reported sent only after the broker received it, and once committed it is
\* always owed, delivered or parked.
AtLeastOnce == Promise!Spec

\* Every committed event is finally sent or parked, through crashes in any step.
EventuallyResolved == Promise!Resolved

Witness(e, l) == letters[l].event = e /\ letters[l].state # "replayed"

\* A parked event always has a letter that has not been replayed (Runbook: "failed"
\* events have a dead letter of the outbox), though letters and events are written
\* by requests and dispatchers that do not lock each other out.
ParkedHasLetter ==
    \A e \in Events : status[e] = "failed" => \E l \in DOMAIN letters : Witness(e, l)

\* That letter can be acted on (Runbook: confirm the cause, then replay the letter
\* through the admin page or its endpoint).
ParkedCanBeReplayed ==
    \A e \in Events : status[e] = "failed" =>
        \E l \in DOMAIN letters : Witness(e, l) /\ Visible(l)
==============================================================================
