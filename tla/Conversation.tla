---------------------------- MODULE Conversation ----------------------------
(***************************************************************************)
(* The turns of one conversation.  A turn reads the summary and the recent *)
(* history, produces an answer, stores the round in the database, appends  *)
(* it to the history in Redis and summarises what is old.  The             *)
(* conversation slot keeps the turns apart, but the turn that creates a    *)
(* conversation does not hold it.  Messages are numbered in the order in   *)
(* which they are committed; the queries sort them by created_at, which a  *)
(* round takes when it is flushed, before its commit.                      *)
(***************************************************************************)
EXTENDS Integers, Sequences, FiniteSets, SequencesExt

CONSTANTS
    Turns,           \* concurrent requests
    HistoryMax,      \* history_max_turns * 2
    SummaryTrigger,  \* summary_trigger_messages
    SummaryKeep,     \* summary_keep_recent
    MaxMessages,     \* bound: no turn begins with that many messages, those of pending turns included
    MaxFaults        \* bound: Redis failures, expiries during a turn, lost slots

ASSUME ConversationConstants ==
    /\ HistoryMax \in Nat \ {0} /\ SummaryTrigger \in Nat \ {0} /\ SummaryKeep \in Nat
    /\ SummaryKeep <= SummaryTrigger
    /\ MaxMessages \in Nat /\ MaxFaults \in Nat

VARIABLES
    conversation,  \* "none", "open" or "deleted"
    messages,      \* number of committed messages
    order,         \* the committed messages by created_at
    history,       \* chat:history in Redis, a sequence of messages; <<>> when absent
    upto,          \* conversation.summary_upto
    covered,       \* messages that conversation.summary stands for
    turn,          \* what each request is doing
    faults,        \* faults so far
    overlapped,    \* history: two turns ran at the same time
    skipped,       \* history: a summary failed, or its turn was cut before it
    slipped        \* history: messages committed after one with a later created_at

convVars == <<conversation, messages, order, history, upto, covered, turn, faults, overlapped,
              skipped, slipped>>

\* seen: the messages in the context of the answer; later those of the next summary.
\* place: the messages committed when the round was flushed.
NoTurn == [pc |-> "idle", mode |-> "rag", slot |-> FALSE, seen |-> {}, rows |-> <<>>, place |-> 0,
           first |-> 0, boundary |-> 0]
Busy(t) == turn[t].pc # "idle"
Pending(t) == turn[t].pc \in {"history", "rows", "refill", "answer", "flushed"}
Recent(s) == IF Len(s) <= HistoryMax THEN s ELSE SubSeq(s, Len(s) - HistoryMax + 1, Len(s))
Fault == faults < MaxFaults /\ faults' = faults + 1

ConvInit ==
    /\ conversation = "none" /\ messages = 0 /\ order = <<>> /\ history = <<>> /\ upto = 0 /\ covered = {}
    /\ turn = [t \in Turns |-> NoTurn]
    /\ faults = 0 /\ overlapped = FALSE /\ skipped = FALSE /\ slipped = {}

\* A first turn creates the conversation and takes no conversation slot; a later one takes
\* it, and waits for no one but a turn that holds it.  The summary goes to turns in RAG mode
\* only; an agent is given the history.
Begin(t, mode) ==
    /\ ~Busy(t) /\ messages + 2 * Cardinality({q \in Turns : Pending(q)}) < MaxMessages
    /\ \/ conversation = "none"
       \/ conversation = "open" /\ \A q \in Turns : ~turn[q].slot
    /\ conversation' = "open"
    /\ turn' = [turn EXCEPT ![t] = [NoTurn EXCEPT !.pc = "history", !.mode = mode,
                                       !.seen = IF mode = "rag" THEN covered ELSE {},
                                       !.slot = conversation = "open"]]
    /\ overlapped' = (overlapped \/ \E q \in Turns : Busy(q))
    /\ UNCHANGED <<messages, order, history, upto, covered, faults, skipped, slipped>>

\* load_history: the cache, if Redis answers and there is one ...
LoadCached(t) ==
    /\ turn[t].pc = "history"
    /\ \/ /\ turn' = IF history # <<>>
                     THEN [turn EXCEPT ![t].pc = "answer", ![t].seen = @ \cup Range(Recent(history))]
                     ELSE [turn EXCEPT ![t].pc = "rows"]
          /\ UNCHANGED faults
       \/ Fault /\ turn' = [turn EXCEPT ![t].pc = "rows"]
    /\ UNCHANGED <<conversation, messages, order, history, upto, covered, overlapped, skipped, slipped>>

\* ... or else the rows, which then refill the cache.
LoadRows(t) ==
    /\ turn[t].pc = "rows"
    /\ LET rows == Recent(order) IN
       turn' = [turn EXCEPT ![t].seen = @ \cup Range(rows), ![t].rows = rows,
                            ![t].pc = IF rows = <<>> THEN "answer" ELSE "refill"]
    /\ UNCHANGED <<conversation, messages, order, history, upto, covered, faults, overlapped, skipped, slipped>>
Refill(t) ==
    /\ turn[t].pc = "refill"
    /\ \/ history' = turn[t].rows /\ UNCHANGED faults
       \/ Fault /\ UNCHANGED history
    /\ turn' = [turn EXCEPT ![t].pc = "answer", ![t].rows = <<>>]
    /\ UNCHANGED <<conversation, messages, order, upto, covered, overlapped, skipped, slipped>>

\* _persist_round: question and answer in one transaction.  Their created_at is the time of
\* the flush, which fails when the conversation has been deleted.  The answer is there: from
\* the cache, the model, a fallback, or a fixed text.
Flush(t) ==
    /\ turn[t].pc = "answer" /\ conversation = "open"
    /\ turn' = [turn EXCEPT ![t].pc = "flushed", ![t].mode = "rag", ![t].seen = {}, ![t].place = messages]
    /\ UNCHANGED <<conversation, messages, order, history, upto, covered, faults, overlapped, skipped, slipped>>

\* The commit.  What was committed before the flush has an earlier created_at; a round
\* committed since was flushed before or after this one.
Persist(t) ==
    /\ turn[t].pc = "flushed"
    /\ \E p \in turn[t].place..messages :
         /\ order' = SubSeq(order, 1, p) \o <<messages + 1, messages + 2>> \o SubSeq(order, p + 1, messages)
         /\ slipped' = IF p < messages THEN slipped \cup {messages + 1, messages + 2} ELSE slipped
    /\ messages' = messages + 2
    /\ turn' = [turn EXCEPT ![t].pc = "question", ![t].place = 0, ![t].first = messages + 1]
    /\ UNCHANGED <<conversation, history, upto, covered, faults, overlapped, skipped>>

\* append_history, once for each of the two messages; a failure is passed over.
AppendHistory(t, pc, next, m) ==
    /\ turn[t].pc = pc
    /\ turn' = [turn EXCEPT ![t].pc = next, ![t].first = IF next = "summarize" THEN 0 ELSE @]
    /\ \/ history' = Recent(Append(history, m)) /\ UNCHANGED faults
       \/ Fault /\ UNCHANGED history
    /\ UNCHANGED <<conversation, messages, order, upto, covered, overlapped, skipped, slipped>>
AppendQuestion(t) == AppendHistory(t, "question", "reply", turn[t].first)
AppendAnswer(t) == AppendHistory(t, "reply", "summarize", turn[t].first + 1)

\* maybe_summarize: what to compress is decided before the model is called, by position in
\* the order of created_at.
SummarizeFrom(t, trigger) ==
    /\ turn[t].pc = "summarize"
    /\ LET boundary == messages - SummaryKeep IN
       turn' = IF conversation # "open" \/ messages < trigger \/ boundary <= upto
               THEN [turn EXCEPT ![t] = NoTurn]
               ELSE [turn EXCEPT ![t].pc = "compress", ![t].boundary = boundary,
                                 ![t].seen = covered \cup Range(SubSeq(order, upto + 1, boundary))]
    /\ UNCHANGED <<conversation, messages, order, history, upto, covered, faults, overlapped, skipped, slipped>>
\* Mutant: the trigger leaves more messages without summary than the history holds.
SummarizeLate(t) == SummarizeFrom(t, SummaryTrigger + HistoryMax)
Summarize(t) == SummarizeFrom(t, SummaryTrigger)

StoreBoundary(t, boundary) ==
    /\ turn[t].pc = "compress"
    /\ IF conversation = "open"
       THEN covered' = turn[t].seen /\ upto' = boundary
       ELSE UNCHANGED <<covered, upto>>
    /\ turn' = [turn EXCEPT ![t] = NoTurn]
    /\ UNCHANGED <<conversation, messages, order, history, faults, overlapped, skipped, slipped>>
\* Mutant: the boundary is computed again after the call.
StoreSummaryNow(t) == StoreBoundary(t, messages - SummaryKeep)
\* The summary and its boundary are written together, whatever another turn wrote.
StoreSummary(t) == StoreBoundary(t, turn[t].boundary)

\* The turn ends early, at any await: the client goes away, the model or the database fails.
\* A failed summary is left to the next turn.
EndTurn(t) ==
    /\ Busy(t)
    /\ turn' = [turn EXCEPT ![t] = NoTurn]
    /\ skipped' = (skipped \/ turn[t].pc \in {"question", "reply", "summarize", "compress"})
    /\ UNCHANGED <<conversation, messages, order, history, upto, covered, faults, overlapped, slipped>>

\* A keep-alive that gave up: the slot expires under the turn.
SlotLost(t) ==
    /\ turn[t].slot /\ Fault
    /\ turn' = [turn EXCEPT ![t].slot = FALSE]
    /\ UNCHANGED <<conversation, messages, order, history, upto, covered, overlapped, skipped, slipped>>

\* The history expires; during a turn that is counted as a fault.
Expire ==
    /\ history # <<>> /\ history' = <<>>
    /\ IF \E t \in Turns : Busy(t) THEN Fault ELSE UNCHANGED faults
    /\ UNCHANGED <<conversation, messages, order, upto, covered, turn, overlapped, skipped, slipped>>

\* The rows go, once no transaction that refers to the conversation is open; the history in
\* Redis stays until it expires.
DeleteConversation ==
    /\ conversation = "open" /\ \A t \in Turns : turn[t].pc # "flushed"
    /\ conversation' = "deleted"
    /\ UNCHANGED <<messages, order, history, upto, covered, turn, faults, overlapped, skipped, slipped>>

ConvNext ==
    \/ \E t \in Turns :
         \/ \E mode \in {"rag", "agent"} : Begin(t, mode)
         \/ LoadCached(t) \/ LoadRows(t) \/ Refill(t) \/ Flush(t) \/ Persist(t)
         \/ AppendQuestion(t) \/ AppendAnswer(t) \/ Summarize(t) \/ StoreSummary(t)
         \/ EndTurn(t) \/ SlotLost(t)
    \/ Expire \/ DeleteConversation

ConvSpec == ConvInit /\ [][ConvNext]_convVars

-----------------------------------------------------------------------------
ConvTypeOK ==
    /\ conversation \in {"none", "open", "deleted"}
    /\ messages \in Nat /\ order \in Seq(Nat) /\ Len(order) = messages
    /\ history \in Seq(Nat) /\ upto \in Nat /\ covered \subseteq Nat
    /\ turn \in [Turns -> [pc : {"idle", "history", "rows", "refill", "answer", "flushed", "question",
                                 "reply", "summarize", "compress"},
                           mode : {"rag", "agent"}, slot : BOOLEAN, seen : SUBSET Nat, rows : Seq(Nat),
                           place : Nat, first : Nat, boundary : Nat]]
    /\ faults \in 0..MaxFaults /\ overlapped \in BOOLEAN /\ skipped \in BOOLEAN
    /\ slipped \subseteq Nat

\* Whatever turns overlap, are cut short or write their summaries out of order, the summary
\* of a conversation stands for the messages before summary_upto: one that is missing
\* there was committed after a message with a later created_at, behind a boundary already
\* drawn; and without such messages it stands for exactly these, so none is lost between the
\* summary and what it will compress next, and none is in both.  The history in Redis never
\* holds a message that the database does not.
ContextIsStored ==
    /\ upto <= messages /\ \A i \in 1..upto : order[i] \in covered \cup slipped
    /\ slipped = {} => covered = 1..upto
    /\ \A i \in 1..Len(history) : history[i] <= messages

\* As long as turns do not overlap, Redis does not fail under a turn and summaries succeed,
\* the summary and the history of a RAG turn together hold every message of the
\* conversation, and an agent turn has the latest ones and no others: what its history no
\* longer holds it does not know, summarised or not.
ContextComplete ==
    (faults = 0 /\ ~overlapped /\ ~skipped) =>
       \A t \in Turns : turn[t].pc = "answer" =>
          turn[t].seen = {m \in 1..messages : turn[t].mode = "rag" \/ m > messages - HistoryMax}

=============================================================================
