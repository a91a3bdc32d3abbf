------------------------------- MODULE Agent -------------------------------
(***************************************************************************)
(* One agent turn: the loop of model calls and tool calls, and the sources *)
(* sent with the answer.  The model is free to call any tool or to answer; *)
(* the corpus changes while the loop runs, one chunk at a time.            *)
(***************************************************************************)
EXTENDS Integers, Sequences, FiniteSets, SequencesExt

CONSTANTS
    AgentSteps,      \* agent_max_steps
    IndexedChunks,   \* chunks of all indexes of the knowledge base, past and future
    PerSearch,       \* bound: chunks of one search result
    PerAnswer        \* bound: tool calls in one reply of the model

ASSUME AgentConstants ==
    /\ AgentSteps \in Nat \ {0} /\ IsFiniteSet(IndexedChunks) /\ PerSearch \in Nat /\ PerAnswer \in Nat

VARIABLES
    agentPc, round, \* where the turn is, the index of the model call
    corpus,        \* chunks a search can return now
    cited,         \* chunk ids, in the order in which they were first shown
    shown,         \* history: the numbers the model has seen in front of chunks
    toolCalls,     \* calls of the reply that are still to execute
    sent           \* the sources event

agentVars == <<agentPc, round, corpus, cited, shown, toolCalls, sent>>

AgentInit ==
    /\ agentPc = "ask" /\ round = 0
    /\ corpus \in SUBSET IndexedChunks
    /\ cited = <<>> /\ shown = {} /\ toolCalls = 0 /\ sent = <<>>

\* A reply with tool calls.  The last request offers no tools; a model that calls one all the
\* same is obeyed.
AskForTools ==
    /\ agentPc = "ask"
    /\ toolCalls' \in 1..PerAnswer /\ agentPc' = "tools"
    /\ UNCHANGED <<round, corpus, cited, shown, sent>>
\* A reply without: the answer, with every chunk that was shown as its sources.
AnswerQuestion ==
    /\ agentPc = "ask" /\ agentPc' = "done"
    /\ sent' = cited
    /\ UNCHANGED <<round, corpus, cited, shown, toolCalls>>
\* No request is left: a fixed text takes the place of the answer, with the same sources.
GiveUp ==
    /\ agentPc = "exhausted" /\ agentPc' = "done"
    /\ sent' = cited
    /\ UNCHANGED <<round, corpus, cited, shown, toolCalls>>
\* An error of the model ends the turn without sources, and nothing is stored.
ModelFails ==
    /\ agentPc = "ask" /\ agentPc' = "failed"
    /\ UNCHANGED <<round, corpus, cited, shown, toolCalls, sent>>

\* After the last call of a reply the model is asked again, until its requests are used up.
ToolEnds ==
    /\ toolCalls' = toolCalls - 1
    /\ IF toolCalls > 1 THEN UNCHANGED <<agentPc, round>>
       ELSE IF round < AgentSteps - 1 THEN agentPc' = "ask" /\ round' = round + 1
       ELSE agentPc' = "exhausted" /\ round' = round
\* A chunk that was not shown before takes the next place.
TakeChunk(s, c) == IF Contains(s, c) THEN s ELSE Append(s, c)
WithNew(s, found) == FoldLeft(TakeChunk, s, found)
\* Mutant: the chunks of a result are numbered by their place in it.
NumberInResult(found, c) == SelectInSeq(found, LAMBDA x : x = c)
\* A chunk has the number of its place among all that were shown in this turn.
Number(found, c) == SelectInSeq(WithNew(cited, found), LAMBDA x : x = c)
\* search_knowledge_base.
Search ==
    /\ agentPc = "tools"
    /\ \E found \in {s \in SetToAllKPermutations(corpus) : Len(s) <= PerSearch} :
          /\ cited' = WithNew(cited, found)
          /\ shown' = shown \cup {<<Number(found, found[i]), found[i]>> : i \in DOMAIN found}
    /\ ToolEnds
    /\ UNCHANGED <<corpus, sent>>
\* list_documents, an unknown tool, an empty query, or a failed call: a text and no source.
\* (After a database error the later tools of the turn fail too; here they need not.)
OtherTool ==
    /\ agentPc = "tools"
    /\ ToolEnds
    /\ UNCHANGED <<corpus, cited, shown, sent>>

\* Outside the turn an index goes on line or off.
CorpusChanges(c) ==
    /\ agentPc = "tools"
    /\ corpus' = IF c \in corpus THEN corpus \ {c} ELSE corpus \cup {c}
    /\ UNCHANGED <<agentPc, round, cited, shown, toolCalls, sent>>

AgentNext ==
    \/ AskForTools \/ AnswerQuestion \/ GiveUp \/ ModelFails \/ Search \/ OtherTool
    \/ \E c \in IndexedChunks : CorpusChanges(c)
AgentSpec == AgentInit /\ [][AgentNext]_agentVars

-----------------------------------------------------------------------------
AgentTypeOK ==
    /\ agentPc \in {"ask", "tools", "exhausted", "done", "failed"} /\ round \in 0..AgentSteps - 1
    /\ corpus \subseteq IndexedChunks /\ cited \in Seq(IndexedChunks)
    /\ shown \subseteq (Nat \ {0}) \X IndexedChunks
    /\ toolCalls \in 0..PerAnswer /\ sent \in Seq(IndexedChunks)

\* However many searches a turn makes, in whatever order they return chunks again and while
\* indexes change between them: every number the model has seen is, in the sources sent with
\* the answer, the number of the chunk it saw it on.
NumbersNameSources ==
    agentPc = "done" =>
       \A s \in shown : s[1] \in DOMAIN sent /\ sent[s[1]] = s[2]

=============================================================================
