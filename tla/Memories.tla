------------------------------ MODULE Memories ------------------------------
(***************************************************************************)
(* The long-term memory of an agent turn: messages of earlier              *)
(* conversations, ranked by relevance, explicit wishes and recency, and    *)
(* packed into a number of items and of characters.                        *)
(***************************************************************************)
EXTENDS Integers, Sequences, FiniteSets, SequencesExt

CONSTANTS
    Notes,           \* texts of messages; equal for messages with the same normalised text
    NoteLength, NoteHits, NoteStable,   \* of a text: length, words shared with the question,
                     \* whether it has a marker such as "remember"
    QuestionNote,    \* the text that is the question itself
    MaxStored,       \* bound: messages among the candidates
    MemoryItems, MemoryChars   \* agent_memory_max_items, agent_memory_max_chars

ASSUME MemoryConstants ==
    /\ NoteLength \in [Notes -> Nat] /\ NoteHits \in [Notes -> Nat] /\ NoteStable \in [Notes -> BOOLEAN]
    /\ MaxStored \in Nat /\ MemoryItems \in Nat \ {0} /\ MemoryChars \in Nat

VARIABLES
    inbox,      \* messages, the newest first
    broad,      \* the question asks what is remembered
    recalled,   \* the memories are loaded
    memories    \* the texts in the prompt

memVars == <<inbox, broad, recalled, memories>>

\* eligible: written by the same user, about the same knowledge base, in another conversation.
StoredNote == [note : Notes, eligible : BOOLEAN]

MemInit ==
    /\ inbox \in SeqOf(StoredNote, MaxStored) /\ broad \in BOOLEAN
    /\ recalled = FALSE /\ memories = <<>>

\* The messages the query returns, and the place of one of them, counting from 0.
Rows == {i \in DOMAIN inbox : inbox[i].eligible}
RecencyRank(i) == Cardinality({j \in Rows : j < i})
\* The score times the number of candidates.
Score(rank, note) ==
    Cardinality(Rows) * (5 * NoteHits[note] + (IF NoteStable[note] THEN IF broad THEN 7 ELSE 4 ELSE 0))
    + Cardinality(Rows) - rank
\* The candidates without repetitions and without the question, each at its newest place.
Candidates ==
    {[note |-> inbox[i].note, score |-> Score(RecencyRank(i), inbox[i].note), rank |-> RecencyRank(i)] :
       i \in {i \in Rows : inbox[i].note # QuestionNote
                           /\ \A j \in Rows : j < i => inbox[j].note # inbox[i].note}}
MoreRelevant(a, b) == a.score > b.score \/ (a.score = b.score /\ a.rank < b.rank)
ByRelevance ==
    [k \in 1..Cardinality(Candidates) |->
       CHOOSE c \in Candidates : Cardinality({b \in Candidates : MoreRelevant(b, c)}) + 1 = k]
AddChars(n, x) == n + NoteLength[x] + 3
Chars(s) == FoldLeft(AddChars, 0, s)
\* Mutant: the first memory has to fit as well.
TakeMemoryThatFits(s, x) ==
    IF Len(s) >= MemoryItems \/ Chars(s) + NoteLength[x] + 3 > MemoryChars THEN s ELSE Append(s, x)
\* rank_memories: what does not fit is passed over, unless it is the first.
TakeMemory(s, x) ==
    IF Len(s) >= MemoryItems \/ (s # <<>> /\ Chars(s) + NoteLength[x] + 3 > MemoryChars) THEN s
    ELSE Append(s, x)
TakeCandidate(s, c) == TakeMemory(s, c.note)
\* load_agent_memories.
RecallMemories ==
    /\ ~recalled /\ recalled' = TRUE
    /\ memories' = FoldLeft(TakeCandidate, <<>>, ByRelevance)
    /\ UNCHANGED <<inbox, broad>>

MemNext == RecallMemories
MemSpec == MemInit /\ [][MemNext]_memVars

-----------------------------------------------------------------------------
MemTypeOK ==
    /\ inbox \in Seq(StoredNote) /\ broad \in BOOLEAN
    /\ recalled \in BOOLEAN /\ memories \in Seq(Notes)

\* The prompt holds the most relevant memory whatever its length, each text once, nothing
\* from another user or from this conversation, and no more than fits besides it; a memory
\* that is left out does not fit, or the list is full of memories that score no lower.
MemoriesFit ==
    recalled =>
       LET n == Len(memories) IN
       /\ (Candidates # {}) = (n > 0) /\ n <= MemoryItems
       /\ n > 1 => Chars(memories) <= MemoryChars
       /\ Cardinality(Range(memories)) = n
       /\ \A i \in 1..n : \E c \in Candidates : c.note = memories[i]
       /\ \A c \in Candidates : n > 0 => \E b \in Candidates : b.note = memories[1] /\ b.score >= c.score
       /\ \A c \in Candidates :
             \/ Contains(memories, c.note) \/ Chars(memories) + NoteLength[c.note] + 3 > MemoryChars
             \/ n = MemoryItems /\ \A b \in Candidates : Contains(memories, b.note) => b.score >= c.score

=============================================================================
