------------------------------ MODULE Chunking ------------------------------
(***************************************************************************)
(* From the segments of a parsed file to its chunks.  A segment is a       *)
(* sequence of paragraphs, a paragraph a sequence of sentences, and of a   *)
(* sentence only the length matters.  The characters of a segment are      *)
(* numbered through; 0 stands for a line break, in the segment or put in   *)
(* by the merge.  Normalisation is done: no segment has other white space. *)
(***************************************************************************)
EXTENDS Integers, Sequences, SequencesExt

CONSTANTS
    Shapes,        \* bound: segments, as sentence lengths per paragraph; <<>> is empty
    MaxSegments,   \* bound: segments of a file
    ChunkSize      \* chunk_size

\* A paragraph is not empty.
ASSUME ChunkingConstants ==
    /\ Shapes \subseteq Seq(Seq(Nat \ {0}) \ {<<>>}) /\ MaxSegments \in Nat
    /\ ChunkSize \in Nat \ {0}

VARIABLES
    strategy,   \* chunk_strategy
    overlap,    \* chunk_overlap
    segments,   \* the segments split so far
    chunks      \* StructuredChunk records of all of them

chunkVars == <<strategy, overlap, segments, chunks>>

Strategies == {"fixed", "paragraph", "recursive", "section", "semantic"}
Plus(a, b) == a + b
Total(lengths) == FoldLeft(Plus, 0, lengths)
Before(lengths, i) == Total(SubSeq(lengths, 1, i - 1))
\* The characters first, first + 1, ..., of a sentence or paragraph of that length.
Run(first, length) == [i \in 1..length |-> first + i - 1]
Sizes(shape) == [i \in DOMAIN shape |-> Total(shape[i])]
Paragraph(shape, i) == Run(Before(Sizes(shape), i) + 1, Sizes(shape)[i])
Sentence(shape, i, j) == Run(Before(Sizes(shape), i) + Before(shape[i], j) + 1, shape[i][j])
Attach(a, b) == a \o b
Flat(lists) == FoldLeft(Attach, <<>>, lists)
\* Paragraphs are separated by an empty line.
Whole(shape) ==
    Flat([i \in DOMAIN shape |-> IF i = 1 THEN Paragraph(shape, i) ELSE <<0, 0>> \o Paragraph(shape, i)])

\* _fixed_split: a window every ChunkSize - lap characters, the last ones cut off by the end.
FixedSplit(text, lap) ==
    LET pace == ChunkSize - lap IN
    [i \in 1..((Len(text) + pace - 1) \div pace) |->
       SubSeq(text, (i - 1) * pace + 1,
              IF (i - 1) * pace + ChunkSize < Len(text) THEN (i - 1) * pace + ChunkSize ELSE Len(text))]

Joined(a, b) == IF a = <<>> THEN b ELSE a \o <<0>> \o b
Lap(text) == IF text = <<>> \/ overlap = 0 THEN <<>>
               ELSE SubSeq(text, IF Len(text) > overlap THEN Len(text) - overlap + 1 ELSE 1, Len(text))
\* Mutant: the chunk under construction is given up when a long unit has to be cut.
AddUnitForgets(acc, unit) ==
    LET lapped == Joined(Lap(acc.current), unit)
        hard == FixedSplit(unit, overlap) IN
    CASE Len(Joined(acc.current, unit)) <= ChunkSize -> [acc EXCEPT !.current = Joined(@, unit)]
      [] Len(Joined(acc.current, unit)) > ChunkSize /\ Len(lapped) <= ChunkSize ->
           [done |-> Append(acc.done, acc.current), current |-> lapped]
      [] OTHER -> [done |-> acc.done \o Front(hard), current |-> Last(hard)]
\* One round of _merge_units: the unit joins the chunk under construction if both fit, else
\* it starts a new one with the end of the old, or without it, or is cut itself.
AddUnit(acc, unit) ==
    LET lapped == Joined(Lap(acc.current), unit)
        hard == FixedSplit(unit, overlap)
        closed == IF acc.current = <<>> THEN acc.done ELSE Append(acc.done, acc.current) IN
    CASE Len(Joined(acc.current, unit)) <= ChunkSize -> [acc EXCEPT !.current = Joined(@, unit)]
      [] Len(Joined(acc.current, unit)) > ChunkSize /\ Len(lapped) <= ChunkSize ->
           [done |-> closed, current |-> lapped]
      [] OTHER -> [done |-> closed \o Front(hard), current |-> Last(hard)]
MergeUnits(units) ==
    LET merged == FoldLeft(AddUnit, [done |-> <<>>, current |-> <<>>], units) IN
    IF merged.current = <<>> THEN merged.done ELSE Append(merged.done, merged.current)

\* Paragraphs that do not fit are cut, blindly or between their sentences.
ParagraphSplit(shape) ==
    MergeUnits(Flat([i \in DOMAIN shape |-> FixedSplit(Paragraph(shape, i), 0)]))
SplitLongParagraph(shape, i) == Flat([j \in DOMAIN shape[i] |-> FixedSplit(Sentence(shape, i, j), 0)])
RecursiveUnits(shape, i) ==
    IF Sizes(shape)[i] <= ChunkSize THEN <<Paragraph(shape, i)>> ELSE SplitLongParagraph(shape, i)
RecursiveSplit(shape) ==
    IF Len(Whole(shape)) <= ChunkSize THEN <<Whole(shape)>>
    ELSE MergeUnits(Flat([i \in DOMAIN shape |-> RecursiveUnits(shape, i)]))

\* _semantic_split: related neighbours are grouped as long as they fit.
AddParagraph(shape, related, groups, i) ==
    LET unit == Paragraph(shape, i) IN
    IF groups # <<>> /\ i \in related /\ Len(Last(groups)) + Len(unit) + 1 <= ChunkSize
    THEN Append(Front(groups), Joined(Last(groups), unit)) ELSE Append(groups, unit)
Grouped(shape, related) ==
    FoldLeft(LAMBDA groups, i : AddParagraph(shape, related, groups, i), <<>>, [i \in DOMAIN shape |-> i])
\* related: the paragraphs that are similar to the one before.  With one paragraph, or when
\* the embedding model fails, the split is recursive.
Splits(shape) ==
    CASE strategy = "fixed" -> {FixedSplit(Whole(shape), overlap)}
      [] strategy = "paragraph" -> {ParagraphSplit(shape)}
      [] strategy = "semantic" -> {RecursiveSplit(shape)} \cup
           (IF Len(shape) < 2 THEN {}
            ELSE {MergeUnits(Grouped(shape, related)) : related \in SUBSET (2..Len(shape))})
      [] OTHER -> {RecursiveSplit(shape)}

\* ChunkSize and overlap pass _validate.
ChunkInit ==
    /\ strategy \in Strategies /\ overlap \in 0..ChunkSize - 1
    /\ segments = <<>> /\ chunks = <<>>

\* split_segments, one segment; every chunk knows the position of its segment.
SplitSegment(shape) ==
    /\ Len(segments) < MaxSegments
    /\ segments' = Append(segments, shape)
    /\ IF shape = <<>> THEN UNCHANGED chunks
       ELSE \E pieces \in Splits(shape) :
              chunks' = chunks \o [i \in DOMAIN pieces |->
                                     [parent_seq |-> Len(segments), content |-> pieces[i]]]
    /\ UNCHANGED <<strategy, overlap>>

ChunkNext == \E shape \in Shapes : SplitSegment(shape)
ChunkSpec == ChunkInit /\ [][ChunkNext]_chunkVars

-----------------------------------------------------------------------------
ChunkTypeOK ==
    /\ strategy \in Strategies /\ overlap \in 0..ChunkSize - 1
    /\ segments \in Seq(Shapes)
    /\ chunks \in Seq([parent_seq : 0..MaxSegments - 1, content : Seq(Nat)])

\* What a text holds: the places of its letters, and the first and the last of them.
LetterPlaces(text) == {k \in DOMAIN text : text[k] # 0}
From(text) == text[Min(LetterPlaces(text))]
Upto(text) == text[Max(LetterPlaces(text))]
\* Whatever strategy, overlap and cuts in the middle of sentences, the chunks of a segment,
\* read in order, hold the whole segment: each is a contiguous piece of it of at most
\* ChunkSize characters, the first starts at its start, the last ends at its end, and no
\* character is left out between two of them.
ChunksCoverText ==
    /\ \A n \in DOMAIN segments :
          segments[n] # <<>> <=> \E i \in DOMAIN chunks : chunks[i].parent_seq = n - 1
    /\ \A i \in DOMAIN chunks :
          LET text == chunks[i].content
              segment == chunks[i].parent_seq IN
          /\ Len(text) <= ChunkSize /\ LetterPlaces(text) # {}
          /\ \A j, k \in LetterPlaces(text) : j < k => text[j] < text[k]
          /\ {text[k] : k \in LetterPlaces(text)} = From(text)..Upto(text)
          /\ IF i = 1 \/ chunks[i - 1].parent_seq # segment
             THEN From(text) = 1 /\ (i = 1 \/ chunks[i - 1].parent_seq < segment)
             ELSE From(text) <= Upto(chunks[i - 1].content) + 1 /\ Upto(chunks[i - 1].content) <= Upto(text)
          /\ i = Len(chunks) \/ chunks[i + 1].parent_seq # segment =>
                Upto(text) = Total(Sizes(segments[segment + 1]))

=============================================================================
