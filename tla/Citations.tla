----------------------------- MODULE Citations -----------------------------
(***************************************************************************)
(* From the generated text to what is stored: citation check, entailment   *)
(* check, repair, extractive fallback, persistence and cache.  A text is a *)
(* sequence of lines, and a line is one of a few kinds:                    *)
(*   cited     factual, every reference is to a source                     *)
(*   wrong     has a reference to a source that does not exist             *)
(*   marks     valid references and nothing else                           *)
(*   prose     factual, without reference       bullet  the same in a list *)
(*   short     neither                          label   a short "...:"     *)
(*   heading   also quotes and rules            blank   nothing            *)
(*   wronghead a heading with a reference to no source                     *)
(*   span      factual, with code between ``` before its valid references  *)
(*   fence     opens or closes a code block     longfence  the same with 12  *)
(*             or more characters               markfence  with a reference *)
(*   rest      what the removal of an empty code block leaves of a markfence *)
(***************************************************************************)
EXTENDS Integers, Sequences, SequencesExt

CONSTANTS
    Generated,   \* bound: the kinds of line the model writes
    MaxLines     \* bound: lines of a generated text

Kinds == {"cited", "wrong", "marks", "prose", "bullet", "short", "label", "heading", "blank",
          "wronghead", "span", "fence", "longfence", "markfence", "rest"}
Fences == {"fence", "longfence", "markfence"}
Cites == {"cited", "marks", "span", "markfence", "rest"}
\* Lines of a JSON text begin with none of #, > and ```.
JsonKinds == Kinds \ (Fences \cup {"heading", "wronghead"})
ASSUME CitationConstants == Generated \subseteq Kinds /\ MaxLines \in Nat

VARIABLES
    step,       \* what the stream does next
    mode,       \* "rag"; "json", the same in the JSON format; "agent"; "bare": an agent without source
    quoting,    \* a source contains a bracketed number that is no reference
    raw,        \* the generated text
    text,       \* the text to persist
    valid,      \* validation["valid"]
    persisted,  \* the persisted text, once it is
    stored      \* whether it is in the semantic cache

citeVars == <<step, mode, quoting, raw, text, valid, persisted, stored>>

InChat == mode \in {"rag", "json"}

\* validate_citations; without a source nothing is valid.  List items may lack a reference;
\* the name of a language behind ``` counts as a claim from 12 characters on.
CitationsValid(s) ==
    /\ mode # "bare"
    /\ \E i \in DOMAIN s : s[i] \in Cites
    /\ \A i \in DOMAIN s : s[i] \notin {"wrong", "wronghead", "prose", "longfence"}
Substantive(s) ==
    \E i \in DOMAIN s : s[i] \in {"cited", "span", "wrong", "prose", "bullet", "heading", "wronghead"}

InFence(s, i) == Len(SelectSeq(SubSeq(s, 1, i - 1), LAMBDA k : k \in Fences)) % 2 = 1
\* Mutant: inside a code block only the fences stay.
KeepsNoCode(s, i) ==
    \/ s[i] \in Fences
    \/ s[i] \in {"blank", "heading", "wronghead", "cited", "marks", "span", "label"} /\ ~InFence(s, i)
\* repair_citations: a line stays for its form, or for references that all exist.
Keeps(s, i) ==
    \/ s[i] \in Fences \cup Cites \cup {"blank", "heading", "wronghead"}
    \/ s[i] = "label" /\ ~InFence(s, i)
KeepLine(s, kept, i) == IF Keeps(s, i) THEN Append(kept, s[i]) ELSE kept
KeptLines(s) == FoldLeft(LAMBDA kept, i : KeepLine(s, kept, i), <<>>, [i \in DOMAIN s |-> i])
Written(s) == {i \in DOMAIN s : s[i] # "blank"}
Trimmed(s) == IF Written(s) = {} THEN <<>> ELSE SubSeq(s, Min(Written(s)), Max(Written(s)))
\* From ``` at the start of a line, or within one, to a fence with nothing but blank lines
\* between them the text goes, also when the first closes one block and the second opens the
\* next: what is left is the beginning of the one line and the end of the other.
Left(a, k) == CASE k = "markfence" -> "rest"
                [] k = "longfence" \/ (k = "fence" /\ a = "span") -> "short"
                [] OTHER -> "blank"
AddLine(out, k) ==
    IF k \in Fences /\ Written(out) # {} /\ out[Max(Written(out))] \in Fences \cup {"span"}
    THEN Append(SubSeq(out, 1, Max(Written(out)) - 1), Left(out[Max(Written(out))], k))
    ELSE Append(out, k)
WithoutEmptyFences(s) == FoldLeft(AddLine, <<>>, s)
Repaired(s) == IF mode = "bare" THEN <<>> ELSE Trimmed(WithoutEmptyFences(Trimmed(KeptLines(s))))
\* _build_grounded_fallback quotes the sources, each with its number.
Fallback == <<"heading", "blank", "cited", IF quoting THEN "wrong" ELSE "cited">>
Refusal == <<"prose">>

CiteInit ==
    /\ step = "generate" /\ mode \in {"rag", "json", "agent", "bare"} /\ quoting \in BOOLEAN
    /\ raw = <<>> /\ text = <<>> /\ valid = FALSE /\ persisted = <<>> /\ stored = FALSE

\* stream_answer or run_agent.
Generate ==
    /\ step = "generate" /\ step' = "check"
    /\ \E s \in SeqOf(Generated, MaxLines) :
          /\ mode = "json" => Written(s) # {} /\ Range(s) \subseteq JsonKinds
          /\ raw' = s /\ text' = s
    /\ UNCHANGED <<mode, quoting, valid, persisted, stored>>
\* When the model fails, a chat falls back on the sources; an agent turn ends, as does a chat
\* in the JSON format, also when the text is not of that format.
GenerateFails ==
    /\ step = "generate"
    /\ IF mode = "rag" THEN step' = "check" /\ raw' = Fallback /\ text' = Fallback
                       ELSE step' = "done" /\ UNCHANGED <<raw, text>>
    /\ UNCHANGED <<mode, quoting, valid, persisted, stored>>

\* The judge, where it is asked, may find a claim unsupported or be unavailable.
CheckCitations ==
    /\ step = "check"
    /\ \E supported \in BOOLEAN :
          /\ valid' = (CitationsValid(raw) /\ supported)
          /\ step' = IF valid' THEN "substance" ELSE "repair"
    /\ UNCHANGED <<mode, quoting, raw, text, persisted, stored>>

\* Mutant: the repaired text is not checked again.
RepairUnchecked ==
    /\ step = "repair" /\ step' = "substance"
    /\ text' = Repaired(raw) /\ valid' = TRUE
    /\ UNCHANGED <<mode, quoting, raw, persisted, stored>>
\* The repaired text is used if it passes the check; the judge is not asked again.
Repair ==
    /\ step = "repair" /\ step' = "substance"
    /\ LET repaired == Repaired(raw) IN
       text' = CASE CitationsValid(repaired) -> repaired
                 [] ~CitationsValid(repaired) /\ InChat -> Fallback
                 [] OTHER -> Refusal
    /\ valid' = CitationsValid(text')
    /\ UNCHANGED <<mode, quoting, raw, persisted, stored>>

\* A chat does not show an answer without substance.
RequireSubstance ==
    /\ step = "substance" /\ step' = "persist"
    /\ IF ~InChat \/ Substantive(text) THEN UNCHANGED <<text, valid>>
       ELSE text' = Fallback /\ valid' = CitationsValid(Fallback)
    /\ UNCHANGED <<mode, quoting, raw, persisted, stored>>

PersistAnswer ==
    /\ step = "persist" /\ step' = "store"
    /\ persisted' = text
    /\ UNCHANGED <<mode, quoting, raw, text, valid, stored>>
StoreAnswer ==
    /\ step = "store" /\ step' = "done"
    /\ stored' = (InChat /\ valid)
    /\ UNCHANGED <<mode, quoting, raw, text, valid, persisted>>

CiteNext ==
    \/ Generate \/ GenerateFails \/ CheckCitations \/ Repair \/ RequireSubstance
    \/ PersistAnswer \/ StoreAnswer
CiteSpec == CiteInit /\ [][CiteNext]_citeVars

-----------------------------------------------------------------------------
CiteTypeOK ==
    /\ step \in {"generate", "check", "repair", "substance", "persist", "store", "done"}
    /\ mode \in {"rag", "json", "agent", "bare"} /\ quoting \in BOOLEAN
    /\ raw \in Seq(Kinds) /\ text \in Seq(Kinds) /\ persisted \in Seq(Kinds)
    /\ valid \in BOOLEAN /\ stored \in BOOLEAN

\* No claim outside a list without a reference to an existing source is ever stored: what is
\* persisted is a text whose references all exist and whose claims, list items excepted, all
\* have one, the refusal of an agent, or, when a source itself contains a bracketed number, the
\* quotation of the sources.  A list item without reference is stored only in an answer that
\* passed the check as it was generated, never in a repaired one.  What the cache serves again
\* is never one of the other exceptions, nor without substance.
Sound(s) == /\ \A i \in DOMAIN s : s[i] \notin {"prose", "longfence", "wrong", "wronghead"}
            /\ \E i \in DOMAIN s : s[i] \in Cites
Unlisted(s) == \A i \in DOMAIN s : s[i] # "bullet"
StoredIsCited ==
    /\ \/ persisted = <<>> \/ Sound(persisted)
       \/ persisted = Fallback /\ quoting
       \/ persisted = Refusal /\ ~InChat
    /\ Unlisted(persisted) \/ persisted = raw
    /\ stored => Sound(persisted) /\ Substantive(persisted)

\* The lines of the kinds K in a text.
AddReference(K, refs, k) == IF k \in K THEN Append(refs, k) ELSE refs
References(K, s) == FoldLeft(LAMBDA refs, k : AddReference(K, refs, k), <<>>, s)
\* Repair never loses a line whose references are valid, in a code block or outside, nor
\* changes their order, unless ``` stands before them on their line: then they stay in a text
\* without code blocks, but the removal of empty ones may take them for part of one.  Or the
\* answer is replaced as a whole.
RepairKeepsSupported ==
    persisted \notin {<<>>, Fallback, Refusal} =>
       /\ References({"cited", "marks"}, persisted) = References({"cited", "marks"}, raw)
       /\ (\A i \in DOMAIN raw : raw[i] \notin Fences) =>
             References({"cited", "marks", "span"}, persisted) = References({"cited", "marks", "span"}, raw)

=============================================================================
