------------------------------ MODULE Ranking ------------------------------
(***************************************************************************)
(* One search, from the recall routes to the context of the answer: rank   *)
(* fusion, one chunk per parent, lexical re-ranking, the injection policy, *)
(* and the selection and order of the context.  Each action is one stage.  *)
(* Scores are integers: reciprocal ranks are multiplied by Unit, which     *)
(* every denominator divides.  Rounding to six decimals is finer than any  *)
(* difference of scores at this size and is left out.                      *)
(***************************************************************************)
EXTENDS Integers, Sequences, FiniteSets, SequencesExt

CONSTANTS
    Pieces,            \* chunks that the filters of the search let through
    Parent,            \* of a chunk: the section it belongs to
    Text,              \* of a chunk: its text; equal for near duplicates
    Long,              \* texts that are long enough to be compressed
    Matches,           \* of a chunk: hundredths of bonus for query terms in it
    RouteLimits,       \* bound: lengths that the five routes have together, as tuples
    K, Unit,           \* rrf_k, and the scale of the scores
    TopK,              \* retrieval_top_k
    Budget, Cost, CutCost,  \* context_max_tokens; tokens of a text, and when compressed
    MinScore           \* evidence_min_rrf_score, scaled

ASSUME RankingConstants ==
    /\ IsFiniteSet(Pieces) /\ K \in Nat /\ Unit \in Nat \ {0}
    /\ \A r \in 1..Cardinality(Pieces) : Unit % (K + r) = 0
    /\ Matches \in [Pieces -> Nat] /\ TopK \in Nat \ {0} /\ Budget \in Nat \ {0}
    /\ CutCost \in Nat \ {0} /\ \A c \in Pieces : Cost[Text[c]] \in Nat \ {0}

VARIABLES
    stage,     \* the next stage
    routes,    \* the five rankings of Recall, in this order
    found,     \* the result list
    ranked,    \* history: the list before the context is packed
    risky,     \* chunks that the patterns put in the high class
    policy,    \* injection_high_risk_action, "flag" until it matters
    answerable

rankVars == <<stage, routes, found, ranked, risky, policy, answerable>>

Result == [piece : Pieces, score : Int, cut : BOOLEAN]
Rankings(n) == {s \in SetToAllKPermutations(Pieces) : Len(s) <= n}
At(s, c) == CHOOSE i \in DOMAIN s : s[i].piece = c
Has(s, c) == \E i \in DOMAIN s : s[i].piece = c
\* A stable sort, highest score first: a result comes after those that go ahead of it.
Ahead(s, i, j) == s[i].score > s[j].score \/ (s[i].score = s[j].score /\ i < j)
Place(s, i) == Cardinality({j \in 1..Len(s) : Ahead(s, j, i)}) + 1
ByScore(s) == [k \in 1..Len(s) |-> s[CHOOSE i \in 1..Len(s) : Place(s, i) = k]]

RankInit ==
    /\ stage = "recall" /\ routes = <<>> /\ found = <<>> /\ ranked = <<>> /\ risky = {}
    /\ policy = "flag" /\ answerable = FALSE

\* Vector recall for the question and for a variant of it (bound: one), keyword, title and
\* graph recall.  A route that is switched off or finds nothing is empty, and so is one of the
\* last three that fails.
Recall ==
    /\ stage = "recall" /\ stage' = "fuse"
    /\ \E n \in RouteLimits : \E v \in Rankings(n[1]), e \in Rankings(n[2]), k \in Rankings(n[3]),
                                t \in Rankings(n[4]), g \in Rankings(n[5]) :
          routes' = <<v, e, k, t, g>>
    /\ UNCHANGED <<found, ranked, risky, policy, answerable>>

Shares(c) == [r \in 1..5 |-> IF Contains(routes[r], c)
                             THEN Unit \div (K + SelectInSeq(routes[r], LAMBDA x : x = c)) ELSE 0]
\* Mutant: a route overwrites what the routes before it gave.
LastShare(c) == FoldLeft(LAMBDA old, new : IF new > 0 THEN new ELSE old, 0, Shares(c))
\* rrf_fuse: the sum over the routes of 1 / (k + rank).
RrfScore(c) == FoldLeft(LAMBDA a, b : a + b, 0, Shares(c))

AllRows == routes[1] \o routes[2] \o routes[3] \o routes[4] \o routes[5]
AddPiece(s, c) == IF Contains(s, c) THEN s ELSE Append(s, c)
\* Equal scores keep the order of the first occurrences.
Fuse ==
    /\ stage = "fuse" /\ stage' = "parents"
    /\ LET firsts == FoldLeft(AddPiece, <<>>, AllRows)
       IN found' = ByScore([i \in DOMAIN firsts |->
                              [piece |-> firsts[i], score |-> RrfScore(firsts[i]), cut |-> FALSE]])
    /\ UNCHANGED <<routes, ranked, risky, policy, answerable>>

\* Parent-child mode: the best chunk of a section stands for it, with the text of the section.
AddParent(s, x) ==
    IF \E i \in DOMAIN s : Parent[s[i].piece] = Parent[x.piece] THEN s ELSE Append(s, x)
OnePerParent ==
    /\ stage = "parents" /\ stage' = "rerank"
    /\ found' = FoldLeft(AddParent, <<>>, found)
    /\ UNCHANGED <<routes, ranked, risky, policy, answerable>>

\* _rule_rerank: a bonus for matching terms, a penalty for a text seen before.
Bonus(s, i) ==
    (Unit \div 100) * (Matches[s[i].piece]
                       - IF \E j \in 1..(i - 1) : Text[s[j].piece] = Text[s[i].piece] THEN 25 ELSE 0)
RuleRerank ==
    /\ stage = "rerank" /\ stage' = "inject"
    /\ LET sorted == ByScore([i \in DOMAIN found |-> [found[i] EXCEPT !.score = @ + Bonus(found, i)]])
       IN found' = SubSeq(sorted, 1, IF Len(sorted) < TopK THEN Len(sorted) ELSE TopK)
    /\ UNCHANGED <<routes, ranked, risky, policy, answerable>>

Downweighted(s, S) == [i \in DOMAIN s |-> [s[i] EXCEPT !.score = IF s[i].piece \in S THEN (@ * 3) \div 10 ELSE @]]
KeepHarmless(S, kept, x) == IF x.piece \in S THEN kept ELSE Append(kept, x)
Harmless(s, S) == FoldLeft(LAMBDA kept, x : KeepHarmless(S, kept, x), <<>>, s)
\* Mutant: the scores are lowered and the order is kept.
PolicyWithoutSort(p, s, S) ==
    CASE p = "remove" -> Harmless(s, S)
      [] p = "downweight" -> Downweighted(s, S)
      [] OTHER -> s
\* apply_injection_policy with the factor 0.3.
ApplyPolicy(p, s, S) ==
    CASE p = "remove" -> Harmless(s, S)
      [] p = "downweight" -> ByScore(Downweighted(s, S))
      [] OTHER -> s
\* At most one chunk is in the high class: bound.
Inject ==
    /\ stage = "inject" /\ stage' = "pack"
    /\ \E i \in DOMAIN found, p \in {"flag", "downweight", "remove"} :
          /\ policy' = p /\ risky' = {found[i].piece} /\ found' = ApplyPolicy(p, found, {found[i].piece})
    /\ ranked' = found
    /\ UNCHANGED <<routes, answerable>>
\* Nothing suspicious was found.
InjectNothing ==
    /\ stage = "inject" /\ stage' = "pack"
    /\ ranked' = found
    /\ UNCHANGED <<routes, found, risky, policy, answerable>>

\* The raw text is compared with texts that may have been compressed already.
Similar(x, y) == Text[x.piece] = Text[y.piece] /\ ~y.cut
KeepDistinct(kept, x) ==
    IF \E i \in DOMAIN kept : Similar(x, kept[i]) THEN kept
    ELSE Append(kept, [x EXCEPT !.cut = Text[x.piece] \in Long])
Distinct(s) == FoldLeft(KeepDistinct, <<>>, s)
Odd(s) == [i \in 1..(Len(s) - 1) \div 2 |-> s[2 * i + 1]]     \* 3rd, 5th, ...
Even(s) == [i \in 1..(Len(s) - 2) \div 2 |-> s[2 * i + 2]]    \* 4th, 6th, ...
\* Mutant: the second best follows the best.
KeepOrder(s) == s
\* _lost_in_middle_order: the best first, the second best last.
LostInMiddle(s) == IF Len(s) < 3 THEN s ELSE <<s[1]>> \o Odd(s) \o Reverse(Even(s)) \o <<s[2]>>
Weight(x) == IF x.cut THEN CutCost ELSE Cost[Text[x.piece]]
Estimate(x) == IF Weight(x) > Budget THEN Budget ELSE Weight(x)   \* a text is cut to the budget
AddEstimate(n, x) == n + Estimate(x)
Spent(s) == FoldLeft(AddEstimate, 0, s)
KeepFitting(kept, x) ==
    IF kept # <<>> /\ Spent(kept) + Weight(x) > Budget THEN kept ELSE Append(kept, x)
Fits(s) == FoldLeft(KeepFitting, <<>>, s)
\* prepare_context.
Pack ==
    /\ stage = "pack" /\ stage' = "assess"
    /\ found' = Fits(LostInMiddle(Distinct(found))) /\ ranked' = found
    /\ UNCHANGED <<routes, risky, policy, answerable>>

\* assess_evidence, of what the context holds.
Assess ==
    /\ stage = "assess" /\ stage' = "done"
    /\ answerable' = \E i \in DOMAIN found : found[i].score >= MinScore
    /\ UNCHANGED <<routes, found, ranked, risky, policy>>

RankNext == Recall \/ Fuse \/ OnePerParent \/ RuleRerank \/ Inject \/ InjectNothing \/ Pack \/ Assess
RankSpec == RankInit /\ [][RankNext]_rankVars

-----------------------------------------------------------------------------
RankTypeOK ==
    /\ stage \in {"recall", "fuse", "parents", "rerank", "inject", "pack", "assess", "done"}
    /\ routes \in Seq(Seq(Pieces)) /\ found \in Seq(Result) /\ ranked \in Seq(Result)
    /\ risky \subseteq Pieces /\ answerable \in BOOLEAN

Rank(s, c) == IF Contains(s, c) THEN SelectInSeq(s, LAMBDA x : x = c) ELSE Cardinality(Pieces) + 1
\* Fusion respects what the routes agree on: a chunk that no route puts lower than another,
\* and that some route puts higher, comes first.
FusionRespectsAgreement ==
    stage = "parents" =>
       \A i, j \in DOMAIN found :
          LET a == found[i].piece
              b == found[j].piece IN
          (/\ \A r \in 1..5 : Rank(routes[r], a) <= Rank(routes[r], b)
           /\ \E r \in 1..5 : Rank(routes[r], a) < Rank(routes[r], b)) => i < j

\* A chunk of the high class loses ranking power: what is not worth three tenths of a
\* harmless chunk stands below it.  (A negative score rises, but not above this.)
RiskyLosesRank ==
    (stage = "pack" /\ policy = "downweight") =>
       \A i, j \in DOMAIN ranked :
          LET a == ranked[i].piece
              b == ranked[j].piece IN
          (a \notin risky /\ b \in risky /\ 10 * ranked[i].score > 3 * ranked[j].score) =>
             At(found, a) < At(found, b)

\* The context of a nonempty result is not empty, fits the budget and starts with the best
\* chunk; with three chunks or more the second best, when it is there, ends it, and
\* relevance first falls and then rises.
ContextShape ==
    stage \in {"assess", "done"} =>
       LET n == Len(found)
           place(i) == At(ranked, found[i].piece)
           second == Distinct(ranked)[2].piece IN
       /\ (ranked # <<>>) = (n > 0) /\ Spent(found) <= Budget
       /\ n > 0 => found[1].piece = ranked[1].piece
       /\ n > 2 /\ Has(found, second) => found[n].piece = second
       /\ \A i \in 2..(n - 1) : ~(place(i) < place(i - 1) /\ place(i + 1) > place(i))

=============================================================================
