--------------------------- MODULE RetrievalProofs ---------------------------
(***************************************************************************)
(* What a search hands on: the order of the fused and of the downweighted  *)
(* list, the shape of the context, the numbers an agent gives to the       *)
(* chunks it finds, and the memories it starts with.                       *)
(***************************************************************************)
EXTENDS Agent, Ranking, Memories, DataLemmas

-----------------------------------------------------------------------------
(* Agent.                                                                    *)

\* The fold of a search result, one chunk after the other.
LEMMA WithNewFolds ==
  ASSUME NEW s \in Seq(IndexedChunks), NEW hits \in Seq(IndexedChunks)
  PROVE  \E h : /\ h[0] = s /\ WithNew(s, hits) = h[Len(hits)]
                /\ \A k \in 1..Len(hits) : h[k] = TakeChunk(h[k - 1], hits[k])
  <1> DEFINE n == Len(hits)
             T == Seq(IndexedChunks)
             g == [p \in T \X (1..n) |-> TakeChunk(p[1], hits[p[2]])]
             F == [r \in SUBSET (1..n) |-> s]
             Equation(f) == f = [r \in SUBSET (1..n) |->
                              IF r = {} THEN s ELSE TakeChunk(f[r \ {Max(r)}], hits[Max(r)])]
  <1>0. n \in Nat /\ DOMAIN hits = 1..n
    OBVIOUS
  <1>1. g \in [T \X (1..n) -> T]
    <2>1. \A a \in T, i \in 1..n : TakeChunk(a, hits[i]) \in T
      BY DEF TakeChunk
    <2> QED
      BY <2>1
  <1>2. PICK f \in [SUBSET (1..n) -> T] : IsFold(f, g, s, n)
    <2> HIDE DEF g, n, T
    <2>1. s \in T
      BY DEF T
    <2> QED
      BY <1>0, <1>1, <2>1, FoldExists
  <1>3. Equation(f)
    <2>1. ASSUME NEW r \in SUBSET (1..n)
          PROVE  f[r] = IF r = {} THEN s ELSE TakeChunk(f[r \ {Max(r)}], hits[Max(r)])
      <3>1. CASE r = {}
        BY <1>2, <3>1 DEF IsFold
      <3>2. CASE r # {}
        <4>1. Max(r) \in r /\ Max(r) \in 1..n
          BY <1>0, <3>2, NatMax
        <4>2. f[r] = g[<<f[r \ {Max(r)}], Max(r)>>]
          BY <1>2, <3>2 DEF IsFold
        <4>3. f[r \ {Max(r)}] \in T
          BY <1>2
        <4> HIDE DEF T, n
        <4> QED
          BY <3>2, <4>1, <4>2, <4>3
      <3> QED
        BY <3>1, <3>2
    <2> QED
      BY <2>1
  <1>4. PICK e : Equation(e) /\ WithNew(s, hits) = e[1..n]
    BY <1>0, <1>3 DEF WithNew, FoldLeft, MapThenFoldSet
  <1>5. Folds(e, T, g, s, n)
    <2>1. \A r \in SUBSET (1..n) :
             e[r] = IF r = {} THEN s ELSE TakeChunk(e[r \ {Max(r)}], hits[Max(r)])
      BY <1>4
    <2>2. ASSUME NEW r \in SUBSET (1..n), r # {}, e[r \ {Max(r)}] \in T
          PROVE  e[r] = g[<<e[r \ {Max(r)}], Max(r)>>]
      <3>1. Max(r) \in r /\ Max(r) \in 1..n
        BY <1>0, <2>2, NatMax
      <3> HIDE DEF T, n
      <3> QED
        BY <2>1, <2>2, <3>1
    <2> HIDE DEF T, n, g
    <2> QED
      BY <2>1, <2>2 DEF Folds
  <1>6. PICK h : IsChain(h, e, T, g, s, n)
    <2>1. s \in T
      OBVIOUS
    <2> HIDE DEF T, n, g, Equation
    <2> QED
      BY <1>0, <1>1, <1>5, <2>1, FoldChain
  <1>7. ASSUME NEW k \in 1..n PROVE h[k] = TakeChunk(h[k - 1], hits[k])
    <2>1. h[k - 1] \in T
      BY <1>0, <1>6 DEF IsChain
    <2> HIDE DEF T, n
    <2> QED
      BY <1>6, <2>1 DEF IsChain
  <1>8. h[0] = s /\ h[n] = e[1..n]
    BY <1>6 DEF IsChain
  <1> QED
    BY <1>4, <1>7, <1>8

\* A search keeps the places of what was shown before and gives every chunk it finds one.
LEMMA WithNewPlaces ==
  ASSUME NEW s \in Seq(IndexedChunks), NEW hits \in Seq(IndexedChunks)
  PROVE  /\ WithNew(s, hits) \in Seq(IndexedChunks) /\ Len(s) <= Len(WithNew(s, hits))
         /\ \A i \in 1..Len(s) : WithNew(s, hits)[i] = s[i]
         /\ \A j \in 1..Len(hits) : Contains(WithNew(s, hits), hits[j])
  <1> DEFINE n == Len(hits)
             Keeps(u) == /\ u \in Seq(IndexedChunks) /\ Len(s) <= Len(u)
                         /\ \A i \in 1..Len(s) : u[i] = s[i]
             Holds(u, k) == \A j \in 1..k : Contains(u, hits[j])
  <1>1. PICK h : /\ h[0] = s /\ WithNew(s, hits) = h[n]
                 /\ \A k \in 1..n : h[k] = TakeChunk(h[k - 1], hits[k])
    BY WithNewFolds
  <1>2. ASSUME NEW u \in Seq(IndexedChunks), NEW c \in IndexedChunks
        PROVE  /\ TakeChunk(u, c) \in Seq(IndexedChunks) /\ Len(u) <= Len(TakeChunk(u, c))
               /\ \A i \in 1..Len(u) : TakeChunk(u, c)[i] = u[i]
               /\ Contains(TakeChunk(u, c), c)
               /\ \A d : Contains(u, d) => Contains(TakeChunk(u, c), d)
    <2>1. CASE Contains(u, c)
      BY <2>1 DEF TakeChunk
    <2>2. CASE ~Contains(u, c)
      <3> DEFINE w == Append(u, c)
      <3>1. /\ w \in Seq(IndexedChunks) /\ Len(w) = Len(u) + 1 /\ w[Len(u) + 1] = c
            /\ \A i \in 1..Len(u) : w[i] = u[i]
        OBVIOUS
      <3>2. TakeChunk(u, c) = w
        BY <2>2 DEF TakeChunk
      <3> HIDE DEF w
      <3>3. Len(u) \in Nat
        OBVIOUS
      <3>4. \A d : Contains(u, d) => Contains(w, d)
        BY <3>1, <3>3 DEF Contains
      <3>5. Contains(w, c)
        <4>1. Len(u) + 1 \in 1..Len(w)
          BY <3>1, <3>3
        <4> QED
          BY <3>1, <4>1 DEF Contains
      <3> QED
        BY <3>1, <3>2, <3>3, <3>4, <3>5
    <2> QED
      BY <2>1, <2>2
  <1> DEFINE G == {k \in 0..n : Keeps(h[k]) /\ Holds(h[k], k)}
  <1>3. 0 \in G
    BY <1>1
  <1>4. ASSUME NEW k \in 1..n, k - 1 \in G PROVE k \in G
    <2>1. Keeps(h[k - 1]) /\ Holds(h[k - 1], k - 1)
      BY <1>4
    <2>2. PICK u \in Seq(IndexedChunks) : u = h[k - 1]
      BY <2>1
    <2>3. hits[k] \in IndexedChunks
      OBVIOUS
    <2>4. PICK w : w = TakeChunk(u, hits[k])
      OBVIOUS
    <2>5. /\ w \in Seq(IndexedChunks) /\ Len(u) <= Len(w)
          /\ \A i \in 1..Len(u) : w[i] = u[i]
          /\ Contains(w, hits[k])
          /\ \A d : Contains(u, d) => Contains(w, d)
      BY <1>2, <2>3, <2>4
    <2>6. Keeps(u) /\ Holds(u, k - 1) /\ h[k] = w
      BY <1>1, <2>1, <2>2, <2>4
    <2>7. Keeps(w)
      <3>1. Len(s) \in Nat /\ Len(u) \in Nat /\ Len(w) \in Nat
        BY <2>5
      <3> QED
        BY <2>5, <2>6, <3>1
    <2>8. Holds(w, k)
      <3> SUFFICES ASSUME NEW j \in 1..k PROVE Contains(w, hits[j])
        OBVIOUS
      <3>1. CASE j = k
        BY <2>5, <3>1
      <3>2. CASE j # k
        <4>1. j \in 1..k - 1
          BY <3>2
        <4> QED
          BY <2>5, <2>6, <4>1
      <3> QED
        BY <3>1, <3>2
    <2> HIDE DEF Keeps, Holds
    <2> QED
      BY <2>6, <2>7, <2>8
  <1>5. n \in Nat /\ n \in 0..n
    OBVIOUS
  <1>6. n \in G
    <2> HIDE DEF G, n
    <2> QED
      BY <1>3, <1>4, <1>5, UpTo
  <1> QED
    BY <1>1, <1>6

\* The number of a chunk is a place where it stands.
LEMMA NumberIsPlace ==
  ASSUME NEW u \in Seq(IndexedChunks), NEW c, Contains(u, c)
  PROVE  /\ SelectInSeq(u, LAMBDA x : x = c) \in 1..Len(u)
         /\ u[SelectInSeq(u, LAMBDA x : x = c)] = c
  <1> DEFINE I == {i \in 1..Len(u) : u[i] = c}
  <1>1. I # {} /\ I \in SUBSET Nat
    BY DEF Contains
  <1>2. SelectInSeq(u, LAMBDA x : x = c) = Min(I)
    BY <1>1 DEF SelectInSeq
  <1>3. Min(I) \in I
    <2> HIDE DEF I
    <2> QED
      BY <1>1, NatMin DEF Min
  <1> QED
    BY <1>2, <1>3

\* The numbers shown are those of the chunks in cited, and cited is what is sent.
AgentInv ==
    /\ corpus \subseteq IndexedChunks /\ cited \in Seq(IndexedChunks)
    /\ \A p \in shown : p[1] \in 1..Len(cited) /\ cited[p[1]] = p[2]
    /\ agentPc = "done" => sent = cited

\* The numbers shown so far are places in the list of sources, which only grows.
LEMMA AgentInvariant == AgentSpec => []AgentInv
  <1>1. AgentInit => AgentInv
    BY DEF AgentInit, AgentInv
  <1>2. AgentInv /\ [AgentNext]_agentVars => AgentInv'
    <2> SUFFICES ASSUME AgentInv, [AgentNext]_agentVars PROVE AgentInv'
      OBVIOUS
    <2>1. CASE AskForTools \/ AnswerQuestion \/ GiveUp \/ ModelFails \/ UNCHANGED agentVars
      BY <2>1 DEF AskForTools, AnswerQuestion, GiveUp, ModelFails, agentVars, AgentInv
    <2>2. CASE OtherTool \/ \E c \in IndexedChunks : CorpusChanges(c)
      BY <2>2 DEF OtherTool, ToolEnds, CorpusChanges, AgentInv
    <2>3. CASE Search
      <3>1. PICK hits \in SetToAllKPermutations(corpus) :
               /\ cited' = WithNew(cited, hits)
               /\ shown' = shown \cup {<<Number(hits, hits[i]), hits[i]>> : i \in DOMAIN hits}
        BY <2>3 DEF Search
      <3>2. hits \in Seq(IndexedChunks)
        <4>1. PICK s \in SUBSET corpus : hits \in SetToSeqs(s)
          BY DEF SetToAllKPermutations
        <4>2. Cardinality(s) \in Nat
          BY FS_Subset, FS_CardinalityType, AgentConstants DEF AgentInv, AgentConstants
        <4>3. hits \in [1..Cardinality(s) -> s]
          BY <4>1 DEF SetToSeqs
        <4>4. s \subseteq IndexedChunks
          BY DEF AgentInv
        <4> HIDE DEF AgentInv
        <4> QED
          BY <4>2, <4>3, <4>4
      <3>3. cited \in Seq(IndexedChunks)
        BY DEF AgentInv
      <3>4. /\ cited' \in Seq(IndexedChunks) /\ Len(cited) <= Len(cited')
            /\ \A i \in 1..Len(cited) : cited'[i] = cited[i]
            /\ \A j \in 1..Len(hits) : Contains(cited', hits[j])
        BY <3>1, <3>2, <3>3, WithNewPlaces
      <3>5. ASSUME NEW j \in 1..Len(hits)
            PROVE  Number(hits, hits[j]) \in 1..Len(cited') /\ cited'[Number(hits, hits[j])] = hits[j]
        <4>1. Number(hits, hits[j]) = SelectInSeq(cited', LAMBDA x : x = hits[j])
          BY <3>1 DEF Number
        <4>2. PICK u \in Seq(IndexedChunks) : u = cited'
          BY <3>4
        <4>3. Contains(u, hits[j])
          BY <3>4, <4>2 DEF Contains
        <4>4. /\ SelectInSeq(u, LAMBDA x : x = hits[j]) \in 1..Len(u)
              /\ u[SelectInSeq(u, LAMBDA x : x = hits[j])] = hits[j]
          BY <4>3, NumberIsPlace
        <4> QED
          BY <4>1, <4>2, <4>4
      <3>6. ASSUME NEW p \in shown' PROVE p[1] \in 1..Len(cited') /\ cited'[p[1]] = p[2]
        <4>1. CASE p \in shown
          <5>1. p[1] \in 1..Len(cited) /\ cited[p[1]] = p[2]
            BY <4>1 DEF AgentInv
          <5> QED
            BY <3>3, <3>4, <5>1
        <4>2. ASSUME NEW j \in DOMAIN hits, p = <<Number(hits, hits[j]), hits[j]>>
              PROVE  p[1] \in 1..Len(cited') /\ cited'[p[1]] = p[2]
          BY <3>2, <3>5, <4>2
        <4> QED
          BY <3>1, <3>6, <4>1, <4>2
      <3>7. UNCHANGED <<corpus, sent>> /\ agentPc' # "done"
        BY <2>3 DEF Search, ToolEnds
      <3> QED
        BY <3>4, <3>6, <3>7 DEF AgentInv
    <2> QED
      BY <2>1, <2>2, <2>3 DEF AgentNext
  <1> QED
    BY <1>1, <1>2, PTL DEF AgentSpec

\* Whatever the searches of a turn return, and however the corpus changes between them, every
\* number the model has seen names, in the sources sent, the chunk it was shown on.
THEOREM NumbersAreSources == AgentSpec => []NumbersNameSources
  <1>1. AgentInv => NumbersNameSources
    BY DEF AgentInv, NumbersNameSources
  <1> QED
    BY <1>1, AgentInvariant, PTL

\* A tool runs only when a call is left.
AgentTyped == AgentTypeOK /\ (agentPc = "tools" => toolCalls > 0)

\* The loop stays within its steps and its calls, whatever the model asks for.
THEOREM AgentTypeCorrect == AgentSpec => []AgentTypeOK
  <1>1. AgentInit => AgentTyped
    BY AgentConstants DEF AgentConstants, AgentInit, AgentTyped, AgentTypeOK
  <1>2. AgentInv /\ AgentInv' /\ AgentTyped /\ [AgentNext]_agentVars => AgentTyped'
    <2> SUFFICES ASSUME AgentInv, AgentInv', AgentTyped, [AgentNext]_agentVars PROVE AgentTyped'
      OBVIOUS
    <2>0. AgentSteps \in Nat \ {0} /\ PerAnswer \in Nat
      BY AgentConstants DEF AgentConstants
    <2> USE <2>0 DEF AgentTyped, AgentTypeOK
    <2>1. CASE AskForTools \/ AnswerQuestion \/ GiveUp \/ ModelFails \/ UNCHANGED agentVars
      BY <2>1 DEF AskForTools, AnswerQuestion, GiveUp, ModelFails, agentVars
    <2>2. ASSUME ToolEnds, agentPc = "tools"
          PROVE  /\ toolCalls' \in 0..PerAnswer /\ round' \in 0..AgentSteps - 1
                 /\ agentPc' \in {"ask", "tools", "exhausted"}
                 /\ agentPc' = "tools" => toolCalls' > 0
      BY <2>2 DEF ToolEnds
    <2>3. CASE OtherTool
      BY <2>2, <2>3 DEF OtherTool
    <2>4. CASE Search
      <3>1. cited' \in Seq(IndexedChunks) /\ \A p \in shown' : p[1] \in 1..Len(cited') /\ cited'[p[1]] = p[2]
        BY DEF AgentInv
      <3>2. shown' \subseteq (Nat \ {0}) \X IndexedChunks
        <4>1. PICK hits : shown' = shown \cup {<<Number(hits, hits[i]), hits[i]>> : i \in DOMAIN hits}
          BY <2>4 DEF Search
        <4>2. ASSUME NEW p \in shown' PROVE p \in (Nat \ {0}) \X IndexedChunks
          <5>1. CASE p \in shown
            BY <5>1
          <5>2. CASE \E i \in DOMAIN hits : p = <<Number(hits, hits[i]), hits[i]>>
            <6>1. PICK a, b : p = <<a, b>>
              BY <5>2
            <6>2. a \in 1..Len(cited') /\ cited'[a] = b
              BY <3>1, <4>2, <6>1
            <6>3. PICK u \in Seq(IndexedChunks) : u = cited'
              BY <3>1
            <6>4. a \in Nat \ {0} /\ b \in IndexedChunks
              BY <6>2, <6>3
            <6> QED
              BY <6>1, <6>4
          <5> QED
            BY <4>1, <5>1, <5>2
        <4> QED
          BY <4>2
      <3> QED
        BY <2>2, <2>4, <3>1, <3>2 DEF Search
    <2>5. CASE \E c \in IndexedChunks : CorpusChanges(c)
      BY <2>5 DEF CorpusChanges
    <2> QED
      BY <2>1, <2>3, <2>4, <2>5 DEF AgentNext
  <1>3. AgentTyped => AgentTypeOK
    BY DEF AgentTyped
  <1> QED
    BY <1>1, <1>2, <1>3, AgentInvariant, PTL DEF AgentSpec

-----------------------------------------------------------------------------
(* Ranking: sorting, and the scores of the fusion.                           *)

\* p lists the places of s in an order: every place once, none before one that goes ahead of it.
Orders(p, s) ==
    /\ p \in [1..Len(s) -> 1..Len(s)]
    /\ \A k, l \in 1..Len(s) : k # l => p[k] # p[l]
    /\ \A i \in 1..Len(s) : \E k \in 1..Len(s) : p[k] = i
    /\ \A k, l \in 1..Len(s) : k < l => s[p[k]].score >= s[p[l]].score

\* ByScore is a permutation of the list, and the highest score comes first.
LEMMA ByScoreSorts ==
  ASSUME NEW s \in Seq(Result)
  PROVE  \E p : Orders(p, s) /\ ByScore(s) = [k \in 1..Len(s) |-> s[p[k]]]
  <1> DEFINE n == Len(s)
             R == {q \in (1..n) \X (1..n) : Ahead(s, q[1], q[2])}
             p == [k \in 1..n |-> CHOOSE i \in 1..n : Place(s, i) = k]
  <1>0. n \in Nat /\ \A i \in 1..n : s[i].score \in Int
    <2>1. \A x \in Result : x.score \in Int
      BY DEF Result
    <2> QED
      BY <2>1
  <1>1. \A i, j, k \in 1..n : /\ ~Ahead(s, i, i)
                              /\ Ahead(s, i, j) /\ Ahead(s, j, k) => Ahead(s, i, k)
                              /\ i # j => Ahead(s, i, j) \/ Ahead(s, j, i)
                              /\ Ahead(s, i, j) => s[i].score >= s[j].score
    BY <1>0 DEF Ahead
  <1>2. \A i, j \in 1..n : <<i, j>> \in R <=> Ahead(s, i, j)
    OBVIOUS
  <1>3. \A i \in 1..n : Place(s, i) = PlaceOf(1..n, R, i)
    <2>1. \A i \in 1..n : {j \in 1..n : Ahead(s, j, i)} = {j \in 1..n : <<j, i>> \in R}
      BY <1>2
    <2> QED
      BY <2>1 DEF Place, PlaceOf
  <1> HIDE DEF R
  <1>4. IsFiniteSet(1..n) /\ Cardinality(1..n) = n /\ IsOrder(R, 1..n)
    <2>1. IsOrder(R, 1..n)
      BY <1>1, <1>2 DEF IsOrder
    <2> QED
      BY <1>0, <2>1, FS_Interval, SMTT(30)
  <1>5. \A i \in 1..n : Place(s, i) \in 1..n
    BY <1>3, <1>4, PlacesAreTaken
  <1>6. \A i, j \in 1..n : Ahead(s, i, j) => Place(s, i) < Place(s, j)
    <2>1. \A i, j \in 1..n : <<i, j>> \in R => PlaceOf(1..n, R, i) < PlaceOf(1..n, R, j)
      BY <1>4, PlacesAreTaken
    <2> QED
      BY <1>2, <1>3, <2>1
  <1>7. \A i, j \in 1..n : Place(s, i) = Place(s, j) => i = j
    BY <1>3, <1>4, PlacesAreTaken
  <1>8. \A k \in 1..n : \E i \in 1..n : Place(s, i) = k
    BY <1>3, <1>4, PlacesAreTaken
  <1>9. \A k \in 1..n : p[k] \in 1..n /\ Place(s, p[k]) = k
    BY <1>8
  <1>10. p \in [1..n -> 1..n]
    BY <1>9
  <1>11. ByScore(s) = [k \in 1..n |-> s[p[k]]]
    BY DEF ByScore
  <1> HIDE DEF p
  <1>12. \A k, l \in 1..n : k # l => p[k] # p[l]
    BY <1>9
  <1>13. \A i \in 1..n : \E k \in 1..n : p[k] = i
    BY <1>5, <1>7, <1>9
  <1>14. \A k, l \in 1..n : k < l => s[p[k]].score >= s[p[l]].score
    <2> SUFFICES ASSUME NEW k \in 1..n, NEW l \in 1..n, k < l
                 PROVE  s[p[k]].score >= s[p[l]].score
      OBVIOUS
    <2>1. p[k] \in 1..n /\ p[l] \in 1..n /\ Place(s, p[k]) < Place(s, p[l])
      BY <1>9
    <2>2. ~Ahead(s, p[l], p[k]) /\ p[k] # p[l]
      BY <1>6, <1>9, <2>1
    <2> QED
      BY <1>1, <2>1, <2>2
  <1>15. Orders(p, s)
    BY <1>10, <1>12, <1>13, <1>14 DEF Orders
  <1> QED
    BY <1>11, <1>15

\* A larger denominator gives a smaller share.
LEMMA SharesFall ==
  ASSUME NEW a \in Nat \ {0}, NEW b \in Nat \ {0}, a < b, Unit % a = 0, Unit % b = 0
  PROVE  Unit \div a > Unit \div b /\ Unit \div b > 0
  <1> DEFINE qa == Unit \div a
             qb == Unit \div b
  <1>1. Unit \in Nat /\ Unit > 0
    BY RankingConstants DEF RankingConstants
  <1>2. Unit = a * qa /\ Unit = b * qb /\ qa \in Int /\ qb \in Int
    BY <1>1
  <1> HIDE DEF qa, qb
  <1>3. qb > 0 /\ qa > 0
    BY <1>1, <1>2
  <1>4. qa > qb
    <2> SUFFICES ASSUME qa <= qb PROVE FALSE
      BY <1>2
    <2>1. a * qa <= a * qb
      BY <1>2, <1>3
    <2>2. a * qb < b * qb
      BY <1>2, <1>3
    <2> QED
      BY <1>1, <1>2, <2>1, <2>2
  <1> QED
    BY <1>3, <1>4 DEF qa, qb

-----------------------------------------------------------------------------
\* The routes of a search, after recall.
Routed == \A r \in 1..5 : routes[r] \in Seq(Pieces) /\ Len(routes[r]) <= Cardinality(Pieces)

\* The place of a piece in a route.
PlaceIn(s, c) == SelectInSeq(s, LAMBDA x : x = c)

\* A piece of a route has one of its places, and there are no more of these than pieces.
LEMMA PlaceInRoute ==
  ASSUME NEW s \in Seq(Pieces), Len(s) <= Cardinality(Pieces), NEW c, Contains(s, c)
  PROVE  PlaceIn(s, c) \in 1..Cardinality(Pieces)
  <1> DEFINE I == {i \in 1..Len(s) : s[i] = c}
  <1>1. I # {} /\ I \in SUBSET Nat
    BY DEF Contains
  <1>2. PlaceIn(s, c) = Min(I)
    BY <1>1 DEF PlaceIn, SelectInSeq
  <1>3. Min(I) \in I
    <2> HIDE DEF I
    <2> QED
      BY <1>1, NatMin DEF Min
  <1>4. Cardinality(Pieces) \in Nat
    BY RankingConstants, FS_CardinalityType DEF RankingConstants
  <1>5. PICK m : m = Min(I)
    OBVIOUS
  <1>6. m \in 1..Len(s) /\ s[m] = c
    BY <1>3, <1>5
  <1>7. m <= Cardinality(Pieces)
    BY <1>4, <1>6
  <1>8. Len(s) \in Nat
    OBVIOUS
  <1> QED
    BY <1>2, <1>4, <1>5, <1>6, <1>7, <1>8

\* What one route gives: more to a piece it puts higher.
Share(r, c) == Shares(c)[r]

\* A piece that a route puts higher gets more from it.
LEMMA ShareFollowsRank ==
  ASSUME Routed, NEW r \in 1..5, NEW a, NEW b
  PROVE  /\ Share(r, a) \in Nat
         /\ Rank(routes[r], a) <= Rank(routes[r], b) => Share(r, a) >= Share(r, b)
         /\ Rank(routes[r], a) < Rank(routes[r], b) => Share(r, a) > Share(r, b)
  <1> DEFINE C == Cardinality(Pieces)
             pos(c) == PlaceIn(routes[r], c)
  <1>0. C \in Nat /\ K \in Nat /\ Unit \in Nat \ {0} /\ \A i \in 1..C : Unit % (K + i) = 0
    BY RankingConstants, FS_CardinalityType DEF RankingConstants
  <1>1. \A c : Contains(routes[r], c) => pos(c) \in 1..C
    <2> SUFFICES ASSUME NEW c, Contains(routes[r], c) PROVE pos(c) \in 1..C
      OBVIOUS
    <2>1. PICK s \in Seq(Pieces) : s = routes[r] /\ Len(s) <= Cardinality(Pieces)
      BY DEF Routed
    <2>2. Contains(s, c)
      BY <2>1
    <2>3. PlaceIn(s, c) \in 1..C
      BY <2>1, <2>2, PlaceInRoute
    <2> QED
      BY <2>1, <2>3
  <1>2. \A c : /\ Contains(routes[r], c) => Share(r, c) = Unit \div (K + pos(c)) /\ Rank(routes[r], c) = pos(c)
               /\ ~Contains(routes[r], c) => Share(r, c) = 0 /\ Rank(routes[r], c) = C + 1
    BY DEF Share, Shares, Rank, PlaceIn
  <1> HIDE DEF C, pos
  <1>3. \A i \in 1..C : Unit \div (K + i) > 0 /\ Unit \div (K + i) \in Nat
    <2> SUFFICES ASSUME NEW i \in 1..C PROVE Unit \div (K + i) > 0 /\ Unit \div (K + i) \in Nat
      OBVIOUS
    <2>1. PICK d \in Nat \ {0} : d = K + i
      <3>1. K \in Nat /\ i \in Nat \ {0}
        BY <1>0
      <3> QED
        BY <3>1
    <2>2. Unit % d = 0
      BY <1>0, <2>1
    <2>3. PICK q : q = Unit \div d
      OBVIOUS
    <2>4. q \in Int /\ Unit = d * q
      BY <1>0, <2>2, <2>3
    <2>5. q > 0
      BY <1>0, <2>1, <2>4
    <2> QED
      BY <2>1, <2>3, <2>4, <2>5
  <1>4. \A i, j \in 1..C : i < j => Unit \div (K + i) > Unit \div (K + j)
    <2> SUFFICES ASSUME NEW i \in 1..C, NEW j \in 1..C, i < j
                 PROVE  Unit \div (K + i) > Unit \div (K + j)
      OBVIOUS
    <2>1. /\ K + i \in Nat \ {0} /\ K + j \in Nat \ {0} /\ K + i < K + j
          /\ Unit % (K + i) = 0 /\ Unit % (K + j) = 0
      <3>1. K \in Nat /\ i \in Nat \ {0} /\ j \in Nat \ {0}
        BY <1>0
      <3>2. Unit % (K + i) = 0 /\ Unit % (K + j) = 0
        BY <1>0
      <3> QED
        BY <3>1, <3>2
    <2> QED
      BY <2>1, SharesFall
  <1>5. CASE Contains(routes[r], a) /\ Contains(routes[r], b)
    <2>1. PICK i \in 1..C, j \in 1..C : i = pos(a) /\ j = pos(b)
      BY <1>1, <1>5
    <2>2. /\ Share(r, a) = Unit \div (K + i) /\ Rank(routes[r], a) = i
          /\ Share(r, b) = Unit \div (K + j) /\ Rank(routes[r], b) = j
      BY <1>2, <1>5, <2>1
    <2>3. Share(r, a) \in Nat /\ Share(r, b) \in Nat
      BY <1>3, <2>2
    <2>4. i < j => Share(r, a) > Share(r, b)
      BY <1>4, <2>2
    <2>5. i = j => Share(r, a) = Share(r, b)
      BY <2>2
    <2> QED
      BY <1>0, <2>2, <2>3, <2>4, <2>5
  <1>6. CASE Contains(routes[r], a) /\ ~Contains(routes[r], b)
    <2>1. PICK i \in 1..C : i = pos(a)
      BY <1>1, <1>6
    <2>2. Share(r, a) = Unit \div (K + i) /\ Share(r, b) = 0
      BY <1>2, <1>6, <2>1
    <2>3. Share(r, a) \in Nat /\ Share(r, a) > 0
      BY <1>3, <2>2
    <2> QED
      BY <2>2, <2>3
  <1>7. CASE ~Contains(routes[r], a) /\ Contains(routes[r], b)
    <2>1. PICK j \in 1..C : j = pos(b)
      BY <1>1, <1>7
    <2>2. Share(r, a) = 0 /\ Rank(routes[r], a) = C + 1 /\ Rank(routes[r], b) = j
      BY <1>2, <1>7, <2>1
    <2> QED
      BY <1>0, <2>2
  <1>8. CASE ~Contains(routes[r], a) /\ ~Contains(routes[r], b)
    <2>1. Share(r, a) = 0 /\ Share(r, b) = 0 /\ Rank(routes[r], a) = C + 1 /\ Rank(routes[r], b) = C + 1
      BY <1>2, <1>8
    <2> QED
      BY <1>0, <2>1
  <1> QED
    BY <1>5, <1>6, <1>7, <1>8

\* The score is what the five routes give together.
LEMMA ScoreAddsShares ==
  ASSUME Routed, NEW c
  PROVE  RrfScore(c) = Share(1, c) + Share(2, c) + Share(3, c) + Share(4, c) + Share(5, c)
  <1> DEFINE s == Shares(c)
             g == [p \in Int \X (1..5) |-> p[1] + s[p[2]]]
             Equation(f) == f = [r \in SUBSET (1..5) |->
                              IF r = {} THEN 0 ELSE f[r \ {Max(r)}] + s[Max(r)]]
  <1>1. \A r \in 1..5 : s[r] = Share(r, c) /\ s[r] \in Int
    BY ShareFollowsRank DEF Share
  <1>2. Len(s) = 5 /\ DOMAIN s = 1..5
    BY DEF Shares
  <1> HIDE DEF s
  <1>3. g \in [Int \X (1..5) -> Int]
    BY <1>1
  <1>4. PICK f \in [SUBSET (1..5) -> Int] : IsFold(f, g, 0, 5)
    <2>1. 5 \in Nat /\ 0 \in Int
      OBVIOUS
    <2> HIDE DEF g
    <2> QED
      BY <1>3, <2>1, FoldExists
  <1>5. Equation(f)
    <2>1. ASSUME NEW r \in SUBSET (1..5)
          PROVE  f[r] = IF r = {} THEN 0 ELSE f[r \ {Max(r)}] + s[Max(r)]
      <3>1. CASE r = {}
        BY <1>4, <3>1 DEF IsFold
      <3>2. CASE r # {}
        <4>1. Max(r) \in 1..5
          BY <3>2, NatMax
        <4>2. f[r] = g[<<f[r \ {Max(r)}], Max(r)>>]
          BY <1>4, <3>2 DEF IsFold
        <4>3. f[r \ {Max(r)}] \in Int
          BY <1>4
        <4> QED
          BY <3>2, <4>1, <4>2, <4>3
      <3> QED
        BY <3>1, <3>2
    <2> QED
      BY <2>1
  <1>6. PICK e : Equation(e) /\ RrfScore(c) = e[1..5]
    BY <1>2, <1>5 DEF RrfScore, FoldLeft, MapThenFoldSet, s
  <1>7. Folds(e, Int, g, 0, 5)
    <2>1. \A r \in SUBSET (1..5) : e[r] = IF r = {} THEN 0 ELSE e[r \ {Max(r)}] + s[Max(r)]
      BY <1>6
    <2>2. ASSUME NEW r \in SUBSET (1..5), r # {}, e[r \ {Max(r)}] \in Int
          PROVE  e[r] = g[<<e[r \ {Max(r)}], Max(r)>>]
      <3>1. Max(r) \in 1..5
        BY <2>2, NatMax
      <3>2. e[r] = e[r \ {Max(r)}] + s[Max(r)]
        BY <2>1, <2>2
      <3> QED
        BY <2>2, <3>1, <3>2
    <2>3. e[{}] = 0
      BY <2>1
    <2> HIDE DEF g
    <2> QED
      BY <2>2, <2>3 DEF Folds
  <1>8. PICK h : IsChain(h, e, Int, g, 0, 5)
    <2>1. 5 \in Nat /\ 0 \in Int
      OBVIOUS
    <2> HIDE DEF g
    <2> QED
      BY <1>3, <1>7, <2>1, FoldChain
  <1>9. ASSUME NEW k \in 1..5 PROVE h[k] = h[k - 1] + s[k]
    <2>1. h[k - 1] \in Int
      BY <1>8 DEF IsChain
    <2> QED
      BY <1>8, <2>1 DEF IsChain
  <1>10. h[0] = 0 /\ h[5] = e[1..5]
    BY <1>8 DEF IsChain
  <1>11. /\ h[1] = h[0] + s[1] /\ h[2] = h[1] + s[2] /\ h[3] = h[2] + s[3]
         /\ h[4] = h[3] + s[4] /\ h[5] = h[4] + s[5]
    <2>1. /\ h[1] = h[1 - 1] + s[1] /\ h[2] = h[2 - 1] + s[2] /\ h[3] = h[3 - 1] + s[3]
          /\ h[4] = h[4 - 1] + s[4] /\ h[5] = h[5 - 1] + s[5]
      BY <1>9
    <2> QED
      BY <2>1
  <1> QED
    BY <1>1, <1>6, <1>10, <1>11

\* A piece the routes agree to prefer has the higher score.
LEMMA AgreementScores ==
  ASSUME Routed, NEW a, NEW b,
         \A r \in 1..5 : Rank(routes[r], a) <= Rank(routes[r], b),
         \E r \in 1..5 : Rank(routes[r], a) < Rank(routes[r], b)
  PROVE  RrfScore(a) > RrfScore(b)
  <1>1. \A r \in 1..5 : /\ Share(r, a) \in Nat /\ Share(r, b) \in Nat /\ Share(r, a) >= Share(r, b)
                        /\ Rank(routes[r], a) < Rank(routes[r], b) => Share(r, a) > Share(r, b)
    BY ShareFollowsRank
  <1>2. PICK r \in 1..5 : Share(r, a) > Share(r, b)
    BY <1>1
  <1>3. RrfScore(a) = Share(1, a) + Share(2, a) + Share(3, a) + Share(4, a) + Share(5, a)
    BY ScoreAddsShares
  <1>4. RrfScore(b) = Share(1, b) + Share(2, b) + Share(3, b) + Share(4, b) + Share(5, b)
    BY ScoreAddsShares
  <1>5. r = 1 \/ r = 2 \/ r = 3 \/ r = 4 \/ r = 5
    OBVIOUS
  <1>6. \A q \in {1, 2, 3, 4, 5} : Share(q, a) \in Nat /\ Share(q, b) \in Nat /\ Share(q, a) >= Share(q, b)
    BY <1>1
  <1> QED
    BY <1>2, <1>3, <1>4, <1>5, <1>6

-----------------------------------------------------------------------------
(* The lists of the stages.                                                  *)

\* The fold that keeps the first occurrence of every piece.
LEMMA PieceFold ==
  ASSUME NEW s \in Seq(Pieces)
  PROVE  \E h : /\ h[0] = <<>> /\ FoldLeft(AddPiece, <<>>, s) = h[Len(s)]
                /\ h \in [0..Len(s) -> Seq(Pieces)]
                /\ \A k \in 1..Len(s) : h[k] = AddPiece(h[k - 1], s[k])
  <1> DEFINE n == Len(s)
             T == Seq(Pieces)
             g == [p \in T \X (1..n) |-> AddPiece(p[1], s[p[2]])]
             Equation(f) == f = [r \in SUBSET (1..n) |->
                              IF r = {} THEN <<>> ELSE AddPiece(f[r \ {Max(r)}], s[Max(r)])]
  <1>0. n \in Nat /\ DOMAIN s = 1..n
    OBVIOUS
  <1>1. g \in [T \X (1..n) -> T]
    <2>1. \A a \in T, i \in 1..n : AddPiece(a, s[i]) \in T
      BY DEF AddPiece
    <2> QED
      BY <2>1
  <1>2. PICK f \in [SUBSET (1..n) -> T] : IsFold(f, g, <<>>, n)
    <2> HIDE DEF g, n, T
    <2>1. <<>> \in T
      BY DEF T
    <2> QED
      BY <1>0, <1>1, <2>1, FoldExists
  <1>3. Equation(f)
    <2>1. ASSUME NEW r \in SUBSET (1..n)
          PROVE  f[r] = IF r = {} THEN <<>> ELSE AddPiece(f[r \ {Max(r)}], s[Max(r)])
      <3>1. CASE r = {}
        BY <1>2, <3>1 DEF IsFold
      <3>2. CASE r # {}
        <4>1. Max(r) \in r /\ Max(r) \in 1..n
          BY <1>0, <3>2, NatMax
        <4>2. f[r] = g[<<f[r \ {Max(r)}], Max(r)>>]
          BY <1>2, <3>2 DEF IsFold
        <4>3. f[r \ {Max(r)}] \in T
          BY <1>2
        <4> HIDE DEF T, n
        <4> QED
          BY <3>2, <4>1, <4>2, <4>3
      <3> QED
        BY <3>1, <3>2
    <2> QED
      BY <2>1
  <1>4. PICK e : Equation(e) /\ FoldLeft(AddPiece, <<>>, s) = e[1..n]
    BY <1>0, <1>3 DEF FoldLeft, MapThenFoldSet
  <1>5. Folds(e, T, g, <<>>, n)
    <2>1. \A r \in SUBSET (1..n) :
             e[r] = IF r = {} THEN <<>> ELSE AddPiece(e[r \ {Max(r)}], s[Max(r)])
      BY <1>4
    <2>2. ASSUME NEW r \in SUBSET (1..n), r # {}, e[r \ {Max(r)}] \in T
          PROVE  e[r] = g[<<e[r \ {Max(r)}], Max(r)>>]
      <3>1. Max(r) \in 1..n
        BY <1>0, <2>2, NatMax
      <3>2. e[r] = AddPiece(e[r \ {Max(r)}], s[Max(r)])
        BY <2>1, <2>2
      <3> HIDE DEF T, n
      <3> QED
        BY <2>2, <3>1, <3>2
    <2>3. e[{}] = <<>>
      BY <2>1
    <2> HIDE DEF g, T, n
    <2> QED
      BY <2>2, <2>3 DEF Folds
  <1>6. PICK h : IsChain(h, e, T, g, <<>>, n)
    <2>1. <<>> \in T
      OBVIOUS
    <2> HIDE DEF g, T, n
    <2> QED
      BY <1>0, <1>1, <1>5, <2>1, FoldChain
  <1>7. ASSUME NEW k \in 1..n PROVE h[k] = AddPiece(h[k - 1], s[k])
    <2>1. h[k - 1] \in T
      BY <1>0, <1>6 DEF IsChain
    <2> HIDE DEF T, n
    <2> QED
      BY <1>6, <2>1 DEF IsChain
  <1>8. h[0] = <<>> /\ h[n] = e[1..n] /\ h \in [0..n -> T]
    BY <1>6 DEF IsChain
  <1> QED
    BY <1>4, <1>7, <1>8

\* The fold that keeps the first result of every section.
LEMMA ParentFold ==
  ASSUME NEW s \in Seq(Result)
  PROVE  \E h : /\ h[0] = <<>> /\ FoldLeft(AddParent, <<>>, s) = h[Len(s)]
                /\ h \in [0..Len(s) -> Seq(Result)]
                /\ \A k \in 1..Len(s) : h[k] = AddParent(h[k - 1], s[k])
  <1> DEFINE n == Len(s)
             T == Seq(Result)
             g == [p \in T \X (1..n) |-> AddParent(p[1], s[p[2]])]
             Equation(f) == f = [r \in SUBSET (1..n) |->
                              IF r = {} THEN <<>> ELSE AddParent(f[r \ {Max(r)}], s[Max(r)])]
  <1>0. n \in Nat /\ DOMAIN s = 1..n
    OBVIOUS
  <1>1. g \in [T \X (1..n) -> T]
    <2>1. \A a \in T, i \in 1..n : AddParent(a, s[i]) \in T
      BY DEF AddParent
    <2> QED
      BY <2>1
  <1>2. PICK f \in [SUBSET (1..n) -> T] : IsFold(f, g, <<>>, n)
    <2> HIDE DEF g, n, T
    <2>1. <<>> \in T
      BY DEF T
    <2> QED
      BY <1>0, <1>1, <2>1, FoldExists
  <1>3. Equation(f)
    <2>1. ASSUME NEW r \in SUBSET (1..n)
          PROVE  f[r] = IF r = {} THEN <<>> ELSE AddParent(f[r \ {Max(r)}], s[Max(r)])
      <3>1. CASE r = {}
        BY <1>2, <3>1 DEF IsFold
      <3>2. CASE r # {}
        <4>1. Max(r) \in r /\ Max(r) \in 1..n
          BY <1>0, <3>2, NatMax
        <4>2. f[r] = g[<<f[r \ {Max(r)}], Max(r)>>]
          BY <1>2, <3>2 DEF IsFold
        <4>3. f[r \ {Max(r)}] \in T
          BY <1>2
        <4> HIDE DEF T, n
        <4> QED
          BY <3>2, <4>1, <4>2, <4>3
      <3> QED
        BY <3>1, <3>2
    <2> QED
      BY <2>1
  <1>4. PICK e : Equation(e) /\ FoldLeft(AddParent, <<>>, s) = e[1..n]
    BY <1>0, <1>3 DEF FoldLeft, MapThenFoldSet
  <1>5. Folds(e, T, g, <<>>, n)
    <2>1. \A r \in SUBSET (1..n) :
             e[r] = IF r = {} THEN <<>> ELSE AddParent(e[r \ {Max(r)}], s[Max(r)])
      BY <1>4
    <2>2. ASSUME NEW r \in SUBSET (1..n), r # {}, e[r \ {Max(r)}] \in T
          PROVE  e[r] = g[<<e[r \ {Max(r)}], Max(r)>>]
      <3>1. Max(r) \in 1..n
        BY <1>0, <2>2, NatMax
      <3>2. e[r] = AddParent(e[r \ {Max(r)}], s[Max(r)])
        BY <2>1, <2>2
      <3> HIDE DEF T, n
      <3> QED
        BY <2>2, <3>1, <3>2
    <2>3. e[{}] = <<>>
      BY <2>1
    <2> HIDE DEF g, T, n
    <2> QED
      BY <2>2, <2>3 DEF Folds
  <1>6. PICK h : IsChain(h, e, T, g, <<>>, n)
    <2>1. <<>> \in T
      OBVIOUS
    <2> HIDE DEF g, T, n
    <2> QED
      BY <1>0, <1>1, <1>5, <2>1, FoldChain
  <1>7. ASSUME NEW k \in 1..n PROVE h[k] = AddParent(h[k - 1], s[k])
    <2>1. h[k - 1] \in T
      BY <1>0, <1>6 DEF IsChain
    <2> HIDE DEF T, n
    <2> QED
      BY <1>6, <2>1 DEF IsChain
  <1>8. h[0] = <<>> /\ h[n] = e[1..n] /\ h \in [0..n -> T]
    BY <1>6 DEF IsChain
  <1> QED
    BY <1>4, <1>7, <1>8

\* No section, or no piece, occurs twice.
OneEach(s) == \A i, j \in 1..Len(s) : i # j => Parent[s[i].piece] # Parent[s[j].piece]
Single(s) == \A i, j \in 1..Len(s) : i # j => s[i].piece # s[j].piece

\* The results of the parents stage have different sections, hence different pieces.
LEMMA ParentsAreSingle ==
  ASSUME NEW s \in Seq(Result)
  PROVE  FoldLeft(AddParent, <<>>, s) \in Seq(Result) /\ Single(FoldLeft(AddParent, <<>>, s))
  <1>1. PICK h : /\ h[0] = <<>> /\ FoldLeft(AddParent, <<>>, s) = h[Len(s)]
                 /\ h \in [0..Len(s) -> Seq(Result)]
                 /\ \A k \in 1..Len(s) : h[k] = AddParent(h[k - 1], s[k])
    BY ParentFold
  <1> DEFINE n == Len(s)
             G == {k \in 0..n : OneEach(h[k])}
  <1>2. n \in Nat
    OBVIOUS
  <1>3. 0 \in G
    BY <1>1, <1>2 DEF OneEach
  <1>4. ASSUME NEW k \in 1..n, k - 1 \in G PROVE k \in G
    <2>1. PICK u \in Seq(Result) : u = h[k - 1] /\ OneEach(u)
      BY <1>1, <1>4
    <2>2. PICK x \in Result : x = s[k]
      OBVIOUS
    <2>3. h[k] = AddParent(u, x)
      BY <1>1, <2>1, <2>2
    <2>4. CASE \E i \in DOMAIN u : Parent[u[i].piece] = Parent[x.piece]
      BY <2>1, <2>3, <2>4 DEF AddParent
    <2>5. CASE ~\E i \in DOMAIN u : Parent[u[i].piece] = Parent[x.piece]
      <3>1. PICK w : w = Append(u, x)
        OBVIOUS
      <3>2. /\ Len(w) = Len(u) + 1 /\ w[Len(u) + 1] = x /\ Len(u) \in Nat
            /\ \A i \in 1..Len(u) : w[i] = u[i]
        BY <3>1
      <3>3. \A i \in 1..Len(u) : Parent[u[i].piece] # Parent[x.piece]
        BY <2>5
      <3>4. OneEach(w)
        <4> SUFFICES ASSUME NEW i \in 1..Len(w), NEW j \in 1..Len(w), i # j
                     PROVE  Parent[w[i].piece] # Parent[w[j].piece]
          BY DEF OneEach
        <4>1. PICK m \in Nat : m = Len(u)
          BY <3>2
        <4>2. \A k1 \in 1..m : w[k1] = u[k1] /\ Parent[u[k1].piece] # Parent[x.piece]
          BY <3>2, <3>3, <4>1
        <4>3. CASE i \in 1..m /\ j \in 1..m
          BY <2>1, <4>1, <4>2, <4>3, SMTT(30) DEF OneEach
        <4>4. CASE i \in 1..m /\ j = m + 1
          BY <3>2, <4>1, <4>2, <4>4
        <4>5. CASE j \in 1..m /\ i = m + 1
          BY <3>2, <4>1, <4>2, <4>5
        <4>6. i \in 1..m + 1 /\ j \in 1..m + 1
          BY <3>2, <4>1
        <4>7. \A q \in 1..m + 1 : q \in 1..m \/ q = m + 1
          OBVIOUS
        <4> QED
          BY <4>3, <4>4, <4>5, <4>6, <4>7
      <3>5. h[k] = w
        BY <2>3, <2>5, <3>1 DEF AddParent
      <3> QED
        BY <3>4, <3>5
    <2> QED
      BY <2>4, <2>5
  <1>5. n \in G
    <2>1. \A k \in 0..n : k \in G
      <3> HIDE DEF G, n
      <3> QED
        BY <1>2, <1>3, <1>4, UpTo
    <2> QED
      BY <1>2, <2>1
  <1>6. OneEach(h[n]) /\ h[n] \in Seq(Result)
    BY <1>1, <1>2, <1>5
  <1>7. Single(h[n])
    BY <1>6 DEF Single, OneEach
  <1> QED
    BY <1>1, <1>6, <1>7

\* Sorting keeps the results and their number.
LEMMA SortedList ==
  ASSUME NEW s \in Seq(Result)
  PROVE  /\ ByScore(s) \in Seq(Result) /\ Len(ByScore(s)) = Len(s)
         /\ Single(s) => Single(ByScore(s))
         /\ \A k \in 1..Len(s) : \E i \in 1..Len(s) : ByScore(s)[k] = s[i]
         /\ \A i \in 1..Len(s) : \E k \in 1..Len(s) : ByScore(s)[k] = s[i]
         /\ \A k, l \in 1..Len(s) : ByScore(s)[k].score > ByScore(s)[l].score => k < l
  <1>1. PICK p : Orders(p, s) /\ ByScore(s) = [k \in 1..Len(s) |-> s[p[k]]]
    BY ByScoreSorts
  <1>2. PICK w : w = ByScore(s)
    OBVIOUS
  <1>3. PICK n \in Nat : n = Len(s)
    OBVIOUS
  <1>4. /\ \A k \in 1..n : p[k] \in 1..n /\ w[k] = s[p[k]] /\ s[p[k]] \in Result
        /\ w = [k \in 1..n |-> s[p[k]]]
    <2>1. p \in [1..n -> 1..n]
      BY <1>1, <1>3 DEF Orders
    <2>2. w = [k \in 1..n |-> s[p[k]]]
      BY <1>1, <1>2, <1>3
    <2>3. \A i \in 1..n : s[i] \in Result
      BY <1>3
    <2>4. \A k \in 1..n : p[k] \in 1..n
      BY <2>1
    <2>5. \A k \in 1..n : w[k] = s[p[k]]
      BY <2>2
    <2>6. \A k \in 1..n : s[p[k]] \in Result
      BY <2>3, <2>4
    <2> QED
      BY <2>2, <2>4, <2>5, <2>6
  <1>5. w \in Seq(Result) /\ Len(w) = n
    BY <1>4
  <1>6. Single(s) => Single(w)
    <2> SUFFICES ASSUME Single(s), NEW k \in 1..n, NEW l \in 1..n, k # l
                 PROVE  w[k].piece # w[l].piece
      BY <1>5 DEF Single
    <2>1. p[k] \in 1..n /\ p[l] \in 1..n /\ p[k] # p[l]
      BY <1>1, <1>3, <1>4 DEF Orders
    <2>2. s[p[k]].piece # s[p[l]].piece
      BY <1>3, <2>1 DEF Single
    <2>3. w[k] = s[p[k]] /\ w[l] = s[p[l]]
      BY <1>4
    <2> QED
      BY <2>2, <2>3
  <1>7. \A i \in 1..n : \E k \in 1..n : w[k] = s[i]
    BY <1>1, <1>3, <1>4 DEF Orders
  <1>8. \A k, l \in 1..n : w[k].score > w[l].score => k < l
    <2> SUFFICES ASSUME NEW k \in 1..n, NEW l \in 1..n, w[k].score > w[l].score, ~(k < l)
                 PROVE  FALSE
      OBVIOUS
    <2>1. w[k].score \in Int /\ w[l].score \in Int
      <3>1. w[k] \in Result /\ w[l] \in Result
        BY <1>4
      <3>2. \A x \in Result : x.score \in Int
        BY DEF Result
      <3> QED
        BY <3>1, <3>2
    <2>2. k # l
      BY <2>1
    <2>3. l < k
      BY <2>2
    <2>4. s[p[l]].score >= s[p[k]].score
      BY <1>1, <1>3, <2>3 DEF Orders
    <2>5. w[l].score >= w[k].score
      BY <1>4, <2>4
    <2> QED
      BY <2>1, <2>5
  <1> QED
    BY <1>2, <1>3, <1>4, <1>5, <1>6, <1>7, <1>8

-----------------------------------------------------------------------------
(* Ranking: what the policy and the packing leave out.                       *)

\* u holds pieces of the first k results of s, in their order.
Part(u, s, k) ==
    /\ u \in Seq(Result)
    /\ \E f : /\ f \in [1..Len(u) -> 1..k]
              /\ \A i, j \in 1..Len(u) : i < j => f[i] < f[j]
              /\ \A i \in 1..Len(u) : u[i].piece = s[f[i]].piece

\* The best piece is never left out.
Starts(u, s, k) == k > 0 => Len(u) > 0 /\ u[1].piece = s[1].piece

\* One more result of s is appended, cut or whole.
LEMMA PartGrows ==
  ASSUME NEW s, NEW k \in Nat, NEW u, Part(u, s, k), NEW x \in Result, x.piece = s[k + 1].piece
  PROVE  Part(Append(u, x), s, k + 1)
  <1>1. PICK f : /\ f \in [1..Len(u) -> 1..k] /\ u \in Seq(Result)
                 /\ \A i, j \in 1..Len(u) : i < j => f[i] < f[j]
                 /\ \A i \in 1..Len(u) : u[i].piece = s[f[i]].piece
    BY DEF Part
  <1>2. PICK n \in Nat : n = Len(u)
    BY <1>1
  <1>3. PICK t : t = Append(u, x)
    OBVIOUS
  <1>4. /\ t \in Seq(Result) /\ Len(t) = n + 1 /\ t[n + 1] = x
        /\ \A i \in 1..n : t[i] = u[i]
    BY <1>1, <1>2, <1>3
  <1> DEFINE g == [i \in 1..n + 1 |-> IF i = n + 1 THEN k + 1 ELSE f[i]]
  <1>5. \A i \in 1..n + 1 : i \in 1..n \/ i = n + 1
    OBVIOUS
  <1>6. \A i \in 1..n : f[i] \in 1..k /\ i # n + 1
    BY <1>1, <1>2
  <1>7. g \in [1..n + 1 -> 1..k + 1]
    <2>1. \A i \in 1..n : f[i] \in 1..k + 1
      BY <1>6
    <2>2. k + 1 \in 1..k + 1
      OBVIOUS
    <2> QED
      BY <1>5, <2>1, <2>2
  <1>8. g[n + 1] = k + 1 /\ \A i \in 1..n : g[i] = f[i]
    <2>1. n + 1 \in 1..n + 1 /\ \A i \in 1..n : i \in 1..n + 1
      OBVIOUS
    <2> QED
      BY <1>6, <2>1
  <1> HIDE DEF g
  <1>9. \A i, j \in 1..n + 1 : i < j => g[i] < g[j]
    <2> SUFFICES ASSUME NEW i \in 1..n + 1, NEW j \in 1..n + 1, i < j PROVE g[i] < g[j]
      OBVIOUS
    <2>1. i \in 1..n
      OBVIOUS
    <2>2. CASE j = n + 1
      BY <1>6, <1>8, <2>1, <2>2
    <2>3. CASE j \in 1..n
      BY <1>1, <1>2, <1>8, <2>1, <2>3
    <2> QED
      BY <1>5, <2>2, <2>3
  <1>10. \A i \in 1..n + 1 : t[i].piece = s[g[i]].piece
    BY <1>1, <1>2, <1>4, <1>5, <1>8
  <1> QED
    BY <1>3, <1>4, <1>7, <1>9, <1>10 DEF Part

\* What leaves results out, one after the other, leaves a part.
LEMMA PartOfChain ==
  ASSUME NEW s \in Seq(Result), NEW h, h[0] = <<>>,
         \A k \in 1..Len(s) : \/ h[k] = h[k - 1]
                              \/ \E x \in Result : x.piece = s[k].piece /\ h[k] = Append(h[k - 1], x)
  PROVE  Part(h[Len(s)], s, Len(s))
  <1> DEFINE n == Len(s)
             G == {k \in 0..n : Part(h[k], s, k)}
  <1>1. n \in Nat
    OBVIOUS
  <1>2. 0 \in G
    <2>1. <<>> \in Seq(Result) /\ Len(<<>>) = 0 /\ 1..0 = {}
      OBVIOUS
    <2>2. <<>> \in [{} -> {}]
      OBVIOUS
    <2>3. Part(<<>>, s, 0)
      BY <2>1, <2>2 DEF Part
    <2> QED
      BY <1>1, <2>3
  <1>3. ASSUME NEW k \in 1..n, k - 1 \in G PROVE k \in G
    <2>1. PICK m \in Nat : m = k - 1 /\ k = m + 1
      BY <1>1
    <2>2. PICK u : u = h[m] /\ Part(u, s, m)
      BY <1>3, <2>1
    <2>3. CASE h[k] = h[k - 1]
      <3>1. PICK f : /\ f \in [1..Len(u) -> 1..m] /\ u \in Seq(Result)
                     /\ \A i, j \in 1..Len(u) : i < j => f[i] < f[j]
                     /\ \A i \in 1..Len(u) : u[i].piece = s[f[i]].piece
        BY <2>2 DEF Part
      <3>2. f \in [1..Len(u) -> 1..m + 1]
        BY <3>1
      <3>3. Part(u, s, m + 1)
        BY <3>1, <3>2 DEF Part
      <3> QED
        BY <2>1, <2>2, <2>3, <3>3
    <2>4. CASE \E x \in Result : x.piece = s[k].piece /\ h[k] = Append(h[k - 1], x)
      <3>1. PICK x \in Result : x.piece = s[m + 1].piece /\ h[k] = Append(u, x)
        BY <2>1, <2>2, <2>4
      <3>2. Part(Append(u, x), s, m + 1)
        BY <2>2, <3>1, PartGrows
      <3>3. Part(h[k], s, k)
        BY <2>1, <3>1, <3>2
      <3> QED
        BY <3>3
    <2> QED
      BY <2>3, <2>4
  <1>4. n \in G
    <2>1. \A k \in 0..n : k \in G
      <3> HIDE DEF G, n
      <3> QED
        BY <1>1, <1>2, <1>3, UpTo
    <2> QED
      BY <1>1, <2>1
  <1> QED
    BY <1>4

\* When the first result is appended, it stays the first.
LEMMA StartOfChain ==
  ASSUME NEW s \in Seq(Result), NEW h, h[0] = <<>>, h \in [0..Len(s) -> Seq(Result)],
         \A k \in 1..Len(s) : \/ h[k] = h[k - 1] /\ h[k - 1] # <<>>
                              \/ \E x \in Result : x.piece = s[k].piece /\ h[k] = Append(h[k - 1], x)
  PROVE  Starts(h[Len(s)], s, Len(s))
  <1> DEFINE n == Len(s)
             G == {k \in 0..n : Starts(h[k], s, k)}
  <1>1. n \in Nat
    OBVIOUS
  <1>2. 0 \in G
    BY <1>1 DEF Starts
  <1>3. ASSUME NEW k \in 1..n, k - 1 \in G PROVE k \in G
    <2>1. PICK m \in Nat : m = k - 1 /\ k = m + 1
      BY <1>1
    <2>2. PICK u \in Seq(Result) : u = h[m] /\ Starts(u, s, m)
      BY <1>1, <1>3, <2>1
    <2>3. m = 0 => u = <<>>
      BY <2>2
    <2>4. CASE h[k] = h[k - 1] /\ h[k - 1] # <<>>
      <3>1. m > 0
        BY <2>1, <2>2, <2>3, <2>4
      <3>2. Starts(u, s, k)
        BY <2>2, <3>1 DEF Starts
      <3> QED
        BY <2>1, <2>2, <2>4, <3>2
    <2>5. CASE \E x \in Result : x.piece = s[k].piece /\ h[k] = Append(h[k - 1], x)
      <3>1. PICK x \in Result : x.piece = s[k].piece /\ h[k] = Append(u, x)
        BY <2>1, <2>2, <2>5
      <3>2. PICK t : t = Append(u, x)
        OBVIOUS
      <3>3. Len(t) = Len(u) + 1 /\ t[Len(u) + 1] = x /\ Len(u) \in Nat /\ \A i \in 1..Len(u) : t[i] = u[i]
        BY <3>2
      <3>4. CASE m = 0
        <4>1. Len(u) = 0
          BY <2>3, <3>4
        <4>2. t[1] = x /\ Len(t) > 0 /\ k = 1
          BY <2>1, <3>3, <3>4, <4>1
        <4> QED
          BY <3>1, <3>2, <4>2 DEF Starts
      <3>5. CASE m > 0
        <4>1. Len(u) > 0 /\ u[1].piece = s[1].piece
          BY <2>2, <3>5 DEF Starts
        <4>2. t[1] = u[1] /\ Len(t) > 0
          BY <3>3, <4>1
        <4>3. Starts(t, s, k)
          BY <4>1, <4>2 DEF Starts
        <4>4. Starts(h[k], s, k)
          BY <3>1, <3>2, <4>3
        <4> QED
          BY <4>4
      <3> QED
        BY <3>4, <3>5
    <2> QED
      BY <2>4, <2>5
  <1>4. n \in G
    <2>1. \A k \in 0..n : k \in G
      <3> HIDE DEF G, n
      <3> QED
        BY <1>1, <1>2, <1>3, UpTo
    <2> QED
      BY <1>1, <2>1
  <1> QED
    BY <1>4

\* The remove policy looks at one result after the other.
LEMMA HarmlessFold ==
  ASSUME NEW S, NEW s \in Seq(Result)
  PROVE  \E h : /\ h[0] = <<>> /\ Harmless(s, S) = h[Len(s)]
                /\ h \in [0..Len(s) -> Seq(Result)]
                /\ \A k \in 1..Len(s) : h[k] = KeepHarmless(S, h[k - 1], s[k])
  <1> DEFINE n == Len(s)
             T == Seq(Result)
             g == [p \in T \X (1..n) |-> KeepHarmless(S, p[1], s[p[2]])]
             Equation(f) == f = [r \in SUBSET (1..n) |->
                              IF r = {} THEN <<>> ELSE KeepHarmless(S, f[r \ {Max(r)}], s[Max(r)])]
  <1>0. n \in Nat /\ DOMAIN s = 1..n
    OBVIOUS
  <1>1. g \in [T \X (1..n) -> T]
    <2>1. \A a \in T, i \in 1..n : KeepHarmless(S, a, s[i]) \in T
      BY DEF KeepHarmless
    <2> QED
      BY <2>1
  <1>2. PICK f \in [SUBSET (1..n) -> T] : IsFold(f, g, <<>>, n)
    <2>1. <<>> \in T
      OBVIOUS
    <2> HIDE DEF g, n, T
    <2> QED
      BY <1>0, <1>1, <2>1, FoldExists
  <1>3. Equation(f)
    <2>1. ASSUME NEW r \in SUBSET (1..n)
          PROVE  f[r] = IF r = {} THEN <<>> ELSE KeepHarmless(S, f[r \ {Max(r)}], s[Max(r)])
      <3>1. CASE r = {}
        BY <1>2, <3>1 DEF IsFold
      <3>2. CASE r # {}
        <4>1. Max(r) \in r /\ Max(r) \in 1..n
          BY <1>0, <3>2, NatMax
        <4>2. f[r] = g[<<f[r \ {Max(r)}], Max(r)>>]
          BY <1>2, <3>2 DEF IsFold
        <4>3. f[r \ {Max(r)}] \in T
          BY <1>2
        <4> HIDE DEF T, n
        <4> QED
          BY <3>2, <4>1, <4>2, <4>3
      <3> QED
        BY <3>1, <3>2
    <2> QED
      BY <2>1
  <1>4. PICK e : Equation(e) /\ Harmless(s, S) = e[1..n]
    BY <1>0, <1>3 DEF Harmless, FoldLeft, MapThenFoldSet
  <1>5. Folds(e, T, g, <<>>, n)
    <2>1. \A r \in SUBSET (1..n) :
             e[r] = IF r = {} THEN <<>> ELSE KeepHarmless(S, e[r \ {Max(r)}], s[Max(r)])
      BY <1>4
    <2>2. ASSUME NEW r \in SUBSET (1..n), r # {}, e[r \ {Max(r)}] \in T
          PROVE  e[r] = g[<<e[r \ {Max(r)}], Max(r)>>]
      <3>1. Max(r) \in 1..n
        BY <1>0, <2>2, NatMax
      <3>2. e[r] = KeepHarmless(S, e[r \ {Max(r)}], s[Max(r)])
        BY <2>1, <2>2
      <3> HIDE DEF T, n
      <3> QED
        BY <2>2, <3>1, <3>2
    <2>3. e[{}] = <<>>
      BY <2>1
    <2> HIDE DEF g, T, n
    <2> QED
      BY <2>2, <2>3 DEF Folds
  <1>6. PICK h : IsChain(h, e, T, g, <<>>, n)
    <2>1. <<>> \in T
      OBVIOUS
    <2> HIDE DEF g, T, n
    <2> QED
      BY <1>0, <1>1, <1>5, <2>1, FoldChain
  <1>7. ASSUME NEW k \in 1..n PROVE h[k] = KeepHarmless(S, h[k - 1], s[k])
    <2>1. h[k - 1] \in T
      BY <1>0, <1>6 DEF IsChain
    <2> HIDE DEF T, n
    <2> QED
      BY <1>6, <2>1 DEF IsChain
  <1>8. h[0] = <<>> /\ h[n] = e[1..n] /\ h \in [0..n -> T]
    BY <1>6 DEF IsChain
  <1> QED
    BY <1>4, <1>7, <1>8

\* The remove policy keeps a part of the list.
LEMMA HarmlessPart ==
  ASSUME NEW S, NEW s \in Seq(Result)
  PROVE  Part(Harmless(s, S), s, Len(s))
  <1>1. PICK h : /\ h[0] = <<>> /\ Harmless(s, S) = h[Len(s)]
                 /\ \A k \in 1..Len(s) : h[k] = KeepHarmless(S, h[k - 1], s[k])
    BY HarmlessFold
  <1>2. \A k \in 1..Len(s) : \/ h[k] = h[k - 1]
                             \/ \E x \in Result : x.piece = s[k].piece /\ h[k] = Append(h[k - 1], x)
    <2> SUFFICES ASSUME NEW k \in 1..Len(s)
                 PROVE  \/ h[k] = h[k - 1]
                        \/ \E x \in Result : x.piece = s[k].piece /\ h[k] = Append(h[k - 1], x)
      OBVIOUS
    <2>1. PICK y \in Result : y = s[k]
      OBVIOUS
    <2>2. h[k] = KeepHarmless(S, h[k - 1], y)
      BY <1>1, <2>1
    <2>3. h[k] = h[k - 1] \/ h[k] = Append(h[k - 1], y)
      BY <2>2 DEF KeepHarmless
    <2> QED
      BY <2>1, <2>3
  <1> QED
    BY <1>1, <1>2, PartOfChain

\* A distinct result, cut or whole, is a result.
LEMMA DistinctTaken ==
  ASSUME NEW u \in Seq(Result), NEW x \in Result
  PROVE  /\ KeepDistinct(u, x) \in Seq(Result)
         /\ \/ KeepDistinct(u, x) = u /\ u # <<>>
            \/ \E y \in Result : y.piece = x.piece /\ KeepDistinct(u, x) = Append(u, y)
  <1>1. PICK y \in Result : y = [x EXCEPT !.cut = Text[x.piece] \in Long] /\ y.piece = x.piece
    <2>1. \A c \in BOOLEAN : [x EXCEPT !.cut = c] \in Result /\ [x EXCEPT !.cut = c].piece = x.piece
      BY DEF Result
    <2>2. (Text[x.piece] \in Long) \in BOOLEAN
      OBVIOUS
    <2> QED
      BY <2>1, <2>2
  <1>2. CASE \E i \in DOMAIN u : Similar(x, u[i])
    <2>1. u # <<>>
      BY <1>2
    <2> QED
      BY <1>2, <2>1 DEF KeepDistinct
  <1>3. CASE ~\E i \in DOMAIN u : Similar(x, u[i])
    <2>1. KeepDistinct(u, x) = Append(u, y)
      BY <1>1, <1>3 DEF KeepDistinct
    <2>2. Append(u, y) \in Seq(Result)
      OBVIOUS
    <2>3. \E z \in Result : z.piece = x.piece /\ KeepDistinct(u, x) = Append(u, z)
      BY <1>1, <2>1
    <2> QED
      BY <2>1, <2>2, <2>3
  <1> QED
    BY <1>2, <1>3

\* Near duplicates are looked for in what was kept before.
LEMMA DistinctFold ==
  ASSUME NEW s \in Seq(Result)
  PROVE  \E h : /\ h[0] = <<>> /\ FoldLeft(KeepDistinct, <<>>, s) = h[Len(s)]
                /\ h \in [0..Len(s) -> Seq(Result)]
                /\ \A k \in 1..Len(s) : h[k] = KeepDistinct(h[k - 1], s[k])
  <1> DEFINE n == Len(s)
             T == Seq(Result)
             g == [p \in T \X (1..n) |-> KeepDistinct(p[1], s[p[2]])]
             Equation(f) == f = [r \in SUBSET (1..n) |->
                              IF r = {} THEN <<>> ELSE KeepDistinct(f[r \ {Max(r)}], s[Max(r)])]
  <1>0. n \in Nat /\ DOMAIN s = 1..n
    OBVIOUS
  <1>1. g \in [T \X (1..n) -> T]
    <2>1. \A a \in T, i \in 1..n : KeepDistinct(a, s[i]) \in T
      <3>1. \A i \in 1..n : s[i] \in Result
        OBVIOUS
      <3> QED
        BY <3>1, DistinctTaken
    <2> QED
      BY <2>1
  <1>2. PICK f \in [SUBSET (1..n) -> T] : IsFold(f, g, <<>>, n)
    <2>1. <<>> \in T
      OBVIOUS
    <2> HIDE DEF g, n, T
    <2> QED
      BY <1>0, <1>1, <2>1, FoldExists
  <1>3. Equation(f)
    <2>1. ASSUME NEW r \in SUBSET (1..n)
          PROVE  f[r] = IF r = {} THEN <<>> ELSE KeepDistinct(f[r \ {Max(r)}], s[Max(r)])
      <3>1. CASE r = {}
        BY <1>2, <3>1 DEF IsFold
      <3>2. CASE r # {}
        <4>1. Max(r) \in r /\ Max(r) \in 1..n
          BY <1>0, <3>2, NatMax
        <4>2. f[r] = g[<<f[r \ {Max(r)}], Max(r)>>]
          BY <1>2, <3>2 DEF IsFold
        <4>3. f[r \ {Max(r)}] \in T
          BY <1>2
        <4> HIDE DEF T, n
        <4> QED
          BY <3>2, <4>1, <4>2, <4>3
      <3> QED
        BY <3>1, <3>2
    <2> QED
      BY <2>1
  <1>4. PICK e : Equation(e) /\ FoldLeft(KeepDistinct, <<>>, s) = e[1..n]
    BY <1>0, <1>3 DEF FoldLeft, MapThenFoldSet
  <1>5. Folds(e, T, g, <<>>, n)
    <2>1. \A r \in SUBSET (1..n) :
             e[r] = IF r = {} THEN <<>> ELSE KeepDistinct(e[r \ {Max(r)}], s[Max(r)])
      BY <1>4
    <2>2. ASSUME NEW r \in SUBSET (1..n), r # {}, e[r \ {Max(r)}] \in T
          PROVE  e[r] = g[<<e[r \ {Max(r)}], Max(r)>>]
      <3>1. Max(r) \in 1..n
        BY <1>0, <2>2, NatMax
      <3>2. e[r] = KeepDistinct(e[r \ {Max(r)}], s[Max(r)])
        BY <2>1, <2>2
      <3> HIDE DEF T, n
      <3> QED
        BY <2>2, <3>1, <3>2
    <2>3. e[{}] = <<>>
      BY <2>1
    <2> HIDE DEF g, T, n
    <2> QED
      BY <2>2, <2>3 DEF Folds
  <1>6. PICK h : IsChain(h, e, T, g, <<>>, n)
    <2>1. <<>> \in T
      OBVIOUS
    <2> HIDE DEF g, T, n
    <2> QED
      BY <1>0, <1>1, <1>5, <2>1, FoldChain
  <1>7. ASSUME NEW k \in 1..n PROVE h[k] = KeepDistinct(h[k - 1], s[k])
    <2>1. h[k - 1] \in T
      BY <1>0, <1>6 DEF IsChain
    <2> HIDE DEF T, n
    <2> QED
      BY <1>6, <2>1 DEF IsChain
  <1>8. h[0] = <<>> /\ h[n] = e[1..n] /\ h \in [0..n -> T]
    BY <1>6 DEF IsChain
  <1> QED
    BY <1>4, <1>7, <1>8

\* The distinct results are a part of the list, and the best one is among them.
LEMMA DistinctPart ==
  ASSUME NEW s \in Seq(Result)
  PROVE  Part(Distinct(s), s, Len(s)) /\ Starts(Distinct(s), s, Len(s))
  <1>1. PICK h : /\ h[0] = <<>> /\ Distinct(s) = h[Len(s)] /\ h \in [0..Len(s) -> Seq(Result)]
                 /\ \A k \in 1..Len(s) : h[k] = KeepDistinct(h[k - 1], s[k])
    BY DistinctFold DEF Distinct
  <1>2. \A k \in 1..Len(s) : \/ h[k] = h[k - 1] /\ h[k - 1] # <<>>
                             \/ \E x \in Result : x.piece = s[k].piece /\ h[k] = Append(h[k - 1], x)
    <2> SUFFICES ASSUME NEW k \in 1..Len(s)
                 PROVE  \/ h[k] = h[k - 1] /\ h[k - 1] # <<>>
                        \/ \E x \in Result : x.piece = s[k].piece /\ h[k] = Append(h[k - 1], x)
      OBVIOUS
    <2>1. PICK u \in Seq(Result), y \in Result : u = h[k - 1] /\ y = s[k]
      <3>1. k - 1 \in 0..Len(s)
        OBVIOUS
      <3> QED
        BY <1>1, <3>1
    <2>2. h[k] = KeepDistinct(u, y)
      BY <1>1, <2>1
    <2>3. \/ KeepDistinct(u, y) = u /\ u # <<>>
          \/ \E x \in Result : x.piece = y.piece /\ KeepDistinct(u, y) = Append(u, x)
      BY DistinctTaken
    <2> QED
      BY <2>1, <2>2, <2>3
  <1>3. Part(h[Len(s)], s, Len(s))
    BY <1>1, <1>2, PartOfChain
  <1>4. Starts(h[Len(s)], s, Len(s))
    BY <1>1, <1>2, StartOfChain
  <1> QED
    BY <1>1, <1>3, <1>4

\* The tokens of a result, whole and cut to the budget.
LEMMA EstimateBounded ==
  \A x \in Result : Weight(x) \in Nat /\ Estimate(x) \in Nat /\ Estimate(x) <= Budget /\ Estimate(x) <= Weight(x)
  <1>1. Budget \in Nat /\ CutCost \in Nat /\ \A c \in Pieces : Cost[Text[c]] \in Nat
    BY RankingConstants DEF RankingConstants
  <1>2. ASSUME NEW x \in Result PROVE Weight(x) \in Nat
    <2>1. x.piece \in Pieces
      BY DEF Result
    <2> QED
      BY <1>1, <2>1 DEF Weight
  <1> QED
    BY <1>1, <1>2 DEF Estimate

\* The running estimate of a list.
LEMMA SpentFold ==
  ASSUME NEW s \in Seq(Result)
  PROVE  \E h : /\ h[0] = 0 /\ FoldLeft(AddEstimate, 0, s) = h[Len(s)]
                /\ h \in [0..Len(s) -> Nat]
                /\ \A k \in 1..Len(s) : h[k] = AddEstimate(h[k - 1], s[k])
  <1> DEFINE n == Len(s)
             T == Nat
             g == [p \in T \X (1..n) |-> AddEstimate(p[1], s[p[2]])]
             Equation(f) == f = [r \in SUBSET (1..n) |->
                              IF r = {} THEN 0 ELSE AddEstimate(f[r \ {Max(r)}], s[Max(r)])]
  <1>0. n \in Nat /\ DOMAIN s = 1..n
    OBVIOUS
  <1>1. g \in [T \X (1..n) -> T]
    <2>1. \A a \in T, i \in 1..n : AddEstimate(a, s[i]) \in T
      BY EstimateBounded DEF AddEstimate
    <2> QED
      BY <2>1
  <1>2. PICK f \in [SUBSET (1..n) -> T] : IsFold(f, g, 0, n)
    <2>1. 0 \in T
      OBVIOUS
    <2> HIDE DEF g, n, T
    <2> QED
      BY <1>0, <1>1, <2>1, FoldExists
  <1>3. Equation(f)
    <2>1. ASSUME NEW r \in SUBSET (1..n)
          PROVE  f[r] = IF r = {} THEN 0 ELSE AddEstimate(f[r \ {Max(r)}], s[Max(r)])
      <3>1. CASE r = {}
        BY <1>2, <3>1 DEF IsFold
      <3>2. CASE r # {}
        <4>1. Max(r) \in r /\ Max(r) \in 1..n
          BY <1>0, <3>2, NatMax
        <4>2. f[r] = g[<<f[r \ {Max(r)}], Max(r)>>]
          BY <1>2, <3>2 DEF IsFold
        <4>3. f[r \ {Max(r)}] \in T
          BY <1>2
        <4> HIDE DEF T, n
        <4> QED
          BY <3>2, <4>1, <4>2, <4>3
      <3> QED
        BY <3>1, <3>2
    <2> QED
      BY <2>1
  <1>4. PICK e : Equation(e) /\ FoldLeft(AddEstimate, 0, s) = e[1..n]
    BY <1>0, <1>3 DEF FoldLeft, MapThenFoldSet
  <1>5. Folds(e, T, g, 0, n)
    <2>1. \A r \in SUBSET (1..n) :
             e[r] = IF r = {} THEN 0 ELSE AddEstimate(e[r \ {Max(r)}], s[Max(r)])
      BY <1>4
    <2>2. ASSUME NEW r \in SUBSET (1..n), r # {}, e[r \ {Max(r)}] \in T
          PROVE  e[r] = g[<<e[r \ {Max(r)}], Max(r)>>]
      <3>1. Max(r) \in 1..n
        BY <1>0, <2>2, NatMax
      <3>2. e[r] = AddEstimate(e[r \ {Max(r)}], s[Max(r)])
        BY <2>1, <2>2
      <3> HIDE DEF T, n
      <3> QED
        BY <2>2, <3>1, <3>2
    <2>3. e[{}] = 0
      BY <2>1
    <2> HIDE DEF g, T, n
    <2> QED
      BY <2>2, <2>3 DEF Folds
  <1>6. PICK h : IsChain(h, e, T, g, 0, n)
    <2>1. 0 \in T
      OBVIOUS
    <2> HIDE DEF g, T, n
    <2> QED
      BY <1>0, <1>1, <1>5, <2>1, FoldChain
  <1>7. ASSUME NEW k \in 1..n PROVE h[k] = AddEstimate(h[k - 1], s[k])
    <2>1. h[k - 1] \in T
      BY <1>0, <1>6 DEF IsChain
    <2> HIDE DEF T, n
    <2> QED
      BY <1>6, <2>1 DEF IsChain
  <1>8. h[0] = 0 /\ h[n] = e[1..n] /\ h \in [0..n -> T]
    BY <1>6 DEF IsChain
  <1> QED
    BY <1>4, <1>7, <1>8

\* The estimate of a list and of the list with one more.
LEMMA SpentGrows ==
  ASSUME NEW s \in Seq(Result), NEW x \in Result
  PROVE  /\ Spent(s) \in Nat /\ Spent(<<>>) = 0
         /\ Spent(Append(s, x)) = Spent(s) + Estimate(x)
  <1> DEFINE n == Len(s)
             t == Append(s, x)
  <1>1. PICK h : /\ h[0] = 0 /\ Spent(s) = h[n] /\ h \in [0..n -> Nat]
                 /\ \A k \in 1..n : h[k] = AddEstimate(h[k - 1], s[k])
    BY SpentFold DEF Spent
  <1>2. n \in Nat /\ t \in Seq(Result) /\ Len(t) = n + 1 /\ t[n + 1] = x /\ \A k \in 1..n : t[k] = s[k]
    OBVIOUS
  <1> HIDE DEF t
  <1>3. PICK g : /\ g[0] = 0 /\ Spent(t) = g[n + 1] /\ g \in [0..n + 1 -> Nat]
                 /\ \A k \in 1..n + 1 : g[k] = AddEstimate(g[k - 1], t[k])
    <2>1. PICK g : /\ g[0] = 0 /\ Spent(t) = g[Len(t)] /\ g \in [0..Len(t) -> Nat]
                   /\ \A k \in 1..Len(t) : g[k] = AddEstimate(g[k - 1], t[k])
      BY <1>2, SpentFold DEF Spent
    <2> QED
      BY <1>2, <2>1
  <1>4. PICK z : /\ z[0] = 0 /\ Spent(<<>>) = z[0]
    <2>1. <<>> \in Seq(Result) /\ Len(<<>>) = 0
      OBVIOUS
    <2>2. PICK z : z[0] = 0 /\ Spent(<<>>) = z[Len(<<>>)]
      BY <2>1, SpentFold DEF Spent
    <2> QED
      BY <2>1, <2>2
  <1> DEFINE G == {k \in 0..n : g[k] = h[k]}
  <1>5. 0 \in G
    BY <1>1, <1>2, <1>3
  <1>6. ASSUME NEW k \in 1..n, k - 1 \in G PROVE k \in G
    <2>1. g[k - 1] = h[k - 1] /\ k \in 1..n + 1 /\ t[k] = s[k]
      BY <1>2, <1>6
    <2>2. g[k] = AddEstimate(g[k - 1], t[k]) /\ h[k] = AddEstimate(h[k - 1], s[k])
      BY <1>1, <1>3, <2>1
    <2>3. g[k] = h[k]
      BY <2>1, <2>2
    <2> QED
      BY <2>3
  <1>7. n \in G
    <2>1. \A k \in 0..n : k \in G
      <3> HIDE DEF G, n
      <3> QED
        BY <1>2, <1>5, <1>6, UpTo
    <2> QED
      BY <1>2, <2>1
  <1>8. g[n + 1] = AddEstimate(g[n], x)
    <2>1. n + 1 \in 1..n + 1 /\ (n + 1) - 1 = n
      BY <1>2
    <2>2. g[n + 1] = AddEstimate(g[(n + 1) - 1], t[n + 1])
      BY <1>3, <2>1
    <2> QED
      BY <1>2, <2>1, <2>2
  <1>9. Spent(t) = Spent(s) + Estimate(x)
    BY <1>1, <1>3, <1>7, <1>8 DEF AddEstimate
  <1>10. Spent(s) \in Nat
    BY <1>1, <1>2
  <1> QED
    BY <1>4, <1>9, <1>10 DEF t

\* The context is filled with one result after the other.
LEMMA FitsFold ==
  ASSUME NEW s \in Seq(Result)
  PROVE  \E h : /\ h[0] = <<>> /\ FoldLeft(KeepFitting, <<>>, s) = h[Len(s)]
                /\ h \in [0..Len(s) -> Seq(Result)]
                /\ \A k \in 1..Len(s) : h[k] = KeepFitting(h[k - 1], s[k])
  <1> DEFINE n == Len(s)
             T == Seq(Result)
             g == [p \in T \X (1..n) |-> KeepFitting(p[1], s[p[2]])]
             Equation(f) == f = [r \in SUBSET (1..n) |->
                              IF r = {} THEN <<>> ELSE KeepFitting(f[r \ {Max(r)}], s[Max(r)])]
  <1>0. n \in Nat /\ DOMAIN s = 1..n
    OBVIOUS
  <1>1. g \in [T \X (1..n) -> T]
    <2>1. \A a \in T, i \in 1..n : KeepFitting(a, s[i]) \in T
      BY DEF KeepFitting
    <2> QED
      BY <2>1
  <1>2. PICK f \in [SUBSET (1..n) -> T] : IsFold(f, g, <<>>, n)
    <2>1. <<>> \in T
      OBVIOUS
    <2> HIDE DEF g, n, T
    <2> QED
      BY <1>0, <1>1, <2>1, FoldExists
  <1>3. Equation(f)
    <2>1. ASSUME NEW r \in SUBSET (1..n)
          PROVE  f[r] = IF r = {} THEN <<>> ELSE KeepFitting(f[r \ {Max(r)}], s[Max(r)])
      <3>1. CASE r = {}
        BY <1>2, <3>1 DEF IsFold
      <3>2. CASE r # {}
        <4>1. Max(r) \in r /\ Max(r) \in 1..n
          BY <1>0, <3>2, NatMax
        <4>2. f[r] = g[<<f[r \ {Max(r)}], Max(r)>>]
          BY <1>2, <3>2 DEF IsFold
        <4>3. f[r \ {Max(r)}] \in T
          BY <1>2
        <4> HIDE DEF T, n
        <4> QED
          BY <3>2, <4>1, <4>2, <4>3
      <3> QED
        BY <3>1, <3>2
    <2> QED
      BY <2>1
  <1>4. PICK e : Equation(e) /\ FoldLeft(KeepFitting, <<>>, s) = e[1..n]
    BY <1>0, <1>3 DEF FoldLeft, MapThenFoldSet
  <1>5. Folds(e, T, g, <<>>, n)
    <2>1. \A r \in SUBSET (1..n) :
             e[r] = IF r = {} THEN <<>> ELSE KeepFitting(e[r \ {Max(r)}], s[Max(r)])
      BY <1>4
    <2>2. ASSUME NEW r \in SUBSET (1..n), r # {}, e[r \ {Max(r)}] \in T
          PROVE  e[r] = g[<<e[r \ {Max(r)}], Max(r)>>]
      <3>1. Max(r) \in 1..n
        BY <1>0, <2>2, NatMax
      <3>2. e[r] = KeepFitting(e[r \ {Max(r)}], s[Max(r)])
        BY <2>1, <2>2
      <3> HIDE DEF T, n
      <3> QED
        BY <2>2, <3>1, <3>2
    <2>3. e[{}] = <<>>
      BY <2>1
    <2> HIDE DEF g, T, n
    <2> QED
      BY <2>2, <2>3 DEF Folds
  <1>6. PICK h : IsChain(h, e, T, g, <<>>, n)
    <2>1. <<>> \in T
      OBVIOUS
    <2> HIDE DEF g, T, n
    <2> QED
      BY <1>0, <1>1, <1>5, <2>1, FoldChain
  <1>7. ASSUME NEW k \in 1..n PROVE h[k] = KeepFitting(h[k - 1], s[k])
    <2>1. h[k - 1] \in T
      BY <1>0, <1>6 DEF IsChain
    <2> HIDE DEF T, n
    <2> QED
      BY <1>6, <2>1 DEF IsChain
  <1>8. h[0] = <<>> /\ h[n] = e[1..n] /\ h \in [0..n -> T]
    BY <1>6 DEF IsChain
  <1> QED
    BY <1>4, <1>7, <1>8

\* The context is a part of the ordered list, starts with its first result and fits the budget.
LEMMA FitsPart ==
  ASSUME NEW s \in Seq(Result)
  PROVE  Part(Fits(s), s, Len(s)) /\ Starts(Fits(s), s, Len(s)) /\ Spent(Fits(s)) <= Budget
  <1>1. PICK h : /\ h[0] = <<>> /\ Fits(s) = h[Len(s)] /\ h \in [0..Len(s) -> Seq(Result)]
                 /\ \A k \in 1..Len(s) : h[k] = KeepFitting(h[k - 1], s[k])
    BY FitsFold DEF Fits
  <1>2. ASSUME NEW k \in 1..Len(s)
        PROVE  \E u \in Seq(Result), y \in Result :
                  /\ u = h[k - 1] /\ y = s[k]
                  /\ \/ h[k] = u /\ u # <<>>
                     \/ h[k] = Append(u, y) /\ (u = <<>> \/ ~(Spent(u) + Weight(y) > Budget))
    <2>1. PICK u \in Seq(Result), y \in Result : u = h[k - 1] /\ y = s[k]
      <3>1. k - 1 \in 0..Len(s)
        OBVIOUS
      <3> QED
        BY <1>1, <3>1
    <2>2. h[k] = KeepFitting(u, y)
      BY <1>1, <2>1
    <2>3. \/ h[k] = u /\ u # <<>>
          \/ h[k] = Append(u, y) /\ (u = <<>> \/ ~(Spent(u) + Weight(y) > Budget))
      BY <2>2 DEF KeepFitting
    <2> QED
      BY <2>1, <2>3
  <1>3. \A k \in 1..Len(s) : \/ h[k] = h[k - 1] /\ h[k - 1] # <<>>
                             \/ \E x \in Result : x.piece = s[k].piece /\ h[k] = Append(h[k - 1], x)
    BY <1>2
  <1>4. Part(h[Len(s)], s, Len(s))
    BY <1>1, <1>3, PartOfChain
  <1>5. Starts(h[Len(s)], s, Len(s))
    BY <1>1, <1>3, StartOfChain
  <1> DEFINE n == Len(s)
             G == {k \in 0..n : Spent(h[k]) <= Budget}
  <1>6. n \in Nat /\ Budget \in Nat
    BY RankingConstants DEF RankingConstants
  <1>7. 0 \in G
    <2>1. <<>> \in Seq(Result) /\ Len(<<>>) = 0
      OBVIOUS
    <2>2. Spent(<<>>) = 0
      <3>1. PICK z : z[0] = 0 /\ Spent(<<>>) = z[Len(<<>>)]
        BY <2>1, SpentFold DEF Spent
      <3> QED
        BY <2>1, <3>1
    <2> QED
      BY <1>1, <1>6, <2>2
  <1>8. ASSUME NEW k \in 1..n, k - 1 \in G PROVE k \in G
    <2>1. PICK u \in Seq(Result), y \in Result :
             /\ u = h[k - 1] /\ y = s[k]
             /\ \/ h[k] = u /\ u # <<>>
                \/ h[k] = Append(u, y) /\ (u = <<>> \/ ~(Spent(u) + Weight(y) > Budget))
      BY <1>2
    <2>2. Spent(u) <= Budget
      BY <1>8, <2>1
    <2>3. PICK a \in Nat, e \in Nat, v \in Nat : /\ a = Spent(u) /\ e = Estimate(y) /\ v = Weight(y)
                                                 /\ e <= Budget /\ e <= v
      BY EstimateBounded, SpentGrows
    <2>4. Spent(Append(u, y)) = a + e
      BY <2>3, SpentGrows
    <2>5. u = <<>> => a = 0
      BY <2>1, <2>3, SpentGrows
    <2>6. Spent(h[k]) <= Budget
      <3>1. CASE h[k] = u
        BY <2>2, <3>1
      <3>2. CASE h[k] = Append(u, y) /\ u = <<>>
        <4>1. Spent(h[k]) = e
          BY <2>3, <2>4, <2>5, <3>2
        <4> QED
          BY <2>3, <4>1
      <3>3. CASE h[k] = Append(u, y) /\ ~(Spent(u) + Weight(y) > Budget)
        <4>1. Spent(h[k]) = a + e
          BY <2>4, <3>3
        <4>2. ~(a + v > Budget)
          BY <2>3, <3>3
        <4>3. a + e <= Budget
          BY <1>6, <2>3, <4>2
        <4> QED
          BY <4>1, <4>3
      <3> QED
        BY <2>1, <3>1, <3>2, <3>3
    <2> QED
      BY <2>6
  <1>9. n \in G
    <2>1. \A k \in 0..n : k \in G
      <3> HIDE DEF G, n
      <3> QED
        BY <1>6, <1>7, <1>8, UpTo
    <2> QED
      BY <1>6, <2>1
  <1> QED
    BY <1>1, <1>4, <1>5, <1>9

\* The place in the list of m results of the one that is i-th with the best at the ends.
Turn(m, i) == IF i <= 1 + (m - 1) \div 2 THEN 2 * i - 1 ELSE 2 * (m - i) + 2

\* Every place is taken once, the two best ones at the ends, and there is no valley between.
LEMMA TurnsOnce ==
  ASSUME NEW m \in Nat
  PROVE  /\ \A i \in 1..m : Turn(m, i) \in 1..m
         /\ \A i, j \in 1..m : i # j => Turn(m, i) # Turn(m, j)
         /\ m > 0 => Turn(m, 1) = 1
         /\ m > 2 => Turn(m, m) = 2
         /\ \A i, j, k \in 1..m : i < j /\ j < k => ~(Turn(m, j) < Turn(m, i) /\ Turn(m, j) < Turn(m, k))
  <1>1. CASE m = 0
    BY <1>1
  <1>2. CASE m > 0
    <2>1. PICK b \in Nat : b = (m - 1) \div 2 /\ 2 * b <= m - 1 /\ m - 1 <= 2 * b + 1
      BY <1>2
    <2>2. \A i \in 1..m : /\ i <= 1 + b => Turn(m, i) = 2 * i - 1
                          /\ ~(i <= 1 + b) => Turn(m, i) = 2 * (m - i) + 2
      BY <2>1 DEF Turn
    <2>3. \A i \in 1..m : Turn(m, i) \in 1..m
      BY <2>1, <2>2
    <2>4. \A i, j \in 1..m : i # j => Turn(m, i) # Turn(m, j)
      BY <2>1, <2>2
    <2>5. Turn(m, 1) = 1
      BY <1>2, <2>1, <2>2
    <2>6. m > 2 => Turn(m, m) = 2
      BY <2>1, <2>2
    <2>7. \A i, j, k \in 1..m : i < j /\ j < k => ~(Turn(m, j) < Turn(m, i) /\ Turn(m, j) < Turn(m, k))
      BY <2>1, <2>2
    <2> QED
      BY <2>3, <2>4, <2>5, <2>6, <2>7
  <1> QED
    BY <1>1, <1>2

\* w is s, of length a, followed by t, of length b.
Joins(w, s, a, t, b) ==
    /\ w \in Seq(Result) /\ Len(w) = a + b
    /\ \A i \in 1..a : w[i] = s[i]
    /\ \A i \in a + 1..a + b : w[i] = t[i - a]

\* Two lists, one after the other.
LEMMA JoinedLists ==
  ASSUME NEW s \in Seq(Result), NEW t \in Seq(Result), NEW a \in Nat, a = Len(s), NEW b \in Nat, b = Len(t)
  PROVE  Joins(s \o t, s, a, t, b)
  BY DEF Joins

\* _lost_in_middle_order turns the list round its middle.
LEMMA MiddleTurns ==
  ASSUME NEW s \in Seq(Result)
  PROVE  /\ LostInMiddle(s) \in Seq(Result) /\ Len(LostInMiddle(s)) = Len(s)
         /\ \A i \in 1..Len(s) : LostInMiddle(s)[i] = s[Turn(Len(s), i)]
  <1>1. PICK m \in Nat : m = Len(s)
    OBVIOUS
  <1>2. CASE m < 3
    <2>1. LostInMiddle(s) = s
      BY <1>1, <1>2 DEF LostInMiddle
    <2>2. \A i \in 1..m : Turn(m, i) = i
      <3>1. m = 0 \/ m = 1 \/ m = 2
        BY <1>2
      <3> QED
        BY <3>1 DEF Turn
    <2> QED
      BY <1>1, <2>1, <2>2
  <1>3. CASE ~(m < 3)
    <2>1. PICK b \in Nat : b = (m - 1) \div 2 /\ 2 * b <= m - 1 /\ m - 1 <= 2 * b + 1
      BY <1>3
    <2>2. PICK c \in Nat : c = (m - 2) \div 2 /\ b + c = m - 2 /\ 2 * c <= m - 2
      BY <1>3, <2>1
    <2>3. PICK o \in Seq(Result) : o = Odd(s) /\ Len(o) = b /\ \A i \in 1..b : o[i] = s[2 * i + 1]
      <3>1. \A i \in 1..b : s[2 * i + 1] \in Result
        <4>1. \A i \in 1..b : 2 * i + 1 \in 1..m
          BY <2>1
        <4> QED
          BY <1>1, <4>1
      <3>2. Odd(s) = [i \in 1..b |-> s[2 * i + 1]]
        BY <1>1, <2>1 DEF Odd
      <3> QED
        BY <3>1, <3>2, SMTT(30)
    <2>4. PICK e \in Seq(Result) : e = Even(s) /\ Len(e) = c /\ \A i \in 1..c : e[i] = s[2 * i + 2]
      <3>1. \A i \in 1..c : s[2 * i + 2] \in Result
        <4>1. \A i \in 1..c : 2 * i + 2 \in 1..m
          BY <1>3, <2>2
        <4> QED
          BY <1>1, <4>1
      <3>2. PICK e : e = Even(s) /\ e = [i \in 1..c |-> s[2 * i + 2]]
        BY <1>1, <2>2 DEF Even
      <3>3. e \in Seq(Result) /\ Len(e) = c
        BY <3>1, <3>2
      <3>4. \A i \in 1..c : e[i] = s[2 * i + 2]
        BY <3>2
      <3> QED
        BY <3>2, <3>3, <3>4
    <2>5. PICK r \in Seq(Result) : r = Reverse(Even(s)) /\ Len(r) = c /\ \A i \in 1..c : r[i] = s[2 * (c - i + 1) + 2]
      <3>1. PICK r : r = Reverse(e) /\ r = [i \in 1..c |-> e[(c - i) + 1]]
        BY <2>4 DEF Reverse
      <3>2. \A i \in 1..c : (c - i) + 1 \in 1..c
        OBVIOUS
      <3>3. \A i \in 1..c : e[(c - i) + 1] \in Result /\ e[(c - i) + 1] = s[2 * (c - i + 1) + 2]
        BY <2>4, <3>2
      <3>4. r \in Seq(Result) /\ Len(r) = c
        BY <3>1, <3>3
      <3>5. \A i \in 1..c : r[i] = s[2 * (c - i + 1) + 2]
        BY <3>1, <3>3
      <3> QED
        BY <2>4, <3>1, <3>4, <3>5
    <2>6. PICK x \in Result, y \in Result : x = s[1] /\ y = s[2]
      <3>1. 1 \in 1..m /\ 2 \in 1..m
        BY <1>3
      <3> QED
        BY <1>1, <3>1
    <2>7. LostInMiddle(s) = <<x>> \o o \o r \o <<y>>
      BY <1>1, <1>3, <2>3, <2>5, <2>6 DEF LostInMiddle
    <2>8. PICK t \in Seq(Result) : /\ t = <<x>> \o o /\ Len(t) = 1 + b /\ t[1] = x
                                   /\ \A i \in 2..1 + b : t[i] = o[i - 1]
      <3>1. <<x>> \in Seq(Result) /\ Len(<<x>>) = 1 /\ <<x>>[1] = x
        OBVIOUS
      <3>2. PICK t : t = <<x>> \o o
        OBVIOUS
      <3>3. 1 \in Nat
        OBVIOUS
      <3>4. Joins(t, <<x>>, 1, o, b)
        BY <2>3, <3>1, <3>2, <3>3, JoinedLists
      <3>5. /\ t \in Seq(Result) /\ Len(t) = 1 + b /\ \A i \in 1..1 : t[i] = <<x>>[i]
            /\ \A i \in 1 + 1..1 + b : t[i] = o[i - 1]
        BY <3>4 DEF Joins
      <3>6. t[1] = x /\ \A i \in 2..1 + b : i \in 1 + 1..1 + b
        BY <3>1, <3>5
      <3> QED
        BY <3>2, <3>5, <3>6
    <2>9. PICK w \in Seq(Result) : /\ w = t \o r /\ Len(w) = 1 + b + c
                                   /\ \A i \in 1..1 + b : w[i] = t[i]
                                   /\ \A i \in 2 + b..1 + b + c : w[i] = r[i - (1 + b)]
      <3>1. PICK d \in Nat : d = 1 + b /\ d = Len(t)
        BY <2>8
      <3>2. PICK w : w = t \o r
        OBVIOUS
      <3>3. Joins(w, t, d, r, c)
        BY <2>5, <3>1, <3>2, JoinedLists
      <3>4. /\ w \in Seq(Result) /\ Len(w) = d + c /\ \A i \in 1..d : w[i] = t[i]
            /\ \A i \in d + 1..d + c : w[i] = r[i - d]
        BY <3>3 DEF Joins
      <3>5. d + c = 1 + b + c /\ \A i \in 2 + b..1 + b + c : i \in d + 1..d + c /\ i - (1 + b) = i - d
        BY <3>1
      <3> QED
        <4>1. Len(w) = 1 + b + c /\ \A i \in 1..1 + b : w[i] = t[i]
          BY <3>1, <3>4, <3>5
        <4>2. \A i \in 2 + b..1 + b + c : w[i] = r[i - (1 + b)]
          BY <3>4, <3>5
        <4> QED
          BY <3>2, <3>4, <4>1, <4>2
    <2>10. PICK v \in Seq(Result) : /\ v = w \o <<y>> /\ Len(v) = m /\ v[m] = y
                                    /\ \A i \in 1..m - 1 : v[i] = w[i]
      <3>1. <<y>> \in Seq(Result) /\ Len(<<y>>) = 1 /\ <<y>>[1] = y
        OBVIOUS
      <3>2. PICK d \in Nat : d = m - 1 /\ d = Len(w)
        <4>1. m - 1 \in Nat /\ m - 1 = 1 + b + c
          BY <1>3, <2>2
        <4> QED
          BY <2>9, <4>1
      <3>3. PICK v : v = w \o <<y>>
        OBVIOUS
      <3>4. 1 \in Nat
        OBVIOUS
      <3>5. Joins(v, w, d, <<y>>, 1)
        BY <3>1, <3>2, <3>3, <3>4, JoinedLists
      <3>6. /\ v \in Seq(Result) /\ Len(v) = d + 1 /\ \A i \in 1..d : v[i] = w[i]
            /\ \A i \in d + 1..d + 1 : v[i] = <<y>>[i - d]
        BY <3>5 DEF Joins
      <3>7. d + 1 = m /\ m \in d + 1..d + 1 /\ m - d = 1 /\ m - 1 = d
        BY <3>2
      <3>8. v[m] = y
        BY <3>1, <3>6, <3>7
      <3> QED
        BY <3>3, <3>6, <3>7, <3>8
    <2>11. v = LostInMiddle(s)
      BY <2>7, <2>8, <2>9, <2>10
    <2>12. ASSUME NEW i \in 1..m PROVE v[i] = s[Turn(m, i)]
      <3>1. CASE i = 1
        <4>1. v[1] = x
          BY <1>3, <2>2, <2>8, <2>9, <2>10
        <4>2. Turn(m, 1) = 1
          BY <1>3, TurnsOnce
        <4> QED
          BY <2>6, <3>1, <4>1, <4>2
      <3>2. CASE i \in 2..1 + b
        <4>1. v[i] = o[i - 1]
          BY <2>2, <2>8, <2>9, <2>10, <3>2, SMTT(30)
        <4>2. o[i - 1] = s[2 * (i - 1) + 1]
          BY <2>3, <3>2, SMTT(30)
        <4>3. Turn(m, i) = 2 * (i - 1) + 1
          BY <2>1, <3>2 DEF Turn
        <4> QED
          BY <4>1, <4>2, <4>3
      <3>3. CASE i \in 2 + b..m - 1
        <4>1. v[i] = r[i - (1 + b)] /\ i - (1 + b) \in 1..c
          BY <2>2, <2>9, <2>10, <3>3
        <4>2. r[i - (1 + b)] = s[2 * (c - (i - (1 + b)) + 1) + 2]
          BY <2>5, <4>1
        <4>3. Turn(m, i) = 2 * (c - (i - (1 + b)) + 1) + 2
          BY <2>1, <2>2, <3>3 DEF Turn
        <4> QED
          BY <4>1, <4>2, <4>3
      <3>4. CASE i = m
        <4>1. Turn(m, m) = 2
          BY <1>3, TurnsOnce
        <4> QED
          BY <2>6, <2>10, <3>4, <4>1
      <3> QED
        BY <2>1, <2>2, <3>1, <3>2, <3>3, <3>4
    <2> QED
      BY <1>1, <2>10, <2>11, <2>12
  <1> QED
    BY <1>2, <1>3

\* The places of a part that holds every piece once.
LEMMA PartIsSingle ==
  ASSUME NEW s, NEW k \in Nat, \A i, j \in 1..k : i # j => s[i].piece # s[j].piece,
         NEW u, Part(u, s, k)
  PROVE  Single(u)
  <1>1. PICK f : /\ f \in [1..Len(u) -> 1..k] /\ u \in Seq(Result)
                 /\ \A i, j \in 1..Len(u) : i < j => f[i] < f[j]
                 /\ \A i \in 1..Len(u) : u[i].piece = s[f[i]].piece
    BY DEF Part
  <1>2. PICK n \in Nat : n = Len(u)
    BY <1>1
  <1>3. \A i \in 1..n : f[i] \in 1..k
    BY <1>1, <1>2
  <1>4. \A i, j \in 1..n : i # j => f[i] # f[j]
    <2> SUFFICES ASSUME NEW i \in 1..n, NEW j \in 1..n, i # j PROVE f[i] # f[j]
      OBVIOUS
    <2>1. f[i] \in Int /\ f[j] \in Int
      BY <1>3
    <2>2. i < j \/ j < i
      OBVIOUS
    <2>3. f[i] < f[j] \/ f[j] < f[i]
      BY <1>1, <1>2, <2>2
    <2> QED
      BY <2>1, <2>3
  <1>5. \A i, j \in 1..n : i # j => u[i].piece # u[j].piece
    <2> SUFFICES ASSUME NEW i \in 1..n, NEW j \in 1..n, i # j PROVE u[i].piece # u[j].piece
      OBVIOUS
    <2>1. PICK a \in 1..k, b \in 1..k : a = f[i] /\ b = f[j] /\ a # b
      BY <1>3, <1>4
    <2>2. s[a].piece # s[b].piece
      BY <2>1
    <2> QED
      BY <1>1, <1>2, <2>1, <2>2
  <1> QED
    BY <1>2, <1>5 DEF Single

\* f takes the n results of u to their places in s.
Embeds(f, u, n, s, k) ==
    /\ f \in [1..n -> 1..k]
    /\ \A i, j \in 1..n : i < j => f[i] < f[j]
    /\ \A i \in 1..n : u[i].piece = s[f[i]].piece

\* The context has the shape that was meant: distinct results, turned round, and what fits of them.
LEMMA PackedShape ==
  ASSUME NEW r \in Seq(Result), Single(r), NEW c, c = Fits(LostInMiddle(Distinct(r)))
  PROVE  LET n == Len(c)
             place(i) == At(r, c[i].piece)
             second == Distinct(r)[2].piece IN
         /\ (r # <<>>) = (n > 0) /\ Spent(c) <= Budget
         /\ n > 0 => c[1].piece = r[1].piece
         /\ n > 2 /\ Has(c, second) => c[n].piece = second
         /\ \A i \in 2..(n - 1) : ~(place(i) < place(i - 1) /\ place(i + 1) > place(i))
  <1>1. PICK p \in Nat : p = Len(r)
    OBVIOUS
  <1>2. PICK d : d = Distinct(r) /\ Part(d, r, p) /\ Starts(d, r, p)
    BY <1>1, DistinctPart
  <1>3. d \in Seq(Result) /\ \E f : Embeds(f, d, Len(d), r, p)
    BY <1>2 DEF Part, Embeds
  <1>4. PICK m \in Nat : m = Len(d)
    BY <1>3
  <1>5. PICK f : Embeds(f, d, m, r, p)
    BY <1>3, <1>4
  <1>6. /\ f \in [1..m -> 1..p]
        /\ \A i, j \in 1..m : i < j => f[i] < f[j]
        /\ \A i \in 1..m : d[i].piece = r[f[i]].piece
    BY <1>5 DEF Embeds
  <1>7. PICK l : l = LostInMiddle(d) /\ l \in Seq(Result) /\ Len(l) = m /\ \A i \in 1..m : l[i] = d[Turn(m, i)]
    BY <1>3, <1>4, MiddleTurns
  <1>8. c = Fits(l) /\ Part(c, l, m) /\ Starts(c, l, m) /\ Spent(c) <= Budget
    BY <1>2, <1>7, FitsPart
  <1>9. c \in Seq(Result) /\ \E g : Embeds(g, c, Len(c), l, m)
    BY <1>8 DEF Part, Embeds
  <1>10. PICK n \in Nat : n = Len(c)
    BY <1>9
  <1>11. PICK g : Embeds(g, c, n, l, m)
    BY <1>9, <1>10
  <1>12. /\ g \in [1..n -> 1..m]
         /\ \A i, j \in 1..n : i < j => g[i] < g[j]
         /\ \A i \in 1..n : c[i].piece = l[g[i]].piece
    BY <1>11 DEF Embeds
  <1>13. /\ \A i \in 1..m : Turn(m, i) \in 1..m
         /\ \A i, j \in 1..m : i # j => Turn(m, i) # Turn(m, j)
         /\ m > 0 => Turn(m, 1) = 1
         /\ m > 2 => Turn(m, m) = 2
         /\ \A i, j, k \in 1..m : i < j /\ j < k => ~(Turn(m, j) < Turn(m, i) /\ Turn(m, j) < Turn(m, k))
    BY TurnsOnce
  <1> DEFINE t == [i \in 1..n |-> Turn(m, g[i])]
  <1>14. \A i \in 1..n : g[i] \in 1..m /\ t[i] = Turn(m, g[i]) /\ t[i] \in 1..m
    BY <1>12, <1>13
  <1> HIDE DEF t
  <1>15. \A i \in 1..n : c[i].piece = d[t[i]].piece
    <2> SUFFICES ASSUME NEW i \in 1..n PROVE c[i].piece = d[t[i]].piece
      OBVIOUS
    <2>1. PICK a \in 1..m : a = g[i] /\ t[i] = Turn(m, a)
      BY <1>14
    <2>2. l[a] = d[Turn(m, a)] /\ c[i].piece = l[a].piece
      BY <1>7, <1>12, <2>1
    <2> QED
      BY <2>1, <2>2
  <1>16. (r # <<>>) = (n > 0)
    <2>1. (r # <<>>) = (p > 0)
      BY <1>1
    <2>2. p > 0 => m > 0
      BY <1>2, <1>4 DEF Starts
    <2>3. m > 0 => n > 0
      BY <1>8, <1>10 DEF Starts
    <2>4. m > 0 => p > 0
      <3> SUFFICES ASSUME m > 0 PROVE p > 0
        OBVIOUS
      <3>1. 1 \in 1..m
        OBVIOUS
      <3>2. f[1] \in 1..p
        BY <1>6, <3>1
      <3> QED
        BY <3>2
    <2>5. n > 0 => m > 0
      <3> SUFFICES ASSUME n > 0 PROVE m > 0
        OBVIOUS
      <3>1. 1 \in 1..n
        OBVIOUS
      <3>2. g[1] \in 1..m
        BY <1>14, <3>1
      <3> QED
        BY <3>2
    <2> QED
      BY <2>1, <2>2, <2>3, <2>4, <2>5
  <1>17. n > 0 => c[1].piece = r[1].piece
    <2> SUFFICES ASSUME n > 0 PROVE c[1].piece = r[1].piece
      OBVIOUS
    <2>1. 1 \in 1..n /\ g[1] \in 1..m
      BY <1>14
    <2>2. m > 0 /\ 1 \in 1..m
      BY <2>1
    <2>3. f[1] \in 1..p
      BY <1>6, <2>2
    <2>4. p > 0
      BY <2>3
    <2>5. c[1].piece = l[1].piece /\ l[1] = d[1]
      <3>1. l[1] = d[Turn(m, 1)] /\ Turn(m, 1) = 1
        BY <1>7, <1>13, <2>2
      <3>2. c[1].piece = l[1].piece
        BY <1>8, <2>2 DEF Starts
      <3> QED
        BY <3>1, <3>2
    <2>6. d[1].piece = r[1].piece
      BY <1>2, <2>4 DEF Starts
    <2> QED
      BY <2>5, <2>6
  <1>18. \A i, j \in 1..m : i # j => d[i].piece # d[j].piece
    <2>1. Single(d)
      <3>1. \A i, j \in 1..p : i # j => r[i].piece # r[j].piece
        BY <1>1 DEF Single
      <3> QED
        BY <1>2, <3>1, PartIsSingle
    <2> QED
      BY <1>4, <2>1 DEF Single
  <1>19. ASSUME n > 2, Has(c, d[2].piece) PROVE c[n].piece = d[2].piece
    <2>1. 1 \in 1..n /\ 2 \in 1..n /\ 3 \in 1..n /\ n \in 1..n
      BY <1>19
    <2>2. m > 2
      <3>1. g[1] < g[2] /\ g[2] < g[3] /\ g[1] \in 1..m /\ g[2] \in 1..m /\ g[3] \in 1..m
        BY <1>12, <1>14, <2>1
      <3> QED
        BY <3>1
    <2>3. PICK i \in 1..n : c[i].piece = d[2].piece
      BY <1>9, <1>10, <1>19 DEF Has
    <2>4. 2 \in 1..m /\ m \in 1..m
      BY <2>2
    <2>5. t[i] = 2
      BY <1>14, <1>15, <1>18, <2>3, <2>4, SMTT(30)
    <2>6. g[i] = m
      <3>1. PICK a \in 1..m : a = g[i] /\ t[i] = Turn(m, a)
        BY <1>14
      <3>2. Turn(m, m) = 2 /\ Turn(m, a) = 2
        BY <1>13, <2>2, <2>5, <3>1
      <3>3. a = m
        BY <1>13, <2>4, <3>2
      <3> QED
        BY <3>1, <3>3
    <2>7. i = n
      <3> SUFFICES ASSUME i # n PROVE FALSE
        OBVIOUS
      <3>1. i < n
        BY <2>1
      <3>2. g[i] < g[n] /\ g[n] \in 1..m
        BY <1>12, <1>14, <2>1, <3>1
      <3> QED
        BY <2>6, <3>2
    <2> QED
      BY <2>3, <2>7
  <1>20. \A i \in 1..n : At(r, c[i].piece) = f[t[i]] /\ f[t[i]] \in 1..p
    <2> SUFFICES ASSUME NEW i \in 1..n PROVE At(r, c[i].piece) = f[t[i]] /\ f[t[i]] \in 1..p
      OBVIOUS
    <2>1. PICK q \in 1..p : q = f[t[i]]
      BY <1>6, <1>14
    <2>2. c[i].piece = r[q].piece
      BY <1>6, <1>14, <1>15, <2>1
    <2>3. DOMAIN r = 1..p
      BY <1>1
    <2>4. \A k \in 1..p : r[k].piece = r[q].piece => k = q
      BY <1>1 DEF Single
    <2>5. At(r, r[q].piece) = q
      BY <2>3, <2>4 DEF At
    <2> QED
      BY <2>1, <2>2, <2>5
  <1>21. ASSUME NEW i \in 2..(n - 1)
         PROVE  ~(At(r, c[i].piece) < At(r, c[i - 1].piece) /\ At(r, c[i + 1].piece) > At(r, c[i].piece))
    <2>1. PICK h \in 1..n, k \in 1..n : h = i - 1 /\ k = i + 1 /\ i \in 1..n /\ h < i /\ i < k
      OBVIOUS
    <2>2. g[h] < g[i] /\ g[i] < g[k]
      BY <1>12, <2>1
    <2>3. ~(t[i] < t[h] /\ t[i] < t[k])
      <3>1. PICK x \in 1..m, y \in 1..m, z \in 1..m :
               /\ x = g[h] /\ y = g[i] /\ z = g[k]
               /\ t[h] = Turn(m, x) /\ t[i] = Turn(m, y) /\ t[k] = Turn(m, z)
        BY <1>14, <2>1
      <3>2. x < y /\ y < z
        BY <2>2, <3>1
      <3>3. ~(Turn(m, y) < Turn(m, x) /\ Turn(m, y) < Turn(m, z))
        BY <1>13, <3>2
      <3> QED
        BY <3>1, <3>3
    <2>4. \A a, b \in 1..m : f[a] < f[b] => a < b
      <3> SUFFICES ASSUME NEW a \in 1..m, NEW b \in 1..m, f[a] < f[b], ~(a < b) PROVE FALSE
        OBVIOUS
      <3>1. f[a] \in Int /\ f[b] \in Int
        BY <1>6
      <3>2. a = b \/ b < a
        OBVIOUS
      <3>3. a = b => f[a] = f[b]
        OBVIOUS
      <3>4. b < a => f[b] < f[a]
        BY <1>6
      <3> QED
        BY <3>1, <3>2, <3>3, <3>4
    <2>5. At(r, c[i].piece) = f[t[i]] /\ At(r, c[h].piece) = f[t[h]] /\ At(r, c[k].piece) = f[t[k]]
      BY <1>20, <2>1
    <2>6. t[i] \in 1..m /\ t[h] \in 1..m /\ t[k] \in 1..m
      BY <1>14, <2>1
    <2>7. ~(f[t[i]] < f[t[h]] /\ f[t[i]] < f[t[k]])
      BY <2>3, <2>4, <2>6
    <2>8. f[t[i]] \in Int /\ f[t[h]] \in Int /\ f[t[k]] \in Int
      BY <1>20, <2>1
    <2> QED
      BY <2>1, <2>5, <2>7, <2>8
  <1> QED
    BY <1>2, <1>8, <1>10, <1>16, <1>17, <1>19, <1>21

\* The stage that packs the context.
LEMMA PackStep ==
  ASSUME Pack, found \in Seq(Result), Single(found)
  PROVE  ContextShape'
  <1>1. found' = Fits(LostInMiddle(Distinct(found))) /\ ranked' = found
    BY DEF Pack
  <1>2. PICK r \in Seq(Result), c \in {found'} : r = found /\ Single(r) /\ c = Fits(LostInMiddle(Distinct(r)))
    BY <1>1
  <1>3. LET n == Len(c)
            place(i) == At(r, c[i].piece)
            second == Distinct(r)[2].piece IN
        /\ (r # <<>>) = (n > 0) /\ Spent(c) <= Budget
        /\ n > 0 => c[1].piece = r[1].piece
        /\ n > 2 /\ Has(c, second) => c[n].piece = second
        /\ \A i \in 2..(n - 1) : ~(place(i) < place(i - 1) /\ place(i + 1) > place(i))
    BY <1>2, PackedShape
  <1>4. ranked' = r /\ found' = c
    BY <1>1, <1>2
  <1> QED
    BY <1>3, <1>4 DEF ContextShape

-----------------------------------------------------------------------------
(* Ranking: the stages.                                                      *)

\* A stage finds its input well-formed: the routes are rankings; from the parents stage on every
\* piece is there once; and no policy has been applied before the injection stage.
RankInv ==
    /\ stage # "recall" => Routed
    /\ stage \in {"parents", "rerank", "inject", "pack"} => found \in Seq(Result)
    /\ stage \in {"rerank", "inject", "pack"} => Single(found)
    /\ stage \in {"recall", "fuse", "parents", "rerank", "inject"} => policy = "flag"
    /\ FusionRespectsAgreement /\ RiskyLosesRank /\ ContextShape

\* Recall gives rankings of at most all pieces.
LEMMA RecallStep ==
  ASSUME Recall, RankInv
  PROVE  RankInv'
  <1>1. PICK n \in RouteLimits : \E v \in Rankings(n[1]), e \in Rankings(n[2]), k \in Rankings(n[3]),
                                     t \in Rankings(n[4]), g \in Rankings(n[5]) :
                                  routes' = <<v, e, k, t, g>>
    BY DEF Recall
  <1>2. ASSUME NEW limit, NEW s \in Rankings(limit)
        PROVE  s \in Seq(Pieces) /\ Len(s) <= Cardinality(Pieces)
    <2>1. PICK S \in SUBSET Pieces : s \in SetToSeqs(S)
      BY DEF Rankings, SetToAllKPermutations
    <2>2. IsFiniteSet(Pieces)
      BY RankingConstants DEF RankingConstants
    <2>3. /\ Cardinality(S) \in Nat /\ Cardinality(Pieces) \in Nat
          /\ Cardinality(S) <= Cardinality(Pieces)
      BY <2>2, FS_Subset, FS_CardinalityType
    <2>4. PICK m \in Nat : m = Cardinality(S)
      BY <2>3
    <2>5. s \in [1..m -> S]
      BY <2>1, <2>4 DEF SetToSeqs
    <2>6. s \in Seq(Pieces) /\ Len(s) = m
      BY <2>5
    <2> QED
      BY <2>3, <2>4, <2>6
  <1>3. Routed'
    <2>1. PICK v \in Rankings(n[1]), e \in Rankings(n[2]), k \in Rankings(n[3]),
               t \in Rankings(n[4]), g \in Rankings(n[5]) : routes' = <<v, e, k, t, g>>
      BY <1>1
    <2>2. \A r \in {v, e, k, t, g} : r \in Seq(Pieces) /\ Len(r) <= Cardinality(Pieces)
      BY <1>2
    <2>3. \A r \in 1..5 : routes'[r] \in {v, e, k, t, g}
      BY <2>1
    <2> QED
      BY <2>2, <2>3 DEF Routed
  <1>4. stage = "recall" /\ stage' = "fuse" /\ policy' = policy
    BY DEF Recall
  <1> QED
    BY <1>3, <1>4 DEF RankInv, FusionRespectsAgreement, RiskyLosesRank, ContextShape

\* What the scores of the fused list agree with.
LEMMA FuseStep ==
  ASSUME Fuse, RankInv
  PROVE  RankInv'
  <1>1. Routed /\ stage = "fuse" /\ stage' = "parents" /\ policy' = policy /\ routes' = routes
    BY DEF Fuse, RankInv
  <1>2. PICK firsts : /\ firsts = FoldLeft(AddPiece, <<>>, AllRows)
                      /\ found' = ByScore([i \in DOMAIN firsts |->
                                    [piece |-> firsts[i], score |-> RrfScore(firsts[i]), cut |-> FALSE]])
    BY DEF Fuse
  <1>3. firsts \in Seq(Pieces)
    <2>1. PICK all \in Seq(Pieces) : all = AllRows
      <3>1. PICK r1 \in Seq(Pieces), r2 \in Seq(Pieces), r3 \in Seq(Pieces),
                 r4 \in Seq(Pieces), r5 \in Seq(Pieces) :
               /\ r1 = routes[1] /\ r2 = routes[2] /\ r3 = routes[3]
               /\ r4 = routes[4] /\ r5 = routes[5]
        BY <1>1 DEF Routed
      <3>2. r1 \o r2 \o r3 \o r4 \o r5 \in Seq(Pieces)
        OBVIOUS
      <3> QED
        BY <3>1, <3>2 DEF AllRows
    <2>2. PICK h : FoldLeft(AddPiece, <<>>, all) = h[Len(all)] /\ h \in [0..Len(all) -> Seq(Pieces)]
      BY PieceFold
    <2>3. Len(all) \in 0..Len(all)
      OBVIOUS
    <2> QED
      BY <1>2, <2>1, <2>2, <2>3
  <1> DEFINE L == [i \in DOMAIN firsts |->
                     [piece |-> firsts[i], score |-> RrfScore(firsts[i]), cut |-> FALSE]]
  <1>4. L \in Seq(Result) /\ Len(L) = Len(firsts)
    <2>1. \A c : RrfScore(c) \in Int
      <3> SUFFICES ASSUME NEW c PROVE RrfScore(c) \in Int
        OBVIOUS
      <3>1. \A r \in {1, 2, 3, 4, 5} : Share(r, c) \in Nat
        <4>1. \A r \in 1..5 : Share(r, c) \in Nat
          BY <1>1, ShareFollowsRank
        <4> QED
          BY <4>1
      <3> QED
        BY <1>1, <3>1, ScoreAddsShares
    <2>2. \A i \in 1..Len(firsts) :
             [piece |-> firsts[i], score |-> RrfScore(firsts[i]), cut |-> FALSE] \in Result
      BY <1>3, <2>1 DEF Result
    <2> QED
      BY <1>3, <2>2
  <1>5. \A i \in 1..Len(L) : L[i].score = RrfScore(L[i].piece)
    BY <1>3, <1>4
  <1>6. found' = ByScore(L)
    BY <1>2
  <1> HIDE DEF L
  <1>7. /\ found' \in Seq(Result) /\ Len(found') = Len(L)
        /\ \A k \in 1..Len(L) : \E i \in 1..Len(L) : found'[k] = L[i]
        /\ \A k, l \in 1..Len(L) : found'[k].score > found'[l].score => k < l
    BY <1>4, <1>6, SortedList
  <1>8. \A k \in 1..Len(L) : found'[k].score = RrfScore(found'[k].piece)
    BY <1>5, <1>7
  <1>9. FusionRespectsAgreement'
    <2> SUFFICES ASSUME NEW i \in DOMAIN found', NEW j \in DOMAIN found',
                        \A r \in 1..5 : Rank(routes[r], found'[i].piece) <= Rank(routes[r], found'[j].piece),
                        \E r \in 1..5 : Rank(routes[r], found'[i].piece) < Rank(routes[r], found'[j].piece)
                 PROVE  i < j
      BY <1>1 DEF FusionRespectsAgreement
    <2>1. PICK a, b : a = found'[i].piece /\ b = found'[j].piece
      OBVIOUS
    <2>2. RrfScore(a) > RrfScore(b)
      BY <1>1, <2>1, AgreementScores
    <2>3. i \in 1..Len(L) /\ j \in 1..Len(L)
      <3>1. PICK w \in Seq(Result) : w = found' /\ Len(w) = Len(L)
        BY <1>7
      <3> QED
        BY <3>1
    <2> QED
      BY <1>7, <1>8, <2>1, <2>2, <2>3
  <1>10. Routed'
    BY <1>1 DEF Routed
  <1> QED
    BY <1>1, <1>7, <1>9, <1>10 DEF RankInv, RiskyLosesRank, ContextShape

\* One result per section.
LEMMA ParentsStep ==
  ASSUME OnePerParent, RankInv
  PROVE  RankInv'
  <1>1. /\ Routed /\ stage = "parents" /\ stage' = "rerank" /\ policy' = policy /\ routes' = routes
        /\ found \in Seq(Result) /\ found' = FoldLeft(AddParent, <<>>, found)
    BY DEF OnePerParent, RankInv
  <1>2. found' \in Seq(Result) /\ Single(found')
    BY <1>1, ParentsAreSingle
  <1>3. Routed'
    BY <1>1 DEF Routed
  <1>4. Single(found)'
    BY <1>2 DEF Single
  <1> QED
    BY <1>1, <1>2, <1>3, <1>4 DEF RankInv, FusionRespectsAgreement, RiskyLosesRank, ContextShape

\* The reranker changes scores and order, and cuts the list.
LEMMA RerankStep ==
  ASSUME RuleRerank, RankInv
  PROVE  RankInv'
  <1> DEFINE L == [i \in DOMAIN found |-> [found[i] EXCEPT !.score = @ + Bonus(found, i)]]
  <1>1. /\ Routed /\ stage = "rerank" /\ stage' = "inject" /\ policy' = policy /\ routes' = routes
        /\ found \in Seq(Result) /\ Single(found)
    BY DEF RuleRerank, RankInv
  <1>2. found' = SubSeq(ByScore(L), 1, IF Len(ByScore(L)) < TopK THEN Len(ByScore(L)) ELSE TopK)
    BY DEF RuleRerank
  <1>3. \A i \in 1..Len(found) : Bonus(found, i) \in Int
    <2> SUFFICES ASSUME NEW i \in 1..Len(found) PROVE Bonus(found, i) \in Int
      OBVIOUS
    <2>1. found[i].piece \in Pieces
      <3>1. found[i] \in Result
        BY <1>1
      <3> QED
        BY <3>1 DEF Result
    <2>2. Matches[found[i].piece] \in Nat /\ Unit \div 100 \in Int
      BY <2>1, RankingConstants DEF RankingConstants
    <2> QED
      BY <2>2 DEF Bonus
  <1>4. L \in Seq(Result) /\ Len(L) = Len(found) /\ \A i \in 1..Len(found) : L[i].piece = found[i].piece
    <2>1. \A x \in Result, z \in Int : [x EXCEPT !.score = @ + z] \in Result
                                       /\ [x EXCEPT !.score = @ + z].piece = x.piece
      BY DEF Result
    <2>2. \A i \in 1..Len(found) : found[i] \in Result
      BY <1>1
    <2>3. PICK n \in Nat : n = Len(found) /\ DOMAIN found = 1..n
      BY <1>1
    <2>4. \A i \in 1..n : [found[i] EXCEPT !.score = @ + Bonus(found, i)] \in Result
      BY <1>3, <2>1, <2>2, <2>3
    <2>5. L \in [1..n -> Result]
      BY <2>3, <2>4
    <2>6. \A i \in 1..n : L[i].piece = found[i].piece
      BY <1>3, <2>1, <2>2, <2>3
    <2> HIDE DEF L
    <2> QED
      BY <2>3, <2>5, <2>6
  <1> HIDE DEF L
  <1>5. Single(L)
    BY <1>1, <1>4 DEF Single
  <1>6. PICK w \in Seq(Result) : w = ByScore(L) /\ Single(w)
    BY <1>4, <1>5, SortedList
  <1>7. found' = SubSeq(w, 1, IF Len(w) < TopK THEN Len(w) ELSE TopK)
    BY <1>2, <1>6
  <1>8. PICK m \in Nat : m <= Len(w) /\ found' = SubSeq(w, 1, m)
    <2>1. PICK n \in Nat : n = Len(w)
      OBVIOUS
    <2>2. TopK \in Nat
      BY RankingConstants DEF RankingConstants
    <2>3. CASE n < TopK
      BY <1>7, <2>1, <2>3
    <2>4. CASE ~(n < TopK)
      BY <1>7, <2>1, <2>2, <2>4
    <2> QED
      BY <2>3, <2>4
  <1>9. found' \in Seq(Result) /\ Len(found') = m /\ \A i \in 1..m : found'[i] = w[i]
    BY <1>8
  <1>10. Single(found)'
    <2>1. \A i \in 1..m : i \in 1..Len(w)
      BY <1>8
    <2> QED
      BY <1>6, <1>9, <2>1 DEF Single
  <1>11. Routed'
    BY <1>1 DEF Routed
  <1> QED
    BY <1>1, <1>9, <1>10, <1>11 DEF RankInv, FusionRespectsAgreement, RiskyLosesRank, ContextShape

\* Downweighting changes scores only.
LEMMA DownweightedList ==
  ASSUME NEW s \in Seq(Result), NEW S
  PROVE  /\ Downweighted(s, S) \in Seq(Result) /\ Len(Downweighted(s, S)) = Len(s)
         /\ \A k \in 1..Len(s) :
               LET x == Downweighted(s, S)[k] IN
               /\ x.piece = s[k].piece /\ x.score \in Int /\ s[k].score \in Int
               /\ s[k].piece \notin S => x.score = s[k].score
               /\ s[k].piece \in S => x.score = (s[k].score * 3) \div 10
  <1>1. PICK L : L = Downweighted(s, S)
    OBVIOUS
  <1>2. PICK n \in Nat : n = Len(s) /\ DOMAIN s = 1..n
    OBVIOUS
  <1>3. /\ L \in Seq(Result) /\ Len(L) = n
        /\ \A k \in 1..n : /\ L[k].piece = s[k].piece /\ L[k].score \in Int /\ s[k].score \in Int
                           /\ s[k].piece \notin S => L[k].score = s[k].score
                           /\ s[k].piece \in S => L[k].score = (s[k].score * 3) \div 10
    <2> DEFINE z(k) == IF s[k].piece \in S THEN (s[k].score * 3) \div 10 ELSE s[k].score
    <2>1. \A x \in Result : x.score \in Int
      BY DEF Result
    <2>2. \A x \in Result, v \in Int :
             /\ [x EXCEPT !.score = v] \in Result /\ [x EXCEPT !.score = v].piece = x.piece
             /\ [x EXCEPT !.score = v].score = v
      BY DEF Result
    <2>3. \A k \in 1..n : s[k] \in Result /\ s[k].score \in Int
      BY <1>2, <2>1
    <2>4. \A k \in 1..n : z(k) \in Int
      BY <2>3
    <2>5. L = [k \in 1..n |-> [s[k] EXCEPT !.score = z(k)]]
      BY <1>1, <1>2 DEF Downweighted
    <2>6. \A k \in 1..n : /\ s[k].piece \notin S => z(k) = s[k].score
                          /\ s[k].piece \in S => z(k) = (s[k].score * 3) \div 10
      OBVIOUS
    <2> HIDE DEF z
    <2>7. L \in [1..n -> Result]
      BY <2>2, <2>3, <2>4, <2>5
    <2>8. \A k \in 1..n : L[k] = [s[k] EXCEPT !.score = z(k)]
      BY <2>5
    <2>9. \A k \in 1..n : L[k].piece = s[k].piece /\ L[k].score = z(k)
      <3> SUFFICES ASSUME NEW k \in 1..n PROVE L[k].piece = s[k].piece /\ L[k].score = z(k)
        OBVIOUS
      <3>1. PICK x \in Result, v \in Int : x = s[k] /\ v = z(k)
        BY <2>3, <2>4
      <3>2. L[k] = [x EXCEPT !.score = v]
        BY <2>8, <3>1
      <3> QED
        BY <2>2, <3>1, <3>2
    <2>10. L \in Seq(Result) /\ Len(L) = n
      BY <2>7
    <2> QED
      BY <2>3, <2>4, <2>6, <2>9, <2>10
  <1> QED
    BY <1>1, <1>2, <1>3

\* A downweighted list, sorted again.
LEMMA DownweightSinks ==
  ASSUME NEW s \in Seq(Result), Single(s), NEW S,
         NEW i \in 1..Len(s), NEW j \in 1..Len(s),
         s[i].piece \notin S, s[j].piece \in S, 10 * s[i].score > 3 * s[j].score
  PROVE  At(ByScore(Downweighted(s, S)), s[i].piece) < At(ByScore(Downweighted(s, S)), s[j].piece)
  <1>1. PICK L : L = Downweighted(s, S)
    OBVIOUS
  <1>2. PICK n \in Nat : n = Len(s) /\ DOMAIN s = 1..n
    OBVIOUS
  <1>3. /\ L \in Seq(Result) /\ Len(L) = n
        /\ \A k \in 1..n : /\ L[k].piece = s[k].piece /\ L[k].score \in Int /\ s[k].score \in Int
                           /\ s[k].piece \notin S => L[k].score = s[k].score
                           /\ s[k].piece \in S => L[k].score = (s[k].score * 3) \div 10
    BY <1>1, <1>2, DownweightedList
  <1>4. Single(L)
    BY <1>2, <1>3 DEF Single
  <1>5. PICK w \in Seq(Result) : w = ByScore(L)
    BY <1>3, SortedList
  <1>6. /\ Len(w) = n /\ Single(w)
        /\ \A k, l \in 1..n : w[k].score > w[l].score => k < l
        /\ \E k \in 1..n : w[k] = L[i]
        /\ \E k \in 1..n : w[k] = L[j]
    <2>1. /\ Len(w) = Len(L) /\ Single(w)
          /\ \A k, l \in 1..Len(L) : w[k].score > w[l].score => k < l
          /\ \A m \in 1..Len(L) : \E k \in 1..Len(L) : w[k] = L[m]
      BY <1>3, <1>4, <1>5, SortedList
    <2>2. Len(L) = n /\ i \in 1..n /\ j \in 1..n
      BY <1>2, <1>3
    <2> QED
      BY <2>1, <2>2
  <1>7. \A k \in 1..n : At(w, w[k].piece) = k
    <2> SUFFICES ASSUME NEW k \in 1..n PROVE At(w, w[k].piece) = k
      OBVIOUS
    <2>1. DOMAIN w = 1..n
      BY <1>6
    <2>2. \A l \in 1..n : w[l].piece = w[k].piece => l = k
      BY <1>6 DEF Single
    <2> QED
      BY <2>1, <2>2 DEF At
  <1>8. PICK k \in 1..n, l \in 1..n : w[k] = L[i] /\ w[l] = L[j]
    BY <1>6
  <1>9. w[k].score > w[l].score
    <2>1. L[i].score = s[i].score /\ L[j].score = (s[j].score * 3) \div 10
      BY <1>2, <1>3
    <2>2. PICK x \in Int, y \in Int : x = s[i].score /\ y = s[j].score /\ 10 * x > 3 * y
      BY <1>2, <1>3
    <2>3. x > (y * 3) \div 10
      BY <2>2, SMTT(30)
    <2> QED
      BY <1>8, <2>1, <2>2, <2>3
  <1>10. k < l
    BY <1>6, <1>9
  <1>11. w[k].piece = s[i].piece /\ w[l].piece = s[j].piece
    BY <1>2, <1>3, <1>8
  <1>12. At(w, s[i].piece) = k /\ At(w, s[j].piece) = l
    BY <1>7, <1>11
  <1> QED
    BY <1>1, <1>5, <1>10, <1>12

\* The policy of the injection stage.
LEMMA InjectStep ==
  ASSUME Inject, RankInv
  PROVE  RankInv'
  <1>1. /\ Routed /\ stage = "inject" /\ stage' = "pack" /\ routes' = routes
        /\ found \in Seq(Result) /\ Single(found) /\ ranked' = found
    BY DEF Inject, RankInv
  <1>2. policy' = "downweight" => found' = ByScore(Downweighted(found, risky'))
    BY DEF Inject, ApplyPolicy
  <1>3. RiskyLosesRank'
    <2> SUFFICES ASSUME policy' = "downweight", NEW i \in 1..Len(found), NEW j \in 1..Len(found),
                        found[i].piece \notin risky', found[j].piece \in risky',
                        10 * found[i].score > 3 * found[j].score
                 PROVE  At(found', found[i].piece) < At(found', found[j].piece)
      BY <1>1 DEF RiskyLosesRank
    <2>1. PICK s \in Seq(Result), S \in {risky'} : s = found
      BY <1>1
    <2>2. At(ByScore(Downweighted(s, S)), s[i].piece) < At(ByScore(Downweighted(s, S)), s[j].piece)
      BY <1>1, <2>1, DownweightSinks
    <2> QED
      BY <1>2, <2>1, <2>2
  <1>4. Routed'
    BY <1>1 DEF Routed
  <1>5. found' \in Seq(Result) /\ Single(found)'
    <2>1. PICK i \in DOMAIN found, q \in {"flag", "downweight", "remove"} :
             found' = ApplyPolicy(q, found, {found[i].piece})
      BY DEF Inject
    <2>2. PICK s \in Seq(Result), S \in {{found[i].piece}} : s = found /\ Single(s) /\ found' = ApplyPolicy(q, s, S)
      BY <1>1, <2>1
    <2>3. CASE q = "flag"
      <3>1. found' = s
        BY <2>2, <2>3 DEF ApplyPolicy
      <3> QED
        BY <2>2, <3>1 DEF Single
    <2>4. CASE q = "downweight"
      <3>1. found' = ByScore(Downweighted(s, S))
        BY <2>2, <2>4 DEF ApplyPolicy
      <3>2. PICK w \in Seq(Result) : w = Downweighted(s, S) /\ Len(w) = Len(s)
                                     /\ \A k \in 1..Len(s) : w[k].piece = s[k].piece
        BY DownweightedList
      <3>3. Single(w)
        BY <2>2, <3>2 DEF Single
      <3>4. PICK v \in Seq(Result) : v = ByScore(w) /\ Single(v)
        BY <3>3, SortedList
      <3>5. found' = v
        BY <3>1, <3>2, <3>4
      <3> QED
        BY <3>4, <3>5 DEF Single
    <2>5. CASE q = "remove"
      <3>1. found' = Harmless(s, S)
        BY <2>2, <2>5 DEF ApplyPolicy
      <3>2. PICK v : v = Harmless(s, S) /\ Part(v, s, Len(s))
        BY HarmlessPart
      <3>3. Len(s) \in Nat /\ \A k, l \in 1..Len(s) : k # l => s[k].piece # s[l].piece
        BY <2>2 DEF Single
      <3>4. v \in Seq(Result) /\ Single(v)
        <4>1. v \in Seq(Result)
          BY <3>2 DEF Part
        <4> QED
          BY <3>2, <3>3, <4>1, PartIsSingle
      <3>5. found' = v
        BY <3>1, <3>2
      <3> QED
        BY <3>4, <3>5 DEF Single
    <2> QED
      BY <2>1, <2>3, <2>4, <2>5
  <1> QED
    BY <1>1, <1>3, <1>4, <1>5 DEF RankInv, FusionRespectsAgreement, ContextShape

\* Every stage hands the next one what it needs.
LEMMA RankInvariant == RankSpec => []RankInv
  <1>1. RankInit => RankInv
    BY DEF RankInit, RankInv, FusionRespectsAgreement, RiskyLosesRank, ContextShape
  <1>2. RankInv /\ [RankNext]_rankVars => RankInv'
    <2> SUFFICES ASSUME RankInv, [RankNext]_rankVars PROVE RankInv'
      OBVIOUS
    <2>1. CASE Recall
      BY <2>1, RecallStep
    <2>2. CASE Fuse
      BY <2>2, FuseStep
    <2>3. CASE OnePerParent
      BY <2>3, ParentsStep
    <2>4. CASE RuleRerank
      BY <2>4, RerankStep
    <2>5. CASE Inject
      BY <2>5, InjectStep
    <2>6. CASE InjectNothing
      BY <2>6 DEF InjectNothing, RankInv, Routed, FusionRespectsAgreement, RiskyLosesRank, ContextShape
    <2>7. CASE Pack
      <3>1. stage = "pack" /\ stage' = "assess" /\ Routed /\ routes' = routes /\ found \in Seq(Result) /\ Single(found)
        BY <2>7 DEF Pack, RankInv
      <3>2. ContextShape'
        BY <2>7, <3>1, PackStep
      <3>3. Routed'
        BY <3>1 DEF Routed
      <3> QED
        BY <3>1, <3>2, <3>3 DEF RankInv, FusionRespectsAgreement, RiskyLosesRank
    <2>8. CASE Assess
      <3>1. /\ stage = "assess" /\ stage' = "done" /\ routes' = routes /\ found' = found /\ ranked' = ranked
            /\ Routed /\ ContextShape
        BY <2>8 DEF Assess, RankInv
      <3>2. ContextShape' /\ Routed'
        BY <3>1 DEF ContextShape, Routed
      <3> QED
        BY <3>1, <3>2 DEF RankInv, FusionRespectsAgreement, RiskyLosesRank
    <2>9. CASE UNCHANGED rankVars
      <3>1. RankInv' = RankInv
        BY <2>9 DEF rankVars, RankInv, Routed, FusionRespectsAgreement, RiskyLosesRank, ContextShape, Single
      <3> QED
        BY <3>1
    <2> QED
      BY <2>1, <2>2, <2>3, <2>4, <2>5, <2>6, <2>7, <2>9, <2>8 DEF RankNext
  <1> QED
    BY <1>1, <1>2, PTL DEF RankSpec

\* For any routes over any number of chunks, and any k, a chunk that no route puts lower than
\* another and some route puts higher stands before it in the fused ranking (rrf_fuse, retrieve).
THEOREM FusionAgrees == RankSpec => []FusionRespectsAgreement
  <1>1. RankInv => FusionRespectsAgreement
    BY DEF RankInv
  <1> QED
    BY <1>1, RankInvariant, PTL

\* For any scores, negative ones among them, a chunk in the high class ends below every harmless
\* chunk worth more than three tenths of it (apply_injection_policy).
THEOREM RiskyRankIsLost == RankSpec => []RiskyLosesRank
  <1>1. RankInv => RiskyLosesRank
    BY DEF RankInv
  <1> QED
    BY <1>1, RankInvariant, PTL

\* For any result list and any budget: the context of a nonempty list is not empty, fits the budget,
\* starts with the best chunk and, from three on, ends with the second best when that fits; and
\* between the two the ranks only rise and then fall (prepare_context, _lost_in_middle_order).
THEOREM ContextHasShape == RankSpec => []ContextShape
  <1>1. RankInv => ContextShape
    BY DEF RankInv
  <1> QED
    BY <1>1, RankInvariant, PTL

\* Every stage of a search hands on a list of results.
THEOREM RankTypeCorrect == RankSpec => []RankTypeOK
  <1>1. RankInit => RankTypeOK
    <2>1. <<>> \in Seq(Seq(Pieces)) /\ <<>> \in Seq(Result)
      OBVIOUS
    <2> QED
      BY <2>1 DEF RankInit, RankTypeOK
  <1>2. RankInv /\ RankInv' /\ RankTypeOK /\ [RankNext]_rankVars => RankTypeOK'
    <2> SUFFICES ASSUME RankInv, RankInv', RankTypeOK, [RankNext]_rankVars PROVE RankTypeOK'
      OBVIOUS
    <2>f. stage' \in {"parents", "rerank", "inject", "pack"} => found' \in Seq(Result)
      BY DEF RankInv
    <2> USE DEF RankTypeOK
    <2>1. CASE Recall
      <3>1. PICK v, e, k, w, g : routes' = <<v, e, k, w, g>>
        BY <2>1 DEF Recall
      <3>2. stage' = "fuse" /\ Routed'
        BY <2>1 DEF Recall, RankInv
      <3>3. \A r \in {1, 2, 3, 4, 5} : routes'[r] \in Seq(Pieces)
        BY <3>2 DEF Routed
      <3>4. /\ v \in Seq(Pieces) /\ e \in Seq(Pieces) /\ k \in Seq(Pieces)
            /\ w \in Seq(Pieces) /\ g \in Seq(Pieces)
        BY <3>1, <3>3
      <3>5. routes' \in Seq(Seq(Pieces))
        BY <3>1, <3>4
      <3> QED
        BY <2>1, <3>5 DEF Recall
    <2>2. CASE Fuse \/ OnePerParent \/ RuleRerank
      BY <2>2, <2>f DEF Fuse, OnePerParent, RuleRerank
    <2>3. CASE Inject
      <3>1. PICK i \in DOMAIN found : risky' = {found[i].piece}
        BY <2>3 DEF Inject
      <3>2. found[i] \in Result
        BY <3>1
      <3>3. risky' \subseteq Pieces
        BY <3>1, <3>2 DEF Result
      <3> QED
        BY <2>3, <2>f, <3>3 DEF Inject
    <2>4. CASE InjectNothing
      BY <2>4, <2>f DEF InjectNothing
    <2>5. CASE Pack
      <3>1. PICK d \in Seq(Result) : d = Distinct(found)
        BY DistinctPart DEF Part
      <3>2. PICK l \in Seq(Result) : l = LostInMiddle(d)
        BY MiddleTurns
      <3>3. Fits(l) \in Seq(Result)
        BY FitsPart DEF Part
      <3> QED
        BY <2>5, <3>1, <3>2, <3>3 DEF Pack
    <2>6. CASE Assess \/ UNCHANGED rankVars
      BY <2>6 DEF Assess, rankVars
    <2> QED
      BY <2>1, <2>2, <2>3, <2>4, <2>5, <2>6 DEF RankNext
  <1> QED
    BY <1>1, <1>2, RankInvariant, PTL DEF RankSpec

-----------------------------------------------------------------------------
(* Memories.                                                                 *)

\* The running length of a list of memories.
LEMMA CharsFold ==
  ASSUME NEW s \in Seq(Notes)
  PROVE  \E h : /\ h[0] = 0 /\ FoldLeft(AddChars, 0, s) = h[Len(s)]
                /\ h \in [0..Len(s) -> Nat]
                /\ \A k \in 1..Len(s) : h[k] = AddChars(h[k - 1], s[k])
  <1> DEFINE n == Len(s)
             T == Nat
             g == [p \in T \X (1..n) |-> AddChars(p[1], s[p[2]])]
             Equation(f) == f = [r \in SUBSET (1..n) |->
                              IF r = {} THEN 0 ELSE AddChars(f[r \ {Max(r)}], s[Max(r)])]
  <1>0. n \in Nat /\ DOMAIN s = 1..n
    OBVIOUS
  <1>1. g \in [T \X (1..n) -> T]
    <2>1. \A a \in T, i \in 1..n : AddChars(a, s[i]) \in T
      BY MemoryConstants DEF AddChars, MemoryConstants
    <2> QED
      BY <2>1
  <1>2. PICK f \in [SUBSET (1..n) -> T] : IsFold(f, g, 0, n)
    <2>1. 0 \in T
      OBVIOUS
    <2> HIDE DEF g, n, T
    <2> QED
      BY <1>0, <1>1, <2>1, FoldExists
  <1>3. Equation(f)
    <2>1. ASSUME NEW r \in SUBSET (1..n)
          PROVE  f[r] = IF r = {} THEN 0 ELSE AddChars(f[r \ {Max(r)}], s[Max(r)])
      <3>1. CASE r = {}
        BY <1>2, <3>1 DEF IsFold
      <3>2. CASE r # {}
        <4>1. Max(r) \in r /\ Max(r) \in 1..n
          BY <1>0, <3>2, NatMax
        <4>2. f[r] = g[<<f[r \ {Max(r)}], Max(r)>>]
          BY <1>2, <3>2 DEF IsFold
        <4>3. f[r \ {Max(r)}] \in T
          BY <1>2
        <4> HIDE DEF T, n
        <4> QED
          BY <3>2, <4>1, <4>2, <4>3
      <3> QED
        BY <3>1, <3>2
    <2> QED
      BY <2>1
  <1>4. PICK e : Equation(e) /\ FoldLeft(AddChars, 0, s) = e[1..n]
    BY <1>0, <1>3 DEF FoldLeft, MapThenFoldSet
  <1>5. Folds(e, T, g, 0, n)
    <2>1. \A r \in SUBSET (1..n) :
             e[r] = IF r = {} THEN 0 ELSE AddChars(e[r \ {Max(r)}], s[Max(r)])
      BY <1>4
    <2>2. ASSUME NEW r \in SUBSET (1..n), r # {}, e[r \ {Max(r)}] \in T
          PROVE  e[r] = g[<<e[r \ {Max(r)}], Max(r)>>]
      <3>1. Max(r) \in 1..n
        BY <1>0, <2>2, NatMax
      <3>2. e[r] = AddChars(e[r \ {Max(r)}], s[Max(r)])
        BY <2>1, <2>2
      <3> HIDE DEF T, n
      <3> QED
        BY <2>2, <3>1, <3>2
    <2>3. e[{}] = 0
      BY <2>1
    <2> HIDE DEF g, T, n
    <2> QED
      BY <2>2, <2>3 DEF Folds
  <1>6. PICK h : IsChain(h, e, T, g, 0, n)
    <2>1. 0 \in T
      OBVIOUS
    <2> HIDE DEF g, T, n
    <2> QED
      BY <1>0, <1>1, <1>5, <2>1, FoldChain
  <1>7. ASSUME NEW k \in 1..n PROVE h[k] = AddChars(h[k - 1], s[k])
    <2>1. h[k - 1] \in T
      BY <1>0, <1>6 DEF IsChain
    <2> HIDE DEF T, n
    <2> QED
      BY <1>6, <2>1 DEF IsChain
  <1>8. h[0] = 0 /\ h[n] = e[1..n] /\ h \in [0..n -> T]
    BY <1>6 DEF IsChain
  <1> QED
    BY <1>4, <1>7, <1>8

\* A candidate as the ranking sees it.
Candidate == [note : Notes, score : Int, rank : Nat]

\* Taking a candidate leaves a list of texts.
LEMMA CandidateTaken ==
  \A u \in Seq(Notes), c \in Candidate : TakeCandidate(u, c) \in Seq(Notes)
  <1>1. \A c \in Candidate : c.note \in Notes
    BY DEF Candidate
  <1> QED
    BY <1>1 DEF TakeCandidate, TakeMemory

\* The memories are taken one candidate after the other.
LEMMA MemoryFold ==
  ASSUME NEW s \in Seq(Candidate)
  PROVE  \E h : /\ h[0] = <<>> /\ FoldLeft(TakeCandidate, <<>>, s) = h[Len(s)]
                /\ h \in [0..Len(s) -> Seq(Notes)]
                /\ \A k \in 1..Len(s) : h[k] = TakeCandidate(h[k - 1], s[k])
  <1> DEFINE n == Len(s)
             T == Seq(Notes)
             g == [p \in T \X (1..n) |-> TakeCandidate(p[1], s[p[2]])]
             Equation(f) == f = [r \in SUBSET (1..n) |->
                              IF r = {} THEN <<>> ELSE TakeCandidate(f[r \ {Max(r)}], s[Max(r)])]
  <1>0. n \in Nat /\ DOMAIN s = 1..n
    OBVIOUS
  <1>1. g \in [T \X (1..n) -> T]
    <2>1. \A a \in T, i \in 1..n : TakeCandidate(a, s[i]) \in T
      BY CandidateTaken
    <2> QED
      BY <2>1
  <1>2. PICK f \in [SUBSET (1..n) -> T] : IsFold(f, g, <<>>, n)
    <2>1. <<>> \in T
      OBVIOUS
    <2> HIDE DEF g, n, T
    <2> QED
      BY <1>0, <1>1, <2>1, FoldExists
  <1>3. Equation(f)
    <2>1. ASSUME NEW r \in SUBSET (1..n)
          PROVE  f[r] = IF r = {} THEN <<>> ELSE TakeCandidate(f[r \ {Max(r)}], s[Max(r)])
      <3>1. CASE r = {}
        BY <1>2, <3>1 DEF IsFold
      <3>2. CASE r # {}
        <4>1. Max(r) \in r /\ Max(r) \in 1..n
          BY <1>0, <3>2, NatMax
        <4>2. f[r] = g[<<f[r \ {Max(r)}], Max(r)>>]
          BY <1>2, <3>2 DEF IsFold
        <4>3. f[r \ {Max(r)}] \in T
          BY <1>2
        <4> HIDE DEF T, n
        <4> QED
          BY <3>2, <4>1, <4>2, <4>3
      <3> QED
        BY <3>1, <3>2
    <2> QED
      BY <2>1
  <1>4. PICK e : Equation(e) /\ FoldLeft(TakeCandidate, <<>>, s) = e[1..n]
    BY <1>0, <1>3 DEF FoldLeft, MapThenFoldSet
  <1>5. Folds(e, T, g, <<>>, n)
    <2>1. \A r \in SUBSET (1..n) :
             e[r] = IF r = {} THEN <<>> ELSE TakeCandidate(e[r \ {Max(r)}], s[Max(r)])
      BY <1>4
    <2>2. ASSUME NEW r \in SUBSET (1..n), r # {}, e[r \ {Max(r)}] \in T
          PROVE  e[r] = g[<<e[r \ {Max(r)}], Max(r)>>]
      <3>1. Max(r) \in 1..n
        BY <1>0, <2>2, NatMax
      <3>2. e[r] = TakeCandidate(e[r \ {Max(r)}], s[Max(r)])
        BY <2>1, <2>2
      <3> HIDE DEF T, n
      <3> QED
        BY <2>2, <3>1, <3>2
    <2>3. e[{}] = <<>>
      BY <2>1
    <2> HIDE DEF g, T, n
    <2> QED
      BY <2>2, <2>3 DEF Folds
  <1>6. PICK h : IsChain(h, e, T, g, <<>>, n)
    <2>1. <<>> \in T
      OBVIOUS
    <2> HIDE DEF g, T, n
    <2> QED
      BY <1>0, <1>1, <1>5, <2>1, FoldChain
  <1>7. ASSUME NEW k \in 1..n PROVE h[k] = TakeCandidate(h[k - 1], s[k])
    <2>1. h[k - 1] \in T
      BY <1>0, <1>6 DEF IsChain
    <2> HIDE DEF T, n
    <2> QED
      BY <1>6, <2>1 DEF IsChain
  <1>8. h[0] = <<>> /\ h[n] = e[1..n] /\ h \in [0..n -> T]
    BY <1>6 DEF IsChain
  <1> QED
    BY <1>4, <1>7, <1>8

\* The length of a list and of the list with one more.
LEMMA CharsGrow ==
  ASSUME NEW s \in Seq(Notes), NEW x \in Notes
  PROVE  /\ Chars(s) \in Nat /\ Chars(<<>>) = 0
         /\ Chars(Append(s, x)) = Chars(s) + NoteLength[x] + 3
  <1> DEFINE n == Len(s)
             t == Append(s, x)
  <1>1. PICK h : /\ h[0] = 0 /\ Chars(s) = h[n] /\ h \in [0..n -> Nat]
                 /\ \A k \in 1..n : h[k] = AddChars(h[k - 1], s[k])
    BY CharsFold DEF Chars
  <1>2. n \in Nat /\ t \in Seq(Notes) /\ Len(t) = n + 1 /\ t[n + 1] = x /\ \A k \in 1..n : t[k] = s[k]
    OBVIOUS
  <1> HIDE DEF t
  <1>3. PICK g : /\ g[0] = 0 /\ Chars(t) = g[n + 1] /\ g \in [0..n + 1 -> Nat]
                 /\ \A k \in 1..n + 1 : g[k] = AddChars(g[k - 1], t[k])
    <2>1. PICK g : /\ g[0] = 0 /\ Chars(t) = g[Len(t)] /\ g \in [0..Len(t) -> Nat]
                   /\ \A k \in 1..Len(t) : g[k] = AddChars(g[k - 1], t[k])
      BY <1>2, CharsFold DEF Chars
    <2> QED
      BY <1>2, <2>1
  <1>4. PICK z : /\ z[0] = 0 /\ Chars(<<>>) = z[0]
    <2>1. <<>> \in Seq(Notes) /\ Len(<<>>) = 0
      OBVIOUS
    <2>2. PICK z : z[0] = 0 /\ Chars(<<>>) = z[Len(<<>>)]
      BY <2>1, CharsFold DEF Chars
    <2> QED
      BY <2>1, <2>2
  <1> DEFINE G == {k \in 0..n : g[k] = h[k]}
  <1>5. 0 \in G
    BY <1>1, <1>2, <1>3
  <1>6. ASSUME NEW k \in 1..n, k - 1 \in G PROVE k \in G
    <2>1. g[k - 1] = h[k - 1] /\ k \in 1..n + 1 /\ t[k] = s[k]
      BY <1>2, <1>6
    <2>2. g[k] = AddChars(g[k - 1], t[k]) /\ h[k] = AddChars(h[k - 1], s[k])
      BY <1>1, <1>3, <2>1
    <2>3. g[k] = h[k]
      BY <2>1, <2>2
    <2> QED
      BY <2>3
  <1>7. n \in G
    <2>1. \A k \in 0..n : k \in G
      <3> HIDE DEF G, n
      <3> QED
        BY <1>2, <1>5, <1>6, UpTo
    <2> QED
      BY <1>2, <2>1
  <1>8. g[n + 1] = AddChars(g[n], x)
    <2>1. n + 1 \in 1..n + 1 /\ (n + 1) - 1 = n
      BY <1>2
    <2>2. g[n + 1] = AddChars(g[(n + 1) - 1], t[n + 1])
      BY <1>3, <2>1
    <2> QED
      BY <1>2, <2>1, <2>2
  <1>9. Chars(t) = Chars(s) + NoteLength[x] + 3
    BY <1>1, <1>3, <1>7, <1>8 DEF AddChars
  <1>10. Chars(s) \in Nat
    BY <1>1, <1>2
  <1> QED
    BY <1>4, <1>9, <1>10 DEF t

\* Candidates are finite in number, and no two have the same text or the same rank.
LEMMA CandidatesDiffer ==
  ASSUME inbox \in Seq(StoredNote)
  PROVE  /\ IsFiniteSet(Candidates) /\ Candidates \subseteq Candidate
         /\ \A c, d \in Candidates : c # d => c.note # d.note /\ c.rank # d.rank
  <1> DEFINE n == Len(inbox)
             Fresh == {i \in Rows : inbox[i].note # QuestionNote
                                    /\ \A j \in Rows : j < i => inbox[j].note # inbox[i].note}
             C(i) == [note |-> inbox[i].note, score |-> Score(RecencyRank(i), inbox[i].note),
                      rank |-> RecencyRank(i)]
  <1>1. n \in Nat /\ Rows \in SUBSET (1..n) /\ Fresh \in SUBSET Rows
    BY DEF Rows
  <1>2. IsFiniteSet(1..n) /\ IsFiniteSet(Rows) /\ IsFiniteSet(Fresh)
    <2>1. IsFiniteSet(1..n)
      BY <1>1, FS_Interval
    <2> HIDE DEF Fresh, n
    <2> QED
      BY <1>1, <2>1, FS_Subset
  <1>3. Candidates = {C(i) : i \in Fresh}
    BY DEF Candidates
  <1>4. \A i \in Rows : inbox[i].note \in Notes
    <2>1. \A i \in 1..n : inbox[i] \in StoredNote
      OBVIOUS
    <2> QED
      BY <1>1, <2>1 DEF StoredNote
  <1>5. Cardinality(Rows) \in Nat /\ \A i \in Rows : RecencyRank(i) \in Nat
    <2> SUFFICES ASSUME NEW i \in Rows PROVE RecencyRank(i) \in Nat
      BY <1>2, FS_CardinalityType
    <2>1. {j \in Rows : j < i} \in SUBSET Rows
      OBVIOUS
    <2> QED
      BY <1>2, <2>1, FS_Subset, FS_CardinalityType DEF RecencyRank
  <1>6. ASSUME NEW i \in Rows, NEW j \in Rows, i < j
        PROVE  RecencyRank(i) < RecencyRank(j)
    <2> DEFINE A == {k \in Rows : k < i}
               B == {k \in Rows : k < j}
    <2>1. A \cup {i} \in SUBSET B /\ i \notin A /\ A \in SUBSET Rows /\ B \in SUBSET Rows
      <3>1. \A k \in Rows : k \in Int
        BY <1>1
      <3>2. i \in Int /\ j \in Int /\ i < j
        BY <1>6, <3>1
      <3>3. \A k \in Rows : k < i => k < j
        BY <3>1, <3>2
      <3>4. ~(i < i)
        BY <3>2
      <3> QED
        BY <3>2, <3>3, <3>4
    <2>2. RecencyRank(i) = Cardinality(A) /\ RecencyRank(j) = Cardinality(B)
      BY DEF RecencyRank
    <2> HIDE DEF A, B
    <2>3. IsFiniteSet(A) /\ IsFiniteSet(B)
      BY <1>2, <2>1, FS_Subset
    <2>4. Cardinality(A \cup {i}) = Cardinality(A) + 1
      BY <2>1, <2>3, FS_AddElement
    <2>5. Cardinality(A \cup {i}) <= Cardinality(B)
      BY <2>1, <2>3, FS_Subset
    <2> QED
      BY <1>5, <2>2, <2>4, <2>5
  <1>7. ASSUME NEW i \in Rows PROVE C(i) \in Candidate
    <2>1. PICK x \in Notes, r \in Nat, m \in Nat : x = inbox[i].note /\ r = RecencyRank(i) /\ m = Cardinality(Rows)
      BY <1>4, <1>5
    <2>2. NoteHits[x] \in Nat
      BY MemoryConstants DEF MemoryConstants
    <2>3. PICK v \in Nat : v = 5 * NoteHits[x] + (IF NoteStable[x] THEN IF broad THEN 7 ELSE 4 ELSE 0)
      BY <2>2
    <2>4. Score(r, x) = m * v + m - r
      BY <2>1, <2>3 DEF Score
    <2>5. m * v \in Int
      OBVIOUS
    <2>6. Score(r, x) \in Int
      BY <2>4, <2>5
    <2> QED
      BY <2>1, <2>6 DEF Candidate
  <1>8. \A i, j \in Fresh : i # j => C(i).note # C(j).note /\ C(i).rank # C(j).rank
    <2> SUFFICES ASSUME NEW i \in Fresh, NEW j \in Fresh, i < j
                 PROVE  C(i).note # C(j).note /\ C(i).rank # C(j).rank
      BY <1>1
    <2>1. RecencyRank(i) < RecencyRank(j) /\ RecencyRank(i) \in Nat /\ RecencyRank(j) \in Nat
      BY <1>1, <1>5, <1>6
    <2>2. inbox[i].note # inbox[j].note
      OBVIOUS
    <2> QED
      BY <2>1, <2>2
  <1>9. IsFiniteSet(Candidates)
    <2> DEFINE f == [i \in Fresh |-> C(i)]
    <2>1. f \in Surjection(Fresh, Candidates)
      BY <1>3 DEF Surjection
    <2> HIDE DEF f, Fresh
    <2> QED
      BY <1>2, <2>1, FS_Surjection
  <1>10. Candidates \subseteq Candidate
    BY <1>1, <1>3, <1>7
  <1> HIDE DEF C, Fresh
  <1>11. \A c, d \in Candidates : c # d => c.note # d.note /\ c.rank # d.rank
    BY <1>3, <1>8
  <1> QED
    BY <1>9, <1>10, <1>11

\* The order lists every candidate once, the more relevant first.
LEMMA RelevanceOrder ==
  ASSUME inbox \in Seq(StoredNote)
  PROVE  /\ ByRelevance \in Seq(Candidate) /\ Len(ByRelevance) = Cardinality(Candidates)
         /\ \A k \in 1..Len(ByRelevance) : ByRelevance[k] \in Candidates
         /\ \A k, l \in 1..Len(ByRelevance) : k # l => ByRelevance[k].note # ByRelevance[l].note
         /\ \A c \in Candidates : \E k \in 1..Len(ByRelevance) : ByRelevance[k] = c
         /\ \A k, l \in 1..Len(ByRelevance) : k < l => ByRelevance[k].score >= ByRelevance[l].score
  <1> DEFINE S == Candidates
             n == Cardinality(S)
             R == {q \in S \X S : MoreRelevant(q[1], q[2])}
  <1>1. /\ IsFiniteSet(S) /\ n \in Nat /\ S \subseteq Candidate
        /\ \A c, d \in S : c # d => c.note # d.note /\ c.rank # d.rank
    BY CandidatesDiffer, FS_CardinalityType
  <1>2. \A c, d \in S : <<c, d>> \in R <=> MoreRelevant(c, d)
    OBVIOUS
  <1>3. \A c \in S : c.score \in Int /\ c.rank \in Nat
    BY <1>1 DEF Candidate
  <1>4. \A c \in S : Cardinality({b \in S : MoreRelevant(b, c)}) + 1 = PlaceOf(S, R, c)
    <2> SUFFICES ASSUME NEW c \in S
                 PROVE  Cardinality({b \in S : MoreRelevant(b, c)}) + 1 = PlaceOf(S, R, c)
      OBVIOUS
    <2>1. {b \in S : MoreRelevant(b, c)} = {b \in S : <<b, c>> \in R}
      BY <1>2
    <2> QED
      BY <2>1 DEF PlaceOf
  <1> HIDE DEF R
  <1>5. IsOrder(R, S)
    <2>1. \A c \in S : ~MoreRelevant(c, c)
      BY <1>3 DEF MoreRelevant
    <2>2. \A c, d \in S : c # d => MoreRelevant(c, d) \/ MoreRelevant(d, c)
      BY <1>1, <1>3 DEF MoreRelevant
    <2>3. \A b, c, d \in S : MoreRelevant(b, c) /\ MoreRelevant(c, d) => MoreRelevant(b, d)
      BY <1>3 DEF MoreRelevant
    <2> HIDE DEF S
    <2> QED
      BY <1>2, <2>1, <2>2, <2>3 DEF IsOrder
  <1> HIDE DEF S
  <1>6. /\ \A c \in S : PlaceOf(S, R, c) \in 1..n
        /\ \A c, d \in S : <<c, d>> \in R => PlaceOf(S, R, c) < PlaceOf(S, R, d)
        /\ \A c, d \in S : PlaceOf(S, R, c) = PlaceOf(S, R, d) => c = d
        /\ \A k \in 1..n : \E c \in S : PlaceOf(S, R, c) = k
    BY <1>1, <1>5, PlacesAreTaken
  <1>7. PICK w : w = ByRelevance
    OBVIOUS
  <1>8. w = [k \in 1..n |-> CHOOSE c \in S : Cardinality({b \in S : MoreRelevant(b, c)}) + 1 = k]
    BY <1>7 DEF ByRelevance, S
  <1>9. \A k \in 1..n : w[k] \in S /\ PlaceOf(S, R, w[k]) = k
    <2> SUFFICES ASSUME NEW k \in 1..n PROVE w[k] \in S /\ PlaceOf(S, R, w[k]) = k
      OBVIOUS
    <2>1. \E c \in S : Cardinality({b \in S : MoreRelevant(b, c)}) + 1 = k
      BY <1>4, <1>6
    <2>2. w[k] = CHOOSE c \in S : Cardinality({b \in S : MoreRelevant(b, c)}) + 1 = k
      BY <1>8
    <2>3. w[k] \in S /\ Cardinality({b \in S : MoreRelevant(b, w[k])}) + 1 = k
      BY <2>1, <2>2
    <2> QED
      BY <1>4, <2>3
  <1>10. w \in Seq(Candidate) /\ Len(w) = n
    <2>1. w \in [1..n -> Candidate]
      BY <1>1, <1>8, <1>9
    <2> HIDE DEF n
    <2> QED
      BY <1>1, <2>1
  <1>11. \A k, l \in 1..n : k # l => w[k].note # w[l].note
    BY <1>1, <1>9
  <1>12. \A c \in S : \E k \in 1..n : w[k] = c
    BY <1>6, <1>9
  <1>13. \A k, l \in 1..n : k < l => w[k].score >= w[l].score
    <2> SUFFICES ASSUME NEW k \in 1..n, NEW l \in 1..n, k < l PROVE w[k].score >= w[l].score
      OBVIOUS
    <2>1. w[k] \in S /\ w[l] \in S /\ ~(<<w[l], w[k]>> \in R) /\ w[k] # w[l]
      <3>1. w[k] \in S /\ w[l] \in S /\ PlaceOf(S, R, w[k]) = k /\ PlaceOf(S, R, w[l]) = l
        BY <1>9
      <3>2. k \in Int /\ l \in Int /\ ~(l < k)
        BY <1>1
      <3> QED
        BY <1>6, <3>1, <3>2
    <2>2. MoreRelevant(w[k], w[l])
      BY <1>2, <1>5, <2>1 DEF IsOrder
    <2> QED
      BY <1>3, <2>1, <2>2 DEF MoreRelevant
  <1> QED
    BY <1>7, <1>9, <1>10, <1>11, <1>12, <1>13 DEF S

\* What holds of the memories after the first k candidates of the order w.
Fitting(u, w, k) ==
    /\ u \in Seq(Notes) /\ Len(u) <= MemoryItems
    /\ Len(u) > 1 => Chars(u) <= MemoryChars
    /\ \A i, j \in 1..Len(u) : i # j => u[i] # u[j]
    /\ \A i \in 1..Len(u) : \E l \in 1..k : u[i] = w[l].note
    /\ k > 0 => Len(u) > 0 /\ u[1] = w[1].note
    /\ \A l \in 1..k :
          \/ Contains(u, w[l].note) \/ Chars(u) + NoteLength[w[l].note] + 3 > MemoryChars
          \/ Len(u) = MemoryItems /\ \A m \in 1..k : Contains(u, w[m].note) => m < l

\* One more candidate keeps it.
LEMMA TakingKeepsFit ==
  ASSUME NEW w \in Seq(Candidate), \A i, j \in 1..Len(w) : i # j => w[i].note # w[j].note,
         NEW k \in 1..Len(w), NEW u, Fitting(u, w, k - 1)
  PROVE  Fitting(TakeCandidate(u, w[k]), w, k)
  <1> DEFINE x == w[k].note
  <1>0. /\ u \in Seq(Notes) /\ Len(u) \in Nat /\ Len(u) <= MemoryItems /\ MemoryItems \in Nat \ {0}
        /\ MemoryChars \in Nat /\ x \in Notes /\ NoteLength[x] \in Nat
        /\ k \in Nat /\ Len(w) \in Nat /\ \A l \in 1..Len(w) : w[l].note \in Notes /\ NoteLength[w[l].note] \in Nat
    <2>1. \A l \in 1..Len(w) : w[l].note \in Notes
      <3>1. \A l \in 1..Len(w) : w[l] \in Candidate
        OBVIOUS
      <3> QED
        BY <3>1 DEF Candidate
    <2>2. u \in Seq(Notes) /\ Len(u) <= MemoryItems
      BY DEF Fitting
    <2> QED
      BY <2>1, <2>2, MemoryConstants DEF MemoryConstants
  <1>1. Chars(u) \in Nat /\ Chars(Append(u, x)) = Chars(u) + NoteLength[x] + 3 /\ Chars(<<>>) = 0
    BY <1>0, CharsGrow
  <1>2. ~Contains(u, x)
    <2> SUFFICES ASSUME Contains(u, x) PROVE FALSE
      OBVIOUS
    <2>1. PICK i \in 1..Len(u) : u[i] = x
      BY DEF Contains
    <2>2. PICK l \in 1..k - 1 : u[i] = w[l].note
      BY DEF Fitting
    <2>3. l \in 1..Len(w) /\ l # k
      BY <1>0
    <2> QED
      BY <2>1, <2>2, <2>3
  <1> HIDE DEF x
  <1>3. TakeCandidate(u, w[k]) =
          IF Len(u) >= MemoryItems \/ (u # <<>> /\ Chars(u) + NoteLength[x] + 3 > MemoryChars)
          THEN u ELSE Append(u, x)
    BY DEF TakeCandidate, TakeMemory, x
  <1>4. CASE Len(u) >= MemoryItems \/ (u # <<>> /\ Chars(u) + NoteLength[x] + 3 > MemoryChars)
    <2>1. TakeCandidate(u, w[k]) = u
      BY <1>3, <1>4
    <2>2. k # 1
      <3> SUFFICES ASSUME k = 1 PROVE FALSE
        OBVIOUS
      <3>1. Len(u) = 0
        <4> SUFFICES ASSUME Len(u) # 0 PROVE FALSE
          OBVIOUS
        <4>1. 1 \in 1..Len(u)
          BY <1>0
        <4> QED
          BY <4>1 DEF Fitting
      <3>2. u = <<>>
        BY <1>0, <3>1
      <3> QED
        BY <1>0, <1>4, <3>1, <3>2
    <2>3. \A i \in 1..Len(u) : \E l \in 1..k : u[i] = w[l].note
      <3>1. \A l \in 1..k - 1 : l \in 1..k
        BY <1>0
      <3> QED
        BY <3>1 DEF Fitting
    <2>4. Len(u) > 0 /\ u[1] = w[1].note
      BY <1>0, <2>2 DEF Fitting
    <2>5. ASSUME NEW l \in 1..k
          PROVE  \/ Contains(u, w[l].note) \/ Chars(u) + NoteLength[w[l].note] + 3 > MemoryChars
                 \/ Len(u) = MemoryItems /\ \A m \in 1..k : Contains(u, w[m].note) => m < l
      <3>1. CASE l = k
        <4>1. CASE Len(u) >= MemoryItems
          <5>1. Len(u) = MemoryItems
            BY <1>0, <4>1
          <5>2. ASSUME NEW m \in 1..k, Contains(u, w[m].note) PROVE m < l
            <6>1. m # k
              BY <1>2, <5>2 DEF x
            <6> QED
              BY <1>0, <3>1, <6>1
          <5> QED
            BY <5>1, <5>2
        <4>2. CASE Chars(u) + NoteLength[x] + 3 > MemoryChars
          BY <3>1, <4>2 DEF x
        <4> QED
          BY <1>4, <4>1, <4>2
      <3>2. CASE l # k
        <4>1. l \in 1..k - 1
          BY <1>0, <3>2
        <4>2. CASE Len(u) = MemoryItems /\ \A m \in 1..k - 1 : Contains(u, w[m].note) => m < l
          <5>1. ASSUME NEW m \in 1..k, Contains(u, w[m].note) PROVE m < l
            <6>1. m # k
              BY <1>2, <5>1 DEF x
            <6>2. m \in 1..k - 1
              BY <1>0, <6>1
            <6> QED
              BY <4>2, <5>1, <6>2
          <5> QED
            BY <4>2, <5>1
        <4> QED
          BY <4>1, <4>2 DEF Fitting
      <3> QED
        BY <3>1, <3>2
    <2>6. /\ Len(u) > 1 => Chars(u) <= MemoryChars
          /\ \A i, j \in 1..Len(u) : i # j => u[i] # u[j]
      BY DEF Fitting
    <2> QED
      BY <1>0, <2>1, <2>3, <2>4, <2>5, <2>6 DEF Fitting
  <1>5. CASE ~(Len(u) >= MemoryItems \/ (u # <<>> /\ Chars(u) + NoteLength[x] + 3 > MemoryChars))
    <2>1. PICK t : t = Append(u, x)
      OBVIOUS
    <2>2. /\ t \in Seq(Notes) /\ Len(t) = Len(u) + 1 /\ t[Len(u) + 1] = x
          /\ \A i \in 1..Len(u) : t[i] = u[i]
      BY <1>0, <2>1
    <2>3. TakeCandidate(u, w[k]) = t
      BY <1>3, <1>5, <2>1
    <2>4. Chars(t) = Chars(u) + NoteLength[x] + 3
      BY <1>1, <2>1
    <2>5. Len(t) <= MemoryItems
      BY <1>0, <1>5, <2>2
    <2>6. Len(t) > 1 => Chars(t) <= MemoryChars
      <3>1. Len(t) > 1 => u # <<>>
        BY <1>0, <2>2
      <3> QED
        BY <1>0, <1>1, <1>5, <2>4, <3>1
    <2>7. ASSUME NEW i \in 1..Len(t), NEW j \in 1..Len(t), i # j PROVE t[i] # t[j]
      <3>1. \A q \in 1..Len(u) : t[q] = u[q] /\ u[q] # x
        BY <1>2, <2>2 DEF Contains
      <3>2. \A q \in 1..Len(t) : q \in 1..Len(u) \/ q = Len(u) + 1
        BY <1>0, <2>2
      <3>3. \A q, r \in 1..Len(u) : q # r => u[q] # u[r]
        BY DEF Fitting
      <3>4. CASE i \in 1..Len(u) /\ j \in 1..Len(u)
        BY <2>7, <3>1, <3>3, <3>4
      <3>5. CASE i = Len(u) + 1 \/ j = Len(u) + 1
        BY <2>2, <2>7, <3>1, <3>2, <3>5
      <3> QED
        BY <3>2, <3>4, <3>5
    <2>8. ASSUME NEW i \in 1..Len(t) PROVE \E l \in 1..k : t[i] = w[l].note
      <3>1. CASE i \in 1..Len(u)
        <4>1. PICK l \in 1..k - 1 : u[i] = w[l].note
          BY <3>1 DEF Fitting
        <4>2. l \in 1..k
          BY <1>0
        <4> QED
          BY <2>2, <3>1, <4>1, <4>2
      <3>2. CASE i = Len(u) + 1
        BY <1>0, <2>2, <3>2 DEF x
      <3> QED
        BY <1>0, <2>2, <3>1, <3>2
    <2>9. Len(t) > 0 /\ t[1] = w[1].note
      <3>1. CASE k = 1
        <4>1. Len(u) = 0
          <5> SUFFICES ASSUME Len(u) # 0 PROVE FALSE
            OBVIOUS
          <5>1. 1 \in 1..Len(u)
            BY <1>0
          <5> QED
            BY <3>1, <5>1 DEF Fitting
        <4> QED
          BY <1>0, <2>2, <3>1, <4>1 DEF x
      <3>2. CASE k # 1
        <4>1. Len(u) > 0 /\ u[1] = w[1].note
          BY <1>0, <3>2 DEF Fitting
        <4>2. 1 \in 1..Len(u)
          BY <1>0, <4>1
        <4> QED
          BY <1>0, <2>2, <4>1, <4>2
      <3> QED
        BY <3>1, <3>2
    <2>10. ASSUME NEW l \in 1..k
           PROVE  Contains(t, w[l].note) \/ Chars(t) + NoteLength[w[l].note] + 3 > MemoryChars
      <3>1. CASE l = k
        <4>1. Len(u) + 1 \in 1..Len(t)
          BY <1>0, <2>2
        <4> QED
          BY <2>2, <3>1, <4>1 DEF Contains, x
      <3>2. CASE l # k
        <4>1. l \in 1..k - 1
          BY <1>0, <3>2
        <4>2. ~(Len(u) = MemoryItems)
          BY <1>0, <1>5
        <4>3. Contains(u, w[l].note) \/ Chars(u) + NoteLength[w[l].note] + 3 > MemoryChars
          BY <4>1, <4>2 DEF Fitting
        <4>4. Contains(u, w[l].note) => Contains(t, w[l].note)
          <5>1. \A q \in 1..Len(u) : q \in 1..Len(t)
            BY <1>0, <2>2
          <5> QED
            BY <2>2, <5>1 DEF Contains
        <4>5. PICK v \in Nat, a \in Nat, b \in Nat : v = NoteLength[w[l].note] /\ a = Chars(u) /\ b = NoteLength[x]
          <5>1. l \in 1..Len(w)
            BY <1>0
          <5>2. w[l].note \in Notes /\ x \in Notes
            BY <1>0, <5>1 DEF Candidate
          <5>3. NoteLength[w[l].note] \in Nat /\ NoteLength[x] \in Nat
            BY <5>2, MemoryConstants
          <5>4. Chars(u) \in Nat
            BY <1>0, <1>1
          <5> QED
            BY <5>3, <5>4
        <4>6. a + v + 3 > MemoryChars => a + b + 3 + v + 3 > MemoryChars
          BY <1>0
        <4> QED
          BY <2>4, <4>3, <4>4, <4>5, <4>6
      <3> QED
        BY <3>1, <3>2
    <2> QED
      BY <2>2, <2>3, <2>5, <2>6, <2>7, <2>8, <2>9, <2>10 DEF Fitting
  <1> QED
    BY <1>4, <1>5

\* The memories of all candidates fit.
LEMMA AllTaken ==
  ASSUME inbox \in Seq(StoredNote)
  PROVE  Fitting(FoldLeft(TakeCandidate, <<>>, ByRelevance), ByRelevance, Len(ByRelevance))
  <1>1. PICK w \in Seq(Candidate) : /\ w = ByRelevance
                                    /\ \A i, j \in 1..Len(w) : i # j => w[i].note # w[j].note
    BY RelevanceOrder
  <1>2. PICK h : /\ h[0] = <<>> /\ FoldLeft(TakeCandidate, <<>>, w) = h[Len(w)]
                 /\ \A k \in 1..Len(w) : h[k] = TakeCandidate(h[k - 1], w[k])
    BY MemoryFold DEF Candidate
  <1> DEFINE n == Len(w)
             G == {k \in 0..n : Fitting(h[k], w, k)}
  <1>3. n \in Nat
    OBVIOUS
  <1>4. 0 \in G
    <2>1. <<>> \in Seq(Notes) /\ Len(<<>>) = 0 /\ 0 <= MemoryItems
      BY MemoryConstants DEF MemoryConstants
    <2>2. Fitting(<<>>, w, 0)
      BY <2>1 DEF Fitting
    <2> QED
      BY <1>2, <1>3, <2>2
  <1>5. ASSUME NEW k \in 1..n, k - 1 \in G PROVE k \in G
    <2>1. Fitting(h[k - 1], w, k - 1)
      BY <1>5
    <2>2. Fitting(TakeCandidate(h[k - 1], w[k]), w, k)
      BY <1>1, <2>1, TakingKeepsFit
    <2> QED
      BY <1>2, <2>2
  <1>6. n \in G
    <2>1. \A k \in 0..n : k \in G
      <3> HIDE DEF G, n
      <3> QED
        BY <1>3, <1>4, <1>5, UpTo
    <2> QED
      BY <1>3, <2>1
  <1> QED
    BY <1>1, <1>2, <1>6

\* The list of memories is built of the candidates of the inbox.
MemInv ==
    /\ inbox \in Seq(StoredNote) /\ broad \in BOOLEAN /\ recalled \in BOOLEAN
    /\ recalled => Fitting(memories, ByRelevance, Len(ByRelevance))

\* The list of memories is built of the candidates, in every reachable state.
LEMMA MemInvariant == MemSpec => []MemInv
  <1>1. MemInit => MemInv
    <2>1. SeqOf(StoredNote, MaxStored) \subseteq Seq(StoredNote)
      BY MemoryConstants DEF SeqOf, MemoryConstants
    <2> QED
      BY <2>1 DEF MemInit, MemInv
  <1>2. MemInv /\ [MemNext]_memVars => MemInv'
    <2> SUFFICES ASSUME MemInv, [MemNext]_memVars PROVE MemInv'
      OBVIOUS
    <2>1. CASE MemNext
      <3>1. /\ inbox' = inbox /\ broad' = broad /\ recalled'
            /\ memories' = FoldLeft(TakeCandidate, <<>>, ByRelevance) /\ inbox \in Seq(StoredNote)
        BY <2>1 DEF MemNext, RecallMemories, MemInv
      <3>2. Fitting(memories', ByRelevance, Len(ByRelevance))
        BY <3>1, AllTaken
      <3>3. ByRelevance' = ByRelevance
        BY <3>1 DEF ByRelevance, Candidates, Rows, RecencyRank, Score
      <3> QED
        BY <2>1, <3>1, <3>2, <3>3 DEF MemInv, MemNext, RecallMemories
    <2>2. CASE UNCHANGED memVars
      <3>1. ByRelevance' = ByRelevance
        BY <2>2 DEF ByRelevance, Candidates, Rows, RecencyRank, Score, memVars
      <3> QED
        BY <2>2, <3>1 DEF MemInv, memVars
    <2> QED
      BY <2>1, <2>2
  <1> QED
    BY <1>1, <1>2, PTL DEF MemSpec

\* For any stored messages, any lengths and any limits: the most relevant memory is in, whatever
\* its length; the rest fit; and what is out does not fit or scores no higher than what is in.
THEOREM MemoriesAlwaysFit == MemSpec => []MemoriesFit
  <1>1. MemInv => MemoriesFit
    <2> SUFFICES ASSUME MemInv, recalled PROVE MemoriesFit
      BY DEF MemoriesFit
    <2> DEFINE n == Len(memories)
    <2>1. PICK w \in Seq(Candidate) :
             /\ w = ByRelevance /\ Len(w) = Cardinality(Candidates)
             /\ \A k \in 1..Len(w) : w[k] \in Candidates
             /\ \A k, l \in 1..Len(w) : k # l => w[k].note # w[l].note
             /\ \A c \in Candidates : \E k \in 1..Len(w) : w[k] = c
             /\ \A k, l \in 1..Len(w) : k < l => w[k].score >= w[l].score
      BY RelevanceOrder DEF MemInv
    <2>2. Fitting(memories, w, Len(w))
      BY <2>1 DEF MemInv
    <2>3. /\ memories \in Seq(Notes) /\ n \in Nat /\ n <= MemoryItems /\ (n > 1 => Chars(memories) <= MemoryChars)
          /\ \A i, j \in 1..n : i # j => memories[i] # memories[j]
          /\ \A i \in 1..n : \E l \in 1..Len(w) : memories[i] = w[l].note
          /\ Len(w) > 0 => n > 0 /\ memories[1] = w[1].note
      BY <2>2 DEF Fitting
    <2>4. Len(w) \in Nat /\ (Candidates # {}) = (Len(w) > 0)
      <3>1. Len(w) \in Nat
        OBVIOUS
      <3>2. Candidates # {} => Len(w) > 0
        BY <2>1, <3>1
      <3>3. Len(w) > 0 => Candidates # {}
        BY <2>1, <3>1
      <3> QED
        BY <3>1, <3>2, <3>3
    <2>5. (Candidates # {}) = (n > 0)
      <3>1. n > 0 => Len(w) > 0
        <4> SUFFICES ASSUME n > 0 PROVE Len(w) > 0
          OBVIOUS
        <4>1. 1 \in 1..n
          BY <2>3
        <4> QED
          BY <2>3, <2>4, <4>1
      <3> QED
        BY <2>3, <2>4, <3>1
    <2>6. Cardinality(Range(memories)) = n
      <3>1. Range(memories) = {memories[i] : i \in 1..n} /\ DOMAIN memories = 1..n
        BY <2>3 DEF Range
      <3>2. memories \in Surjection(1..n, Range(memories)) /\ memories \in Injection(1..n, Range(memories))
        BY <2>3, <3>1 DEF Surjection, Injection, IsInjective
      <3>3. IsFiniteSet(1..n) /\ Cardinality(1..n) = n
        <4>1. PICK m \in Nat : m = n
          BY <2>3
        <4>2. IsFiniteSet(1..m) /\ Cardinality(1..m) = m
          BY FS_Interval
        <4> QED
          BY <4>1, <4>2
      <3>4. Cardinality(Range(memories)) = Cardinality(1..n)
        BY <3>2, <3>3, FS_Surjection
      <3> QED
        BY <3>3, <3>4
    <2>7. \A i \in 1..n : \E c \in Candidates : c.note = memories[i]
      BY <2>1, <2>3
    <2>8. ASSUME NEW c \in Candidates, n > 0
          PROVE  \E b \in Candidates : b.note = memories[1] /\ b.score >= c.score
      <3>1. PICK k \in 1..Len(w) : w[k] = c
        BY <2>1
      <3>2. 1 \in 1..Len(w) /\ w[1] \in Candidates /\ w[1].note = memories[1]
        BY <2>1, <2>3, <2>4
      <3>3. w[1].score >= c.score
        <4>1. CASE k = 1
          <5>1. c.score \in Int
            <6>1. w[k] \in Candidate
              OBVIOUS
            <6> QED
              BY <3>1, <6>1 DEF Candidate
          <5> QED
            BY <3>1, <4>1, <5>1
        <4>2. CASE k # 1
          <5>1. 1 < k
            BY <4>2
          <5> QED
            BY <2>1, <3>1, <3>2, <5>1
        <4> QED
          BY <4>1, <4>2
      <3> QED
        BY <3>2, <3>3
    <2>9. ASSUME NEW c \in Candidates
          PROVE  \/ Contains(memories, c.note) \/ Chars(memories) + NoteLength[c.note] + 3 > MemoryChars
                 \/ n = MemoryItems /\ \A b \in Candidates : Contains(memories, b.note) => b.score >= c.score
      <3>1. PICK l \in 1..Len(w) : w[l] = c
        BY <2>1
      <3>2. CASE n = MemoryItems /\ \A m \in 1..Len(w) : Contains(memories, w[m].note) => m < l
        <4>1. ASSUME NEW b \in Candidates, Contains(memories, b.note) PROVE b.score >= c.score
          <5>1. PICK m \in 1..Len(w) : w[m] = b
            BY <2>1
          <5>2. m < l
            BY <3>2, <4>1, <5>1
          <5> QED
            BY <2>1, <3>1, <5>1, <5>2
        <4> QED
          BY <3>2, <4>1
      <3>3. \/ Contains(memories, w[l].note) \/ Chars(memories) + NoteLength[w[l].note] + 3 > MemoryChars
            \/ n = MemoryItems /\ \A m \in 1..Len(w) : Contains(memories, w[m].note) => m < l
        BY <2>2 DEF Fitting
      <3> QED
        BY <3>1, <3>2, <3>3
    <2> QED
      BY <2>3, <2>5, <2>6, <2>7, <2>8, <2>9 DEF MemoriesFit
  <1> QED
    BY <1>1, MemInvariant, PTL

\* What is recalled is texts of the inbox.
THEOREM MemTypeCorrect == MemSpec => []MemTypeOK
  <1>1. MemInit => MemTypeOK
    <2>1. MemInit => MemInv
      <3>1. SeqOf(StoredNote, MaxStored) \subseteq Seq(StoredNote)
        BY MemoryConstants DEF SeqOf, MemoryConstants
      <3> QED
        BY <3>1 DEF MemInit, MemInv
    <2> QED
      BY <2>1 DEF MemInit, MemInv, MemTypeOK
  <1>2. MemInv' /\ MemTypeOK /\ [MemNext]_memVars => MemTypeOK'
    <2> SUFFICES ASSUME MemInv', MemTypeOK, [MemNext]_memVars PROVE MemTypeOK'
      OBVIOUS
    <2>1. CASE MemNext
      BY <2>1 DEF MemNext, RecallMemories, MemInv, Fitting, MemTypeOK
    <2>2. CASE UNCHANGED memVars
      BY <2>2 DEF memVars, MemTypeOK
    <2> QED
      BY <2>1, <2>2
  <1> QED
    BY <1>1, <1>2, MemInvariant, PTL DEF MemSpec

==============================================================================
