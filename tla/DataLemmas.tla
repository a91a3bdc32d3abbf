----------------------------- MODULE DataLemmas ------------------------------
(***************************************************************************)
(* Facts about numbers, folds and sums that the proofs about the components*)
(* share.  There is no induction rule for operators here: an induction is a*)
(* statement about the set of the numbers that have a property, of which a *)
(* smallest number outside leads to a contradiction.                       *)
(***************************************************************************)
EXTENDS Integers, Sequences, SequencesExt, FiniteSetsExt, FiniteSets, FiniteSetTheorems,
        WellFoundedInduction, TLAPS

-----------------------------------------------------------------------------
(* Numbers and folds.                                                        *)

\* A set of numbers has a smallest one.
LEMMA NatMin ==
  ASSUME NEW T \in SUBSET Nat, T # {}
  PROVE  \E n \in T : \A m \in T : n <= m
  <1> DEFINE R == OpToRel(<, Nat)
  <1>1. \A x, y \in Nat : x < y => <<x, y>> \in R
    BY DEF OpToRel
  <1>2. IsWellFoundedOn(R, Nat)
    BY NatLessThanWellFounded
  <1> HIDE DEF R
  <1>3. PICK x \in T : \A y \in T : ~(<<y, x>> \in R)
    BY <1>2, WFMin
  <1>4. \A y \in T : ~(y < x)
    BY <1>1, <1>3
  <1> QED
    BY <1>4

\* Induction up to n, on the set of the numbers for which a property holds.
LEMMA UpTo ==
  ASSUME NEW n \in Nat, NEW G, 0 \in G, \A k \in 1..n : k - 1 \in G => k \in G
  PROVE  \A k \in 0..n : k \in G
  <1> DEFINE Bad == (0..n) \ G
  <1> SUFFICES ASSUME Bad # {} PROVE FALSE
    OBVIOUS
  <1>1. PICK k \in Bad : \A m \in Bad : k <= m
    <2>1. Bad \in SUBSET Nat
      OBVIOUS
    <2> HIDE DEF Bad
    <2> QED
      BY <2>1, NatMin
  <1>2. k \in 1..n /\ k - 1 \in 0..n /\ k - 1 \notin Bad
    <2>1. k # 0
      OBVIOUS
    <2> QED
      BY <1>1, <2>1
  <1> QED
    BY <1>2

\* The index the fold takes next is the largest that is left.
LEMMA NatMax ==
  ASSUME NEW n \in Nat, NEW s \in SUBSET (1..n), s # {}
  PROVE  Max(s) \in s /\ \A i \in s : i <= Max(s)
  <1> DEFINE up == {m \in 0..n : \A i \in s : i <= m}
  <1>1. n \in up /\ up \in SUBSET Nat
    OBVIOUS
  <1>2. PICK m \in up : \A k \in up : m <= k
    <2> HIDE DEF up
    <2> QED
      BY <1>1, NatMin
  <1>3. m \in s
    <2> SUFFICES ASSUME m \notin s PROVE FALSE
      OBVIOUS
    <2>1. m # 0
      <3>1. PICK i \in s : i \in 1..n
        OBVIOUS
      <3>2. i <= m
        BY <1>2, <3>1
      <3> QED
        BY <3>1, <3>2
    <2>2. \A i \in s : i <= m - 1
      <3> SUFFICES ASSUME NEW i \in s PROVE i <= m - 1
        OBVIOUS
      <3>1. i \in 1..n /\ i <= m /\ i # m /\ m \in Nat
        BY <1>2
      <3> QED
        BY <3>1
    <2>3. m - 1 \in up
      BY <1>2, <2>1, <2>2
    <2> QED
      BY <1>2, <2>3
  <1>4. \A i \in s : i <= m
    BY <1>2
  <1> HIDE DEF up
  <1> QED
    BY <1>3, <1>4 DEF Max

\* A fold over the indices 1..n exists: step and base determine a value for every set of them.
IsFold(f, step, base, n) ==
    \A s \in SUBSET (1..n) : f[s] = IF s = {} THEN base ELSE step[<<f[s \ {Max(s)}], Max(s)>>]

\* Such a fold exists for every step and base: it is built one index at a time.
LEMMA FoldExists ==
  ASSUME NEW n \in Nat, NEW T, NEW base \in T, NEW step \in [T \X (1..n) -> T]
  PROVE  \E f \in [SUBSET (1..n) -> T] : IsFold(f, step, base, n)
  <1> DEFINE Below(k) == {s \in SUBSET (1..n) : \A i \in s : i <= k}
             Good(k) == \E f \in [SUBSET (1..n) -> T] :
                           \A s \in Below(k) :
                              f[s] = IF s = {} THEN base ELSE step[<<f[s \ {Max(s)}], Max(s)>>]
  <1>1. Good(0)
    <2> DEFINE f == [s \in SUBSET (1..n) |-> base]
    <2>1. \A s \in Below(0) : s = {}
      OBVIOUS
    <2>2. f \in [SUBSET (1..n) -> T]
      OBVIOUS
    <2>3. \A s \in Below(0) : f[s] = IF s = {} THEN base ELSE step[<<f[s \ {Max(s)}], Max(s)>>]
      BY <2>1
    <2> QED
      BY <2>2, <2>3
  <1>2. ASSUME NEW k \in 1..n, Good(k - 1) PROVE Good(k)
    <2>1. PICK f \in [SUBSET (1..n) -> T] :
             \A s \in Below(k - 1) :
                f[s] = IF s = {} THEN base ELSE step[<<f[s \ {Max(s)}], Max(s)>>]
      BY <1>2
    <2> DEFINE g == [s \in SUBSET (1..n) |->
                       IF k \in s THEN step[<<f[s \ {k}], k>>] ELSE f[s]]
    <2>2. g \in [SUBSET (1..n) -> T]
      <3> SUFFICES ASSUME NEW s \in SUBSET (1..n)
                   PROVE  (IF k \in s THEN step[<<f[s \ {k}], k>>] ELSE f[s]) \in T
        OBVIOUS
      <3>1. f[s] \in T /\ f[s \ {k}] \in T
        OBVIOUS
      <3> QED
        BY <3>1
    <2>3. ASSUME NEW s \in Below(k)
          PROVE  g[s] = IF s = {} THEN base ELSE step[<<g[s \ {Max(s)}], Max(s)>>]
      <3>1. CASE k \in s
        <4>1. Max(s) = k
          <5>1. Max(s) \in s /\ \A i \in s : i <= Max(s)
            BY <3>1, NatMax
          <5>2. PICK m \in s : m = Max(s) /\ \A i \in s : i <= m
            BY <5>1
          <5>3. m \in 1..n /\ m <= k /\ k <= m
            BY <2>3, <3>1, <5>2
          <5> QED
            BY <5>2, <5>3
        <4>2. g[s] = step[<<f[s \ {k}], k>>] /\ g[s \ {k}] = f[s \ {k}]
          BY <3>1
        <4> QED
          BY <3>1, <4>1, <4>2
      <3>2. CASE k \notin s
        <4>1. s \in Below(k - 1)
          BY <3>2
        <4>2. g[s] = f[s] /\ \A i : g[s \ {i}] = f[s \ {i}]
          BY <3>2
        <4> QED
          BY <2>1, <4>1, <4>2
      <3> QED
        BY <3>1, <3>2
    <2> QED
      BY <2>2, <2>3
  <1>4. Good(n)
    <2> DEFINE G == {k \in 0..n : Good(k)}
    <2> HIDE DEF Good
    <2>1. 0 \in G /\ \A k \in 1..n : k - 1 \in G => k \in G
      BY <1>1, <1>2
    <2>2. \A k \in 0..n : k \in G
      <3> HIDE DEF G
      <3> QED
        BY <2>1, UpTo
    <2> QED
      BY <2>2
  <1>5. Below(n) = SUBSET (1..n)
    OBVIOUS
  <1> HIDE DEF Below
  <1> QED
    BY <1>4, <1>5 DEF IsFold

\* The fold of the first k indices is one step from the fold of the first k - 1.
LEMMA FoldSteps ==
  ASSUME NEW n \in Nat, NEW k \in 1..n
  PROVE  Max(1..k) = k /\ (1..k) \ {Max(1..k)} = 1..(k - 1) /\ 1..k # {}
  <1>1. 1..k \in SUBSET (1..n) /\ k \in 1..k
    OBVIOUS
  <1>2. Max(1..k) \in 1..k /\ \A i \in 1..k : i <= Max(1..k)
    <2>1. 1..k # {}
      BY <1>1
    <2> QED
      BY <1>1, <2>1, NatMax
  <1>3. Max(1..k) = k
    BY <1>1, <1>2
  <1> QED
    BY <1>1, <1>3

\* Whatever satisfies the equation of a fold gives the chain of its intermediate values.
Folds(e, T, step, base, n) ==
    /\ e[{}] = base
    /\ \A s \in SUBSET (1..n) :
         s # {} /\ e[s \ {Max(s)}] \in T => e[s] = step[<<e[s \ {Max(s)}], Max(s)>>]
\* h is the chain of the intermediate values of e, of which the last is the value of the fold.
IsChain(h, e, T, step, base, n) ==
    /\ h \in [0..n -> T] /\ h[0] = base /\ h[n] = e[1..n]
    /\ \A k \in 1..n : h[k] = step[<<h[k - 1], k>>]

\* A fold is the end of its chain.
LEMMA FoldChain ==
  ASSUME NEW n \in Nat, NEW T, NEW base \in T, NEW step \in [T \X (1..n) -> T],
         NEW e, Folds(e, T, step, base, n)
  PROVE  \E h : IsChain(h, e, T, step, base, n)
  <1>1. ASSUME NEW k \in 1..n, e[1..k - 1] \in T
        PROVE  e[1..k] = step[<<e[1..k - 1], k>>] /\ e[1..k] \in T
    <2>1. /\ 1..k \in SUBSET (1..n) /\ 1..k # {}
          /\ Max(1..k) = k /\ (1..k) \ {Max(1..k)} = 1..k - 1
      BY FoldSteps
    <2>2. e[1..k] = step[<<e[(1..k) \ {Max(1..k)}], Max(1..k)>>]
      BY <1>1, <2>1 DEF Folds
    <2>3. <<e[1..k - 1], k>> \in T \X (1..n)
      BY <1>1
    <2> QED
      BY <2>1, <2>2, <2>3
  <1>2. e[1..0] = base
    <2>1. 1..0 = {}
      OBVIOUS
    <2> QED
      BY <2>1 DEF Folds
  <1>3. \A k \in 0..n : e[1..k] \in T
    <2> DEFINE G == {k \in 0..n : e[1..k] \in T}
    <2>1. 0 \in G
      BY <1>2
    <2>2. ASSUME NEW k \in 1..n, k - 1 \in G PROVE k \in G
      <3>1. e[1..k - 1] \in T
        BY <2>2
      <3>2. e[1..k] \in T
        BY <1>1, <3>1
      <3> QED
        BY <3>2
    <2>3. \A k \in 0..n : k \in G
      <3> HIDE DEF G
      <3> QED
        BY <2>1, <2>2, UpTo
    <2> QED
      BY <2>3
  <1> DEFINE h == [k \in 0..n |-> e[1..k]]
  <1>4. h \in [0..n -> T] /\ \A k \in 0..n : h[k] = e[1..k]
    BY <1>3
  <1> HIDE DEF h
  <1>5. \A k \in 1..n : h[k] = step[<<h[k - 1], k>>]
    <2> SUFFICES ASSUME NEW k \in 1..n PROVE h[k] = step[<<h[k - 1], k>>]
      OBVIOUS
    <2>1. k \in 0..n /\ k - 1 \in 0..n
      OBVIOUS
    <2>2. h[k] = e[1..k] /\ h[k - 1] = e[1..k - 1] /\ e[1..k - 1] \in T
      BY <1>4, <2>1
    <2> QED
      BY <1>1, <2>2
  <1>6. h[0] = base /\ e[1..n] = h[n]
    BY <1>2, <1>4
  <1>7. IsChain(h, e, T, step, base, n)
    BY <1>4, <1>5, <1>6 DEF IsChain
  <1> QED
    BY <1>7

-----------------------------------------------------------------------------
(* Sums over sets.                                                           *)

\* h is the running total of the amounts v[1] to v[n].
IsTotal(h, v, n) ==
    /\ h \in [0..n -> Nat] /\ h[0] = 0
    /\ \A k \in 1..n : h[k] = h[k - 1] + v[k]

\* Amounts have a running total.
LEMMA TotalExists ==
  ASSUME NEW n \in Nat, NEW v \in [1..n -> Nat]
  PROVE  \E h : IsTotal(h, v, n)
  <1> DEFINE Upto(h, k) == h \in [0..n -> Nat] /\ h[0] = 0 /\ \A i \in 1..k : h[i] = h[i - 1] + v[i]
             G == {k \in 0..n : \E h : Upto(h, k)}
  <1>1. 0 \in G
    <2> DEFINE z == [i \in 0..n |-> 0]
    <2>1. Upto(z, 0)
      OBVIOUS
    <2> HIDE DEF z, Upto
    <2>2. \E h : Upto(h, 0)
      BY <2>1
    <2> QED
      BY <2>2
  <1>2. ASSUME NEW k \in 1..n, k - 1 \in G PROVE k \in G
    <2>1. PICK h : Upto(h, k - 1)
      BY <1>2
    <2> DEFINE g == [i \in 0..n |-> IF i = k THEN h[k - 1] + v[k] ELSE h[i]]
    <2>2. h[k - 1] \in Nat /\ v[k] \in Nat
      BY <2>1
    <2>3. g \in [0..n -> Nat] /\ g[0] = 0
      BY <2>1, <2>2
    <2>4. ASSUME NEW i \in 1..k PROVE g[i] = g[i - 1] + v[i]
      <3>1. CASE i = k
        BY <3>1
      <3>2. CASE i # k
        <4>1. i \in 1..k - 1
          BY <3>2
        <4>2. h[i] = h[i - 1] + v[i]
          BY <2>1, <4>1
        <4>3. i - 1 \in 0..n /\ i - 1 # k
          BY <4>1
        <4> QED
          BY <3>2, <4>1, <4>2, <4>3
      <3> QED
        BY <3>1, <3>2
    <2>5. Upto(g, k)
      BY <2>3, <2>4
    <2> HIDE DEF g, Upto
    <2>6. \E f : Upto(f, k)
      BY <2>5
    <2> QED
      BY <2>6
  <1>3. \A k \in 0..n : k \in G
    <2> HIDE DEF G
    <2> QED
      BY <1>1, <1>2, UpTo
  <1>4. PICK h : Upto(h, n)
    BY <1>3
  <1>5. IsTotal(h, v, n)
    BY <1>4 DEF IsTotal
  <1> QED
    BY <1>5

\* Amounts that are nowhere larger have no larger total.
LEMMA TotalMonotone ==
  ASSUME NEW n \in Nat, NEW v \in [1..n -> Nat], NEW w \in [1..n -> Nat],
         NEW g, NEW h, IsTotal(g, v, n), IsTotal(h, w, n),
         \A k \in 1..n : v[k] <= w[k]
  PROVE  g[n] <= h[n]
  <1> DEFINE G == {k \in 0..n : g[k] <= h[k]}
  <1>1. 0 \in G
    BY DEF IsTotal
  <1>2. ASSUME NEW k \in 1..n, k - 1 \in G PROVE k \in G
    <2>1. g[k - 1] \in Nat /\ h[k - 1] \in Nat /\ v[k] \in Nat /\ w[k] \in Nat
      BY DEF IsTotal
    <2>2. g[k] = g[k - 1] + v[k] /\ h[k] = h[k - 1] + w[k]
      BY DEF IsTotal
    <2>3. v[k] <= w[k] /\ g[k - 1] <= h[k - 1]
      BY <1>2
    <2>4. g[k] <= h[k]
      BY <2>1, <2>2, <2>3
    <2> QED
      BY <2>4
  <1>3. \A k \in 0..n : k \in G
    <2> HIDE DEF G
    <2> QED
      BY <1>1, <1>2, UpTo
  <1> QED
    BY <1>3

\* Two lists of amounts agree except perhaps at d.
AgreeBut(v, w, d, n) == \A k \in 1..n : k # d => v[k] = w[k]
\* The total moves by the difference of the amounts at d.
Moves(g, h, v, w, d, n) == g[n] = h[n] - w[d] + v[d]

\* A change of one amount changes the total by as much.
LEMMA TotalChange ==
  ASSUME NEW n \in Nat, NEW v \in [1..n -> Nat], NEW w \in [1..n -> Nat], NEW d \in 1..n,
         NEW g, NEW h, IsTotal(g, v, n), IsTotal(h, w, n),
         AgreeBut(v, w, d, n)
  PROVE  Moves(g, h, v, w, d, n)
  <1> DEFINE G == {k \in 0..n : g[k] = IF k < d THEN h[k] ELSE h[k] - w[d] + v[d]}
  <1>1. 0 \in G
    BY DEF IsTotal
  <1>2. ASSUME NEW k \in 1..n, k - 1 \in G PROVE k \in G
    <2>1. g[k - 1] \in Nat /\ h[k - 1] \in Nat /\ v[k] \in Nat /\ w[k] \in Nat /\ v[d] \in Nat /\ w[d] \in Nat
      <3>1. k - 1 \in 0..n /\ k \in 0..n
        OBVIOUS
      <3>2. g[k - 1] \in Nat /\ h[k - 1] \in Nat
        BY <3>1 DEF IsTotal
      <3> QED
        BY <3>2
    <2>2. g[k] = g[k - 1] + v[k] /\ h[k] = h[k - 1] + w[k]
      BY DEF IsTotal
    <2>3. g[k - 1] = IF k - 1 < d THEN h[k - 1] ELSE h[k - 1] - w[d] + v[d]
      BY <1>2
    <2>4. k # d => v[k] = w[k]
      BY DEF AgreeBut
    <2>5. CASE k < d
      <3>1. g[k - 1] = h[k - 1]
        BY <2>3, <2>5
      <3>2. v[k] = w[k]
        BY <2>4, <2>5
      <3> QED
        BY <2>2, <2>5, <3>1, <3>2
    <2>6. CASE k = d
      <3>1. g[k - 1] = h[k - 1]
        BY <2>3, <2>6
      <3>2. g[k] = h[k] - w[d] + v[d]
        BY <2>1, <2>2, <2>6, <3>1
      <3> QED
        BY <2>6, <3>2
    <2>7. CASE k > d
      <3>1. g[k - 1] = h[k - 1] - w[d] + v[d]
        BY <2>3, <2>7
      <3>2. v[k] = w[k]
        BY <2>4, <2>7
      <3>3. g[k] = h[k] - w[d] + v[d]
        BY <2>1, <2>2, <3>1, <3>2
      <3> QED
        BY <2>7, <3>3
    <2> QED
      BY <2>5, <2>6, <2>7
  <1>3. \A k \in 0..n : k \in G
    <2> HIDE DEF G
    <2> QED
      BY <1>1, <1>2, UpTo
  <1>4. g[n] = h[n] - w[d] + v[d]
    BY <1>3
  <1> QED
    BY <1>4 DEF Moves

\* The element MapThenSumSet takes next.
Pick(s) == CHOOSE x \in s : TRUE
\* e is the sum of w over the subsets of S, in the order in which MapThenSumSet takes them.
IsSum(e, w, S) ==
    e = [s \in SUBSET S |-> IF s = {} THEN 0 ELSE w[Pick(s)] + e[s \ {Pick(s)}]]
\* The amounts of a set, nothing for the others.
Only(w, s) == [d \in DOMAIN w |-> IF d \in s THEN w[d] ELSE 0]

\* Every such sum is the total of the amounts of the set.
LEMMA SumIsTotal ==
  ASSUME NEW n \in Nat, NEW w \in [1..n -> Nat], NEW S \in SUBSET (1..n),
         NEW e, IsSum(e, w, S)
  PROVE  \E h : IsTotal(h, Only(w, S), n) /\ e[S] = h[n]
  <1> DEFINE Good(s) == \E h : IsTotal(h, Only(w, s), n) /\ e[s] = h[n]
             G == {k \in 0..n : \A s \in SUBSET S : Cardinality(s) = k => Good(s)}
  <1>0. /\ \A s \in SUBSET (1..n) : IsFiniteSet(s) /\ Cardinality(s) \in 0..n
        /\ \A s : IsFiniteSet(s) /\ Cardinality(s) = 0 => s = {}
    <2>1. IsFiniteSet(1..n) /\ Cardinality(1..n) = n
      BY FS_Interval
    <2>2. ASSUME NEW s \in SUBSET (1..n)
          PROVE  IsFiniteSet(s) /\ Cardinality(s) \in Nat /\ Cardinality(s) <= n
      <3>1. IsFiniteSet(s) /\ Cardinality(s) <= Cardinality(1..n)
        BY <2>1, FS_Subset
      <3>2. Cardinality(s) \in Nat
        BY <3>1, FS_CardinalityType
      <3> QED
        BY <2>1, <3>1, <3>2
    <2>3. ASSUME NEW s \in SUBSET (1..n)
          PROVE  IsFiniteSet(s) /\ Cardinality(s) \in 0..n
      BY <2>2
    <2>4. \A s : IsFiniteSet(s) /\ Cardinality(s) = 0 => s = {}
      BY FS_EmptySet
    <2> QED
      BY <2>3, <2>4
  <1>t. \A s : Only(w, s) \in [1..n -> Nat]
    BY DEF Only
  <1>1. 0 \in G
    <2>1. e[{}] = 0
      BY DEF IsSum
    <2>2. PICK h : IsTotal(h, Only(w, {}), n)
      BY <1>t, TotalExists
    <2>3. \A k \in 0..n : h[k] = 0
      <3> DEFINE H == {k \in 0..n : h[k] = 0}
      <3>1. 0 \in H /\ \A k \in 1..n : k - 1 \in H => k \in H
        BY <2>2 DEF IsTotal, Only
      <3>2. \A k \in 0..n : k \in H
        <4> HIDE DEF H
        <4> QED
          BY <3>1, UpTo
      <3> QED
        BY <3>2
    <2>4. Good({})
      BY <2>1, <2>2, <2>3
    <2> HIDE DEF Good
    <2>5. ASSUME NEW s \in SUBSET S, Cardinality(s) = 0 PROVE Good(s)
      <3>1. s = {}
        BY <1>0, <2>5
      <3> QED
        BY <2>4, <3>1
    <2> QED
      BY <2>5
  <1>2. ASSUME NEW k \in 1..n, k - 1 \in G PROVE k \in G
    <2> SUFFICES ASSUME NEW s \in SUBSET S, Cardinality(s) = k PROVE Good(s)
      OBVIOUS
    <2>1. s # {}
      BY FS_EmptySet
    <2> DEFINE x == Pick(s)
               t == s \ {x}
    <2>2. x \in s
      BY <2>1 DEF Pick
    <2>3. t \in SUBSET S /\ Cardinality(t) = k - 1
      BY <1>0, <2>2, FS_RemoveElement
    <2>4. e[s] = w[x] + e[t]
      BY <2>1 DEF IsSum
    <2> HIDE DEF x
    <2>5. PICK g : IsTotal(g, Only(w, t), n) /\ e[t] = g[n]
      BY <1>2, <2>3
    <2>6. PICK h : IsTotal(h, Only(w, s), n)
      BY <1>t, TotalExists
    <2>7. h[n] = g[n] - Only(w, t)[x] + Only(w, s)[x]
      <3>1. x \in 1..n /\ \A i \in 1..n : i # x => Only(w, s)[i] = Only(w, t)[i]
        BY <2>2 DEF Only
      <3>2. Only(w, s) \in [1..n -> Nat] /\ Only(w, t) \in [1..n -> Nat]
        BY <1>t
      <3>3. IsTotal(g, Only(w, t), n)
        BY <2>5
      <3> HIDE DEF t
      <3>4. PICK a : a = Only(w, s)
        OBVIOUS
      <3>5. PICK b : b = Only(w, t)
        OBVIOUS
      <3>6. /\ x \in 1..n /\ a \in [1..n -> Nat] /\ b \in [1..n -> Nat]
            /\ IsTotal(h, a, n) /\ IsTotal(g, b, n)
            /\ AgreeBut(a, b, x, n)
        BY <2>6, <3>1, <3>2, <3>3, <3>4, <3>5 DEF AgreeBut
      <3>7. h[n] = g[n] - b[x] + a[x]
        <4>1. Moves(h, g, a, b, x, n)
          BY <3>6, TotalChange
        <4> QED
          BY <4>1 DEF Moves
      <3> QED
        BY <3>4, <3>5, <3>7
    <2>8. Only(w, t)[x] = 0 /\ Only(w, s)[x] = w[x] /\ w[x] \in Nat
      BY <2>2 DEF Only
    <2>9. g[n] \in Nat
      BY <2>5 DEF IsTotal
    <2> QED
      BY <2>4, <2>5, <2>6, <2>7, <2>8, <2>9
  <1>3. \A k \in 0..n : k \in G
    <2> HIDE DEF G
    <2> QED
      BY <1>1, <1>2, UpTo
  <1> HIDE DEF Good
  <1>4. Good(S)
    BY <1>0, <1>3
  <1> QED
    BY <1>4 DEF Good

\* And there is such a sum.
LEMMA SumExists ==
  ASSUME NEW n \in Nat, NEW w \in [1..n -> Nat], NEW S \in SUBSET (1..n)
  PROVE  \E e : IsSum(e, w, S)
  <1> DEFINE tot == [s \in SUBSET S |-> CHOOSE h : IsTotal(h, Only(w, s), n)]
             e == [s \in SUBSET S |-> tot[s][n]]
  <1>t. \A s : Only(w, s) \in [1..n -> Nat]
    BY DEF Only
  <1>1. \A s \in SUBSET S : IsTotal(tot[s], Only(w, s), n)
    BY <1>t, TotalExists
  <1>2. ASSUME NEW s \in SUBSET S
        PROVE  e[s] = IF s = {} THEN 0 ELSE w[Pick(s)] + e[s \ {Pick(s)}]
    <2> HIDE DEF tot
    <2>0. IsTotal(tot[s], Only(w, s), n) /\ e[s] = tot[s][n]
      BY <1>1
    <2>1. CASE s = {}
      <3> DEFINE H == {k \in 0..n : tot[s][k] = 0}
      <3>1. 0 \in H /\ \A k \in 1..n : k - 1 \in H => k \in H
        BY <2>0, <2>1 DEF IsTotal, Only
      <3>2. \A k \in 0..n : k \in H
        <4> HIDE DEF H
        <4> QED
          BY <3>1, UpTo
      <3> QED
        BY <2>0, <2>1, <3>2
    <2>2. CASE s # {}
      <3> DEFINE x == Pick(s)
                 t == s \ {x}
      <3>1. x \in s
        BY <2>2 DEF Pick
      <3> HIDE DEF x
      <3>2. IsTotal(tot[t], Only(w, t), n) /\ e[t] = tot[t][n] /\ tot[t][n] \in Nat
        <4>1. t \in SUBSET S
          BY DEF t
        <4> HIDE DEF t
        <4>2. IsTotal(tot[t], Only(w, t), n)
          BY <1>1, <4>1
        <4>3. e[t] = tot[t][n]
          BY <4>1
        <4>4. tot[t][n] \in Nat
          BY <4>2 DEF IsTotal
        <4> QED
          BY <4>2, <4>3, <4>4
      <3>3. x \in 1..n /\ \A i \in 1..n : i # x => Only(w, s)[i] = Only(w, t)[i]
        BY <3>1 DEF Only
      <3>4. Only(w, t)[x] = 0 /\ Only(w, s)[x] = w[x] /\ w[x] \in Nat
        BY <3>1 DEF Only
      <3> HIDE DEF t, e
      <3>5. tot[s][n] = tot[t][n] - Only(w, t)[x] + Only(w, s)[x]
        <4>4. PICK a : a = Only(w, s)
          OBVIOUS
        <4>5. PICK b : b = Only(w, t)
          OBVIOUS
        <4>g. PICK g : g = tot[t]
          OBVIOUS
        <4>h. PICK h : h = tot[s]
          OBVIOUS
        <4>6. /\ x \in 1..n /\ a \in [1..n -> Nat] /\ b \in [1..n -> Nat]
              /\ IsTotal(h, a, n) /\ IsTotal(g, b, n)
              /\ AgreeBut(a, b, x, n)
          BY <1>t, <2>0, <3>2, <3>3, <4>4, <4>5, <4>g, <4>h DEF AgreeBut
        <4>7. h[n] = g[n] - b[x] + a[x]
          <5>1. Moves(h, g, a, b, x, n)
            BY <4>6, TotalChange
          <5> QED
            BY <5>1 DEF Moves
        <4> QED
          BY <4>4, <4>5, <4>g, <4>h, <4>7
      <3>6. e[s] = w[x] + e[t]
        BY <2>0, <3>2, <3>4, <3>5
      <3> QED
        BY <2>2, <3>6 DEF t, x
    <2> QED
      BY <2>1, <2>2
  <1>3. IsSum(e, w, S)
    <2> DEFINE f == [s \in SUBSET S |-> IF s = {} THEN 0 ELSE w[Pick(s)] + e[s \ {Pick(s)}]]
    <2>1. \A s \in SUBSET S : e[s] = f[s]
      <3> HIDE DEF e
      <3> QED
        BY <1>2
    <2>2. e = f
      <3>1. DOMAIN e = SUBSET S /\ e = [s \in SUBSET S |-> e[s]]
        <4> HIDE DEF tot
        <4> QED
          OBVIOUS
      <3>2. f = [s \in SUBSET S |-> f[s]]
        <4> HIDE DEF e
        <4> QED
          OBVIOUS
      <3> HIDE DEF e, f
      <3> QED
        BY <2>1, <3>1, <3>2
    <2> HIDE DEF e
    <2> QED
      BY <2>2 DEF IsSum
  <1> QED
    BY <1>3

-----------------------------------------------------------------------------
(* Order.                                                                    *)

\* The place of c among the elements of S, when R says which goes ahead of which.
PlaceOf(S, R, c) == Cardinality({b \in S : <<b, c>> \in R}) + 1
\* R is a strict total order on S.
IsOrder(R, S) ==
    /\ \A a \in S : <<a, a>> \notin R
    /\ \A a, b \in S : a # b => <<a, b>> \in R \/ <<b, a>> \in R
    /\ \A a, b, c \in S : <<a, b>> \in R /\ <<b, c>> \in R => <<a, c>> \in R

\* In a finite set with a strict total order, every place is taken, by one element only.
LEMMA PlacesAreTaken ==
  ASSUME NEW S, IsFiniteSet(S), NEW R, IsOrder(R, S)
  PROVE  /\ \A c \in S : PlaceOf(S, R, c) \in 1..Cardinality(S)
         /\ \A b, c \in S : <<b, c>> \in R => PlaceOf(S, R, b) < PlaceOf(S, R, c)
         /\ \A b, c \in S : PlaceOf(S, R, b) = PlaceOf(S, R, c) => b = c
         /\ \A k \in 1..Cardinality(S) : \E c \in S : PlaceOf(S, R, c) = k
  <1> DEFINE n == Cardinality(S)
             A(c) == {b \in S : <<b, c>> \in R}
             P == [c \in S |-> PlaceOf(S, R, c)]
  <1>1. n \in Nat
    BY FS_CardinalityType
  <1>2. \A c \in S : IsFiniteSet(A(c)) /\ Cardinality(A(c)) \in Nat
    BY FS_Subset, FS_CardinalityType
  <1>3. \A c \in S : PlaceOf(S, R, c) = Cardinality(A(c)) + 1
    BY DEF PlaceOf
  <1>4. ASSUME NEW b \in S, NEW c \in S, <<b, c>> \in R
        PROVE  Cardinality(A(b)) + 1 <= Cardinality(A(c))
    <2>1. A(b) \cup {b} \in SUBSET A(c) /\ b \notin A(b)
      BY <1>4 DEF IsOrder
    <2>2. Cardinality(A(b) \cup {b}) = Cardinality(A(b)) + 1
      BY <1>2, <2>1, FS_AddElement
    <2>3. Cardinality(A(b) \cup {b}) <= Cardinality(A(c))
      BY <1>2, <2>1, FS_Subset
    <2> HIDE DEF A
    <2> QED
      BY <2>2, <2>3
  <1>5. \A c \in S : PlaceOf(S, R, c) \in 1..n
    <2> SUFFICES ASSUME NEW c \in S PROVE PlaceOf(S, R, c) \in 1..n
      OBVIOUS
    <2>1. A(c) \in SUBSET (S \ {c})
      BY DEF IsOrder
    <2>2. IsFiniteSet(S \ {c}) /\ Cardinality(S \ {c}) = n - 1
      BY FS_RemoveElement
    <2>3. PICK X : X = A(c) /\ X \in SUBSET (S \ {c})
      BY <2>1
    <2>4. Cardinality(X) <= Cardinality(S \ {c})
      BY <2>2, <2>3, FS_Subset
    <2>5. Cardinality(A(c)) <= n - 1
      BY <2>2, <2>3, <2>4
    <2> HIDE DEF A, n
    <2> QED
      BY <1>1, <1>2, <1>3, <2>5
  <1> HIDE DEF A
  <1>6. \A b, c \in S : <<b, c>> \in R => PlaceOf(S, R, b) < PlaceOf(S, R, c)
    BY <1>2, <1>3, <1>4
  <1>7. \A b, c \in S : PlaceOf(S, R, b) = PlaceOf(S, R, c) => b = c
    <2> SUFFICES ASSUME NEW b \in S, NEW c \in S, PlaceOf(S, R, b) = PlaceOf(S, R, c), b # c
                 PROVE  FALSE
      OBVIOUS
    <2>1. <<b, c>> \in R \/ <<c, b>> \in R
      BY DEF IsOrder
    <2>2. PICK v \in 1..n : v = PlaceOf(S, R, b) /\ v = PlaceOf(S, R, c)
      BY <1>5
    <2>3. v < v
      BY <1>6, <2>1, <2>2
    <2> HIDE DEF n
    <2> QED
      BY <1>1, <2>3
  <1>8. \A k \in 1..n : \E c \in S : PlaceOf(S, R, c) = k
    <2>1. P \in Injection(S, 1..n)
      BY <1>5, <1>7 DEF Injection, IsInjective
    <2>2. IsFiniteSet(1..n) /\ Cardinality(1..n) = n
      BY <1>1, FS_Interval
    <2>3. P \in Surjection(S, 1..n)
      <3> HIDE DEF P
      <3> QED
        BY <2>1, <2>2, FS_Injection
    <2> QED
      BY <2>3 DEF Surjection
  <1> QED
    BY <1>5, <1>6, <1>7, <1>8

=============================================================================
