--------------------------- MODULE ServicesProofs ----------------------------
(***************************************************************************)
(* Chunking, for segments of any number of paragraphs and sentences of any *)
(* length, any size of a chunk and any overlap: what a split makes of a    *)
(* segment is a covering of it, so no letter of a file is lost between     *)
(* chunks.  And the services together: each of them runs as its own        *)
(* specification says, so its theorems hold in the instance of all.        *)
(***************************************************************************)
EXTENDS MCServices, AccountsProofs, ChatProofs, RetrievalProofs

-----------------------------------------------------------------------------
(* Folds, windows and sums.                                                *)

\* The total of some lengths, one length after the other.
LEMMA TotalFold ==
  ASSUME NEW s \in Seq(Nat)
  PROVE  \E h : /\ h[0] = 0 /\ Total(s) = h[Len(s)]
                /\ h \in [0..Len(s) -> Nat]
                /\ \A k \in 1..Len(s) : h[k] = Plus(h[k - 1], s[k])
  <1> DEFINE n == Len(s)
             T == Nat
             g == [p \in T \X (1..n) |-> Plus(p[1], s[p[2]])]
             Equation(f) == f = [r \in SUBSET (1..n) |->
                              IF r = {} THEN 0 ELSE Plus(f[r \ {Max(r)}], s[Max(r)])]
  <1>0. n \in Nat /\ DOMAIN s = 1..n
    OBVIOUS
  <1>b. 0 \in T
    OBVIOUS
  <1>1. g \in [T \X (1..n) -> T]
    <2>1. \A a \in T, i \in 1..n : Plus(a, s[i]) \in T
      BY DEF Plus
    <2> QED
      BY <2>1
  <1>2. PICK f \in [SUBSET (1..n) -> T] : IsFold(f, g, 0, n)
    <2> HIDE DEF g, n, T
    <2> QED
      BY <1>0, <1>1, <1>b, FoldExists
  <1>3. Equation(f)
    <2>1. ASSUME NEW r \in SUBSET (1..n)
          PROVE  f[r] = IF r = {} THEN 0 ELSE Plus(f[r \ {Max(r)}], s[Max(r)])
      <3>1. CASE r = {}
        BY <1>2, <3>1 DEF IsFold
      <3>2. CASE r # {}
        <4>1. Max(r) \in r /\ Max(r) \in 1..n
          BY <1>0, <3>2, NatMax
        <4>2. f[r] = g[<<f[r \ {Max(r)}], Max(r)>>]
          BY <1>2, <3>2 DEF IsFold
        <4>3. f[r \ {Max(r)}] \in T
          BY <1>2
        <4> HIDE DEF T, n
        <4> QED
          BY <3>2, <4>1, <4>2, <4>3
      <3> QED
        BY <3>1, <3>2
    <2> QED
      BY <2>1
  <1>4. PICK e : Equation(e) /\ Total(s) = e[1..n]
    BY <1>0, <1>3 DEF Total, FoldLeft, MapThenFoldSet
  <1>5. Folds(e, T, g, 0, n)
    <2>1. \A r \in SUBSET (1..n) :
             e[r] = IF r = {} THEN 0 ELSE Plus(e[r \ {Max(r)}], s[Max(r)])
      BY <1>4
    <2>2. ASSUME NEW r \in SUBSET (1..n), r # {}, e[r \ {Max(r)}] \in T
          PROVE  e[r] = g[<<e[r \ {Max(r)}], Max(r)>>]
      <3>1. Max(r) \in 1..n
        BY <1>0, <2>2, NatMax
      <3>2. e[r] = Plus(e[r \ {Max(r)}], s[Max(r)])
        BY <2>1, <2>2
      <3> HIDE DEF T, n
      <3> QED
        BY <2>2, <3>1, <3>2
    <2>3. e[{}] = 0
      BY <2>1
    <2> HIDE DEF g, T, n
    <2> QED
      BY <2>2, <2>3 DEF Folds
  <1>6. PICK h : IsChain(h, e, T, g, 0, n)
    <2> HIDE DEF g, T, n
    <2> QED
      BY <1>0, <1>1, <1>5, <1>b, FoldChain
  <1>7. ASSUME NEW k \in 1..n PROVE h[k] = Plus(h[k - 1], s[k])
    <2>0. k - 1 \in 0..n
      BY <1>0
    <2>1. h[k - 1] \in T
      BY <1>6, <2>0 DEF IsChain
    <2> HIDE DEF T, n
    <2> QED
      BY <1>6, <2>1 DEF IsChain
  <1>8. h[0] = 0 /\ h[n] = e[1..n] /\ h \in [0..n -> T]
    BY <1>6 DEF IsChain
  <1> QED
    BY <1>4, <1>7, <1>8

\* A list of lists end to end, one list after the other.
LEMMA FlatFold ==
  ASSUME NEW S, NEW s \in Seq(Seq(S))
  PROVE  \E h : /\ h[0] = <<>> /\ Flat(s) = h[Len(s)]
                /\ h \in [0..Len(s) -> Seq(S)]
                /\ \A k \in 1..Len(s) : h[k] = Attach(h[k - 1], s[k])
  <1> DEFINE n == Len(s)
             T == Seq(S)
             g == [p \in T \X (1..n) |-> Attach(p[1], s[p[2]])]
             Equation(f) == f = [r \in SUBSET (1..n) |->
                              IF r = {} THEN <<>> ELSE Attach(f[r \ {Max(r)}], s[Max(r)])]
  <1>0. n \in Nat /\ DOMAIN s = 1..n
    OBVIOUS
  <1>b. <<>> \in T
    OBVIOUS
  <1>1. g \in [T \X (1..n) -> T]
    <2>1. \A a \in T, i \in 1..n : Attach(a, s[i]) \in T
      BY DEF Attach
    <2> QED
      BY <2>1
  <1>2. PICK f \in [SUBSET (1..n) -> T] : IsFold(f, g, <<>>, n)
    <2> HIDE DEF g, n, T
    <2> QED
      BY <1>0, <1>1, <1>b, FoldExists
  <1>3. Equation(f)
    <2>1. ASSUME NEW r \in SUBSET (1..n)
          PROVE  f[r] = IF r = {} THEN <<>> ELSE Attach(f[r \ {Max(r)}], s[Max(r)])
      <3>1. CASE r = {}
        BY <1>2, <3>1 DEF IsFold
      <3>2. CASE r # {}
        <4>1. Max(r) \in r /\ Max(r) \in 1..n
          BY <1>0, <3>2, NatMax
        <4>2. f[r] = g[<<f[r \ {Max(r)}], Max(r)>>]
          BY <1>2, <3>2 DEF IsFold
        <4>3. f[r \ {Max(r)}] \in T
          BY <1>2
        <4> HIDE DEF T, n
        <4> QED
          BY <3>2, <4>1, <4>2, <4>3
      <3> QED
        BY <3>1, <3>2
    <2> QED
      BY <2>1
  <1>4. PICK e : Equation(e) /\ Flat(s) = e[1..n]
    BY <1>0, <1>3 DEF Flat, FoldLeft, MapThenFoldSet
  <1>5. Folds(e, T, g, <<>>, n)
    <2>1. \A r \in SUBSET (1..n) :
             e[r] = IF r = {} THEN <<>> ELSE Attach(e[r \ {Max(r)}], s[Max(r)])
      BY <1>4
    <2>2. ASSUME NEW r \in SUBSET (1..n), r # {}, e[r \ {Max(r)}] \in T
          PROVE  e[r] = g[<<e[r \ {Max(r)}], Max(r)>>]
      <3>1. Max(r) \in 1..n
        BY <1>0, <2>2, NatMax
      <3>2. e[r] = Attach(e[r \ {Max(r)}], s[Max(r)])
        BY <2>1, <2>2
      <3> HIDE DEF T, n
      <3> QED
        BY <2>2, <3>1, <3>2
    <2>3. e[{}] = <<>>
      BY <2>1
    <2> HIDE DEF g, T, n
    <2> QED
      BY <2>2, <2>3 DEF Folds
  <1>6. PICK h : IsChain(h, e, T, g, <<>>, n)
    <2> HIDE DEF g, T, n
    <2> QED
      BY <1>0, <1>1, <1>5, <1>b, FoldChain
  <1>7. ASSUME NEW k \in 1..n PROVE h[k] = Attach(h[k - 1], s[k])
    <2>0. k - 1 \in 0..n
      BY <1>0
    <2>1. h[k - 1] \in T
      BY <1>6, <2>0 DEF IsChain
    <2> HIDE DEF T, n
    <2> QED
      BY <1>6, <2>1 DEF IsChain
  <1>8. h[0] = <<>> /\ h[n] = e[1..n] /\ h \in [0..n -> T]
    BY <1>6 DEF IsChain
  <1> QED
    BY <1>4, <1>7, <1>8

\* A larger number of steps is no shorter.
LEMMA Products ==
  ASSUME NEW a \in Nat, NEW b \in Nat, NEW p \in Nat, a <= b
  PROVE  a * p \in Nat /\ b * p \in Nat /\ a * p <= b * p
  <1>1. PICK d \in Nat : b = a + d
    <2>1. b - a \in Nat /\ b = a + (b - a)
      OBVIOUS
    <2> QED
      BY <2>1
  <1>2. b * p = a * p + d * p
    BY <1>1
  <1>3. d * p \in Nat /\ a * p \in Nat
    OBVIOUS
  <1> QED
    BY <1>2, <1>3

\* The number of windows.
LEMMA WindowCount ==
  ASSUME NEW n \in Nat, NEW p \in Nat \ {0}
  PROVE  LET m == (n + p - 1) \div p IN m \in Nat /\ n <= m * p /\ m * p < n + p
  <1>1. PICK t \in Nat : t = n + p - 1
    OBVIOUS
  <1>2. t \div p \in Nat
    OBVIOUS
  <1>r. t % p \in 0..p - 1
    OBVIOUS
  <1>s. t = p * (t \div p) + (t % p)
    OBVIOUS
  <1>3. PICK m \in Nat, r \in 0..p - 1 : m = t \div p /\ t = p * m + r
    BY <1>2, <1>r, <1>s
  <1>4. p * m = m * p /\ m * p \in Nat
    BY SMTT(30)
  <1>5. PICK q \in Nat : q = m * p /\ t = q + r
    BY <1>3, <1>4
  <1>6. n <= q /\ q < n + p
    BY <1>1, <1>5
  <1> QED
    BY <1>1, <1>3, <1>5, <1>6

\* a and z are the places where the windows of a text start and end.
Cuts(w, piece, lap, m, a, z) ==
    /\ w = [i \in 1..m |-> SubSeq(piece, a[i], z[i])]
    /\ a \in [1..m -> Nat] /\ z \in [1..m -> Nat]
    /\ m > 0 => a[1] = 1 /\ z[m] = Len(piece)
    /\ \A i \in 1..m : /\ 1 <= a[i] /\ a[i] <= z[i] /\ z[i] <= Len(piece)
                       /\ z[i] = a[i] + ChunkSize - 1 \/ (z[i] = Len(piece) /\ z[i] <= a[i] + ChunkSize - 1)
    /\ \A i \in 1..m : i < m => /\ a[i + 1] <= z[i] + 1 /\ z[i] <= z[i + 1]
                                /\ lap = 0 => a[i + 1] = z[i] + 1

\* The windows of a text, whatever the overlap: together they leave nothing out, and without
\* an overlap they share nothing.
LEMMA WindowsOfText ==
  ASSUME NEW piece \in Seq(Nat), NEW lap \in 0..ChunkSize - 1
  PROVE  \E m \in Nat : \E a, z : Cuts(FixedSplit(piece, lap), piece, lap, m, a, z) /\ (m = 0) = (piece = <<>>)
  <1>1. PICK c \in Nat \ {0} : c = ChunkSize
    BY ChunkingConstants DEF ChunkingConstants
  <1>2. PICK p \in Nat \ {0} : p = c - lap /\ p <= c
    <2>1. c - lap \in Nat \ {0} /\ c - lap <= c
      BY <1>1
    <2> QED
      BY <2>1
  <1>3. PICK n \in Nat : n = Len(piece)
    OBVIOUS
  <1>4. PICK m \in Nat : m = (n + p - 1) \div p /\ n <= m * p /\ m * p < n + p
    BY WindowCount
  <1> DEFINE q == [i \in 0..m |-> i * p]
             a == [i \in 1..m |-> q[i - 1] + 1]
             z == [i \in 1..m |-> IF q[i - 1] + c < n THEN q[i - 1] + c ELSE n]
  <1>5. q \in [0..m -> Nat] /\ q[0] = 0 /\ n <= q[m] /\ q[m] < n + p
    <2>1. \A i \in 0..m : i * p \in Nat
      BY <1>1, Products
    <2> QED
      BY <1>4, <2>1
  <1>6. \A i \in 1..m : q[i] = q[i - 1] + p
    <2> SUFFICES ASSUME NEW i \in 1..m PROVE q[i] = q[i - 1] + p
      OBVIOUS
    <2>1. i * p = (i - 1) * p + p
      OBVIOUS
    <2>2. i \in 0..m /\ i - 1 \in 0..m
      OBVIOUS
    <2> QED
      BY <2>1, <2>2
  <1>7. \A i \in 0..m : q[i] <= q[m]
    BY Products
  <1>8. FixedSplit(piece, lap) = [i \in 1..m |-> SubSeq(piece, a[i], z[i])]
    <2>1. FixedSplit(piece, lap) =
            [i \in 1..((n + p - 1) \div p) |->
               SubSeq(piece, (i - 1) * p + 1, IF (i - 1) * p + c < n THEN (i - 1) * p + c ELSE n)]
      BY <1>1, <1>2, <1>3 DEF FixedSplit
    <2>2. \A i \in 1..m : a[i] = (i - 1) * p + 1 /\ z[i] = IF (i - 1) * p + c < n THEN (i - 1) * p + c ELSE n
      OBVIOUS
    <2> HIDE DEF a, z
    <2> QED
      BY <1>4, <2>1, <2>2
  <1> HIDE DEF q
  <1>9. \A i \in 1..m : q[i - 1] \in Nat /\ q[i - 1] < n
    <2> SUFFICES ASSUME NEW i \in 1..m PROVE q[i - 1] \in Nat /\ q[i - 1] < n
      OBVIOUS
    <2>1. q[i] <= q[m] /\ q[i] \in Nat /\ q[i - 1] \in Nat /\ q[m] \in Nat
      BY <1>5, <1>7
    <2>2. q[i] = q[i - 1] + p
      BY <1>6
    <2> QED
      BY <1>5, <2>1, <2>2
  <1>10. a \in [1..m -> Nat] /\ z \in [1..m -> Nat]
    BY <1>1, <1>9
  <1>11. ASSUME m > 0 PROVE a[1] = 1 /\ z[m] = n
    <2>1. 1 \in 1..m /\ m \in 1..m
      BY <1>11
    <2>2. q[m] = q[m - 1] + p /\ q[m - 1] \in Nat /\ q[m] \in Nat
      BY <1>5, <1>6, <1>9, <2>1
    <2>3. ~(q[m - 1] + c < n)
      BY <1>1, <1>2, <1>5, <2>2
    <2>4. z[m] = n
      BY <2>1, <2>3
    <2>5. a[1] = 1
      BY <1>5, <2>1
    <2> QED
      BY <2>4, <2>5
  <1>12. ASSUME NEW i \in 1..m
         PROVE  /\ 1 <= a[i] /\ a[i] <= z[i] /\ z[i] <= n
                /\ z[i] = a[i] + c - 1 \/ (z[i] = n /\ z[i] <= a[i] + c - 1)
    BY <1>1, <1>9
  <1>13. ASSUME NEW i \in 1..m, i < m
         PROVE  a[i + 1] <= z[i] + 1 /\ z[i] <= z[i + 1] /\ (lap = 0 => a[i + 1] = z[i] + 1)
    <2>1. i + 1 \in 1..m /\ (i + 1) - 1 = i
      BY <1>13
    <2>2. q[i] = q[i - 1] + p /\ q[i - 1] \in Nat /\ q[i] \in Nat /\ q[i] < n
      BY <1>6, <1>9, <2>1
    <2>3. a[i + 1] = q[i] + 1 /\ z[i + 1] = IF q[i] + c < n THEN q[i] + c ELSE n
      BY <2>1
    <2>4. z[i] = IF q[i - 1] + c < n THEN q[i - 1] + c ELSE n
      OBVIOUS
    <2>5. lap = 0 => p = c
      BY <1>1, <1>2
    <2> HIDE DEF a, z
    <2>6. PICK u \in Nat, v \in Nat : u = q[i - 1] /\ v = q[i] /\ v = u + p /\ v < n
      BY <2>2
    <2>7. z[i] = IF u + c < n THEN u + c ELSE n
      BY <2>4, <2>6
    <2>8. a[i + 1] = v + 1 /\ z[i + 1] = IF v + c < n THEN v + c ELSE n
      BY <2>3, <2>6
    <2>x. PICK x \in Nat : x = z[i] /\ ((x = u + c /\ u + c < n) \/ (x = n /\ u + c >= n))
      <3>1. CASE u + c < n
        BY <1>1, <2>6, <2>7, <3>1
      <3>2. CASE ~(u + c < n)
        <4>1. z[i] = n /\ u + c >= n
          BY <1>1, <2>6, <2>7, <3>2
        <4> QED
          BY <4>1
      <3> QED
        BY <3>1, <3>2
    <2>u. u <= v
      BY <1>2, <2>6
    <2>w. x <= n /\ x <= u + c
      <3>1. CASE x = u + c /\ u + c < n
        BY <1>1, <2>6, <3>1
      <3>2. CASE x = n /\ u + c >= n
        BY <1>1, <2>6, <3>2
      <3> QED
        BY <2>x, <3>1, <3>2
    <2>y. z[i + 1] \in Nat /\ (z[i + 1] = v + c \/ z[i + 1] = n)
      <3>1. CASE v + c < n
        BY <2>8, <3>1
      <3>2. CASE ~(v + c < n)
        BY <2>8, <3>2
      <3> QED
        BY <3>1, <3>2
    <2>9. a[i + 1] <= z[i] + 1
      <3>1. v <= x
        <4>1. CASE x = u + c
          BY <1>1, <1>2, <2>6, <4>1
        <4>2. CASE x = n
          BY <2>6, <4>2
        <4> QED
          BY <2>x, <4>1, <4>2
      <3> QED
        BY <2>8, <2>x, <3>1
    <2>10. z[i] <= z[i + 1]
      <3>1. CASE z[i + 1] = n
        BY <2>w, <2>x, <3>1
      <3>2. CASE z[i + 1] = v + c
        <4>1. x <= v + c
          <5>1. x <= u + c /\ u + c <= v + c
            <6>1. u + c <= v + c
              BY <1>1, <2>6, <2>u
            <6> QED
              BY <2>w, <6>1
          <5> QED
            BY <1>1, <2>6, <5>1
        <4> QED
          BY <2>x, <3>2, <4>1
      <3> QED
        BY <2>y, <3>1, <3>2
    <2>11. lap = 0 => a[i + 1] = z[i] + 1
      <3> SUFFICES ASSUME lap = 0 PROVE a[i + 1] = z[i] + 1
        OBVIOUS
      <3>1. x = u + c
        BY <1>1, <2>5, <2>6, <2>x
      <3> QED
        BY <2>5, <2>6, <2>8, <2>x, <3>1
    <2> QED
      BY <2>9, <2>10, <2>11
  <1> HIDE DEF a, z
  <1>14. (m = 0) = (piece = <<>>)
    <2>1. (n = 0) = (piece = <<>>)
      BY <1>3
    <2>2. n = 0 => m = 0
      <3> SUFFICES ASSUME n = 0, m # 0 PROVE FALSE
        OBVIOUS
      <3>1. m \in 1..m
        OBVIOUS
      <3> QED
        BY <1>9, <3>1
    <2>3. m = 0 => n = 0
      BY <1>5
    <2> QED
      BY <2>1, <2>2, <2>3
  <1>15. Cuts(FixedSplit(piece, lap), piece, lap, m, a, z)
    BY <1>1, <1>3, <1>8, <1>10, <1>11, <1>12, <1>13 DEF Cuts
  <1> QED
    BY <1>14, <1>15

\* The sums before each place are those of the running total.
LEMMA RunningTotal ==
  ASSUME NEW s \in Seq(Nat)
  PROVE  \E h : /\ IsTotal(h, s, Len(s)) /\ Total(s) = h[Len(s)]
                /\ \A i \in 1..Len(s) + 1 : Before(s, i) = h[i - 1]
  <1>0. PICK n \in Nat : n = Len(s)
    OBVIOUS
  <1>1. PICK h : /\ h[0] = 0 /\ Total(s) = h[n] /\ h \in [0..n -> Nat]
                 /\ \A k \in 1..n : h[k] = Plus(h[k - 1], s[k])
    BY <1>0, TotalFold
  <1>2. \A k \in 1..n : h[k] = h[k - 1] + s[k]
    BY <1>1 DEF Plus
  <1>3. ASSUME NEW i \in 1..n + 1 PROVE Before(s, i) = h[i - 1]
    <2>1. PICK m \in Nat : m = i - 1 /\ m <= n
      <3>1. i - 1 \in Nat /\ i - 1 <= n
        OBVIOUS
      <3> QED
        BY <3>1
    <2>2. \A k \in 1..m : k \in 1..n /\ s[k] \in Nat
      BY <1>0, <2>1
    <2>3. PICK t \in Seq(Nat) : t = SubSeq(s, 1, m) /\ Len(t) = m /\ \A k \in 1..m : t[k] = s[k]
      <3>1. 1 \in Int /\ m \in Int
        OBVIOUS
      <3>2. /\ SubSeq(s, 1, m) \in Seq(Nat) /\ Len(SubSeq(s, 1, m)) = IF 1 <= m THEN m - 1 + 1 ELSE 0
            /\ \A k \in 1..m - 1 + 1 : SubSeq(s, 1, m)[k] = s[1 + k - 1]
        BY <2>2, <3>1, SubSeqProperties
      <3>3. Len(SubSeq(s, 1, m)) = m /\ \A k \in 1..m : SubSeq(s, 1, m)[k] = s[k]
        BY <3>2
      <3> QED
        BY <3>2, <3>3
    <2>4. PICK g : /\ g[0] = 0 /\ Total(t) = g[m] /\ \A k \in 1..m : g[k] = Plus(g[k - 1], t[k])
      <3>1. \E g : /\ g[0] = 0 /\ Total(t) = g[Len(t)]
                   /\ \A k \in 1..Len(t) : g[k] = Plus(g[k - 1], t[k])
        BY <2>3, TotalFold
      <3> QED
        BY <2>3, <3>1
    <2> DEFINE G == {k \in 0..m : g[k] = h[k]}
    <2>5. 0 \in G
      BY <1>1, <2>4
    <2>6. ASSUME NEW k \in 1..m, k - 1 \in G PROVE k \in G
      <3>1. k \in 1..n /\ t[k] = s[k] /\ g[k - 1] = h[k - 1]
        BY <2>2, <2>3, <2>6
      <3> QED
        BY <1>1, <2>4, <3>1
    <2>7. \A k \in 0..m : k \in G
      <3> HIDE DEF G
      <3> QED
        BY <2>5, <2>6, UpTo
    <2>8. g[m] = h[m]
      BY <2>7
    <2> QED
      BY <2>1, <2>3, <2>4, <2>8 DEF Before
  <1>4. IsTotal(h, s, n)
    BY <1>1, <1>2 DEF IsTotal
  <1> QED
    BY <1>0, <1>1, <1>3, <1>4

\* What comes before a place, and what comes before the next one.
LEMMA SumsBefore ==
  ASSUME NEW s \in Seq(Nat)
  PROVE  /\ Before(s, 1) = 0 /\ Before(s, Len(s) + 1) = Total(s) /\ Total(s) \in Nat
         /\ \A i \in 1..Len(s) : Before(s, i) \in Nat /\ Before(s, i + 1) = Before(s, i) + s[i]
  <1>0. PICK n \in Nat : n = Len(s)
    OBVIOUS
  <1>1. PICK h : IsTotal(h, s, n) /\ Total(s) = h[n] /\ \A i \in 1..n + 1 : Before(s, i) = h[i - 1]
    BY <1>0, RunningTotal
  <1>2. h \in [0..n -> Nat] /\ h[0] = 0 /\ \A k \in 1..n : h[k] = h[k - 1] + s[k]
    BY <1>1 DEF IsTotal
  <1>3. Before(s, 1) = 0 /\ Before(s, n + 1) = Total(s) /\ Total(s) \in Nat
    <2>1. 1 \in 1..n + 1 /\ n + 1 \in 1..n + 1 /\ 1 - 1 = 0 /\ (n + 1) - 1 = n /\ n \in 0..n
      OBVIOUS
    <2> QED
      BY <1>1, <1>2, <2>1
  <1>4. ASSUME NEW i \in 1..n PROVE Before(s, i) \in Nat /\ Before(s, i + 1) = Before(s, i) + s[i]
    <2>1. i \in 1..n + 1 /\ i + 1 \in 1..n + 1 /\ (i + 1) - 1 = i /\ i - 1 \in 0..n
      OBVIOUS
    <2> QED
      BY <1>1, <1>2, <2>1
  <1> QED
    BY <1>0, <1>3, <1>4

-----------------------------------------------------------------------------
(* Texts: pieces of the segment with line breaks.                            *)

\* p[k] is the last letter among the first k places of t, which go on where lo ends.
Marks(p, t, lo, hi) ==
    /\ t \in Seq(Nat) /\ lo \in Nat /\ hi \in Nat
    /\ p \in [0..Len(t) -> Nat] /\ p[0] = lo /\ p[Len(t)] = hi
    /\ \A k \in 1..Len(t) : \/ t[k] = 0 /\ p[k] = p[k - 1]
                            \/ t[k] = p[k - 1] + 1 /\ p[k] = t[k]
\* t holds the letters lo + 1, ..., hi in order, and line breaks.
Spans(t, lo, hi) == \E p : Marks(p, t, lo, hi)

\* The letters only go up.
LEMMA MarksGrow ==
  ASSUME NEW p, NEW t, NEW lo, NEW hi, Marks(p, t, lo, hi)
  PROVE  /\ \A i, j \in 0..Len(t) : i <= j => p[i] <= p[j]
         /\ \A k \in 1..Len(t) : t[k] # 0 => p[k - 1] < p[k] /\ p[k] = t[k]
         /\ \A k \in 1..Len(t) : p[k - 1] <= p[k] /\ p[k] <= p[k - 1] + 1
  <1>0. PICK n \in Nat : n = Len(t)
    BY DEF Marks
  <1>1. /\ p \in [0..n -> Nat]
        /\ \A k \in 1..n : (t[k] = 0 /\ p[k] = p[k - 1]) \/ (t[k] = p[k - 1] + 1 /\ p[k] = t[k])
    BY <1>0 DEF Marks
  <1>2. ASSUME NEW k \in 1..n
        PROVE  /\ p[k - 1] <= p[k] /\ p[k] <= p[k - 1] + 1
               /\ t[k] # 0 => p[k - 1] < p[k] /\ p[k] = t[k]
    <2>1. PICK x \in Nat, y \in Nat : x = p[k - 1] /\ y = p[k]
      BY <1>1
    <2>2. (t[k] = 0 /\ y = x) \/ (t[k] = x + 1 /\ y = t[k])
      BY <1>1, <2>1
    <2> QED
      BY <2>1, <2>2
  <1>3. ASSUME NEW j \in 0..n PROVE \A i \in 0..j : p[i] <= p[j]
    <2> DEFINE G == {k \in 0..j : \A i \in 0..k : p[i] <= p[k]}
    <2>1. 0 \in G
      BY <1>1
    <2>2. ASSUME NEW k \in 1..j, k - 1 \in G PROVE k \in G
      <3>1. k \in 1..n /\ p[k - 1] <= p[k] /\ p[k] \in Nat /\ p[k - 1] \in Nat
        BY <1>1, <1>2
      <3>2. ASSUME NEW i \in 0..k PROVE p[i] <= p[k]
        <4>1. CASE i = k
          BY <3>1, <4>1
        <4>2. CASE i # k
          <5>1. i \in 0..k - 1 /\ p[i] \in Nat
            BY <1>1, <4>2
          <5>2. p[i] <= p[k - 1]
            BY <2>2, <5>1
          <5> QED
            BY <3>1, <5>1, <5>2
        <4> QED
          BY <4>1, <4>2
      <3> QED
        BY <3>2
    <2>3. \A k \in 0..j : k \in G
      <3> HIDE DEF G
      <3> QED
        BY <2>1, <2>2, UpTo
    <2> QED
      BY <2>3
  <1>4. \A i, j \in 0..n : i <= j => p[i] <= p[j]
    <2> SUFFICES ASSUME NEW i \in 0..n, NEW j \in 0..n, i <= j PROVE p[i] <= p[j]
      OBVIOUS
    <2>1. i \in 0..j
      OBVIOUS
    <2> QED
      BY <1>3, <2>1
  <1> QED
    BY <1>0, <1>2, <1>4

\* A cut out of a text.
LEMMA SpansCut ==
  ASSUME NEW p, NEW t, NEW lo, NEW hi, Marks(p, t, lo, hi),
         NEW a \in Nat, NEW z \in Nat, 1 <= a, a <= z, z <= Len(t)
  PROVE  /\ SubSeq(t, a, z) \in Seq(Nat) /\ Len(SubSeq(t, a, z)) = z - a + 1
         /\ Spans(SubSeq(t, a, z), p[a - 1], p[z]) /\ p[a - 1] <= p[z]
         /\ (\E k \in a..z : t[k] # 0) => p[a - 1] < p[z]
  <1>0. PICK n \in Nat : n = Len(t) /\ t \in Seq(Nat)
    BY DEF Marks
  <1>1. /\ p \in [0..n -> Nat]
        /\ \A k \in 1..n : (t[k] = 0 /\ p[k] = p[k - 1]) \/ (t[k] = p[k - 1] + 1 /\ p[k] = t[k])
    BY <1>0 DEF Marks
  <1>2. PICK m \in Nat : m = z - a + 1
    OBVIOUS
  <1>3. PICK u \in Seq(Nat) : u = SubSeq(t, a, z) /\ Len(u) = m /\ \A k \in 1..m : u[k] = t[a - 1 + k]
    <2>1. \A i \in a..z : t[i] \in Nat
      BY <1>0
    <2>2. /\ SubSeq(t, a, z) \in Seq(Nat) /\ Len(SubSeq(t, a, z)) = IF a <= z THEN z - a + 1 ELSE 0
          /\ \A k \in 1..z - a + 1 : SubSeq(t, a, z)[k] = t[a + k - 1]
      BY <2>1, SubSeqProperties
    <2>3. \A k \in 1..m : a + k - 1 = a - 1 + k
      OBVIOUS
    <2> QED
      BY <1>2, <2>2, <2>3
  <1> DEFINE q == [k \in 0..m |-> p[a - 1 + k]]
  <1>4. q \in [0..m -> Nat] /\ q[0] = p[a - 1] /\ q[m] = p[z] /\ p[a - 1] \in Nat /\ p[z] \in Nat
    <2>1. \A k \in 0..m : a - 1 + k \in 0..n
      BY <1>0, <1>2
    <2>2. a - 1 + 0 = a - 1 /\ a - 1 + m = z /\ 0 \in 0..m /\ m \in 0..m
      BY <1>2
    <2> QED
      BY <1>1, <2>1, <2>2
  <1>5. \A k \in 1..m : (u[k] = 0 /\ q[k] = q[k - 1]) \/ (u[k] = q[k - 1] + 1 /\ q[k] = u[k])
    <2> SUFFICES ASSUME NEW k \in 1..m PROVE (u[k] = 0 /\ q[k] = q[k - 1]) \/ (u[k] = q[k - 1] + 1 /\ q[k] = u[k])
      OBVIOUS
    <2>1. PICK j \in 1..n : j = a - 1 + k /\ j - 1 = a - 1 + (k - 1)
      <3>1. a - 1 + k \in 1..n /\ (a - 1 + k) - 1 = a - 1 + (k - 1)
        BY <1>0, <1>2
      <3> QED
        BY <3>1
    <2>2. q[k] = p[j] /\ q[k - 1] = p[j - 1] /\ u[k] = t[j]
      BY <1>3, <2>1
    <2> QED
      BY <1>1, <2>2
  <1> HIDE DEF q
  <1>6. Spans(u, p[a - 1], p[z])
    <2>1. Marks(q, u, p[a - 1], p[z])
      BY <1>3, <1>4, <1>5 DEF Marks
    <2> QED
      BY <2>1 DEF Spans
  <1>7. p[a - 1] <= p[z]
    <2>1. a - 1 \in 0..n /\ z \in 0..n /\ a - 1 <= z
      BY <1>0
    <2> QED
      BY <1>0, <2>1, MarksGrow
  <1>8. ASSUME NEW k \in a..z, t[k] # 0 PROVE p[a - 1] < p[z]
    <2>1. k \in 1..n /\ a - 1 \in 0..n /\ k - 1 \in 0..n /\ z \in 0..n /\ k \in 0..n /\ a - 1 <= k - 1 /\ k <= z
      BY <1>0
    <2>2. p[a - 1] <= p[k - 1] /\ p[k - 1] < p[k] /\ p[k] <= p[z]
      BY <1>0, <1>8, <2>1, MarksGrow
    <2>3. PICK w \in Nat, x \in Nat, y \in Nat, v \in Nat : w = p[a - 1] /\ x = p[k - 1] /\ y = p[k] /\ v = p[z]
      BY <1>1, <2>1
    <2>4. w < v
      BY <2>2, <2>3
    <2> QED
      BY <2>3, <2>4
  <1> QED
    BY <1>2, <1>3, <1>6, <1>7, <1>8

\* Two texts of which the second goes on where the first ends.
LEMMA SpansConcat ==
  ASSUME NEW s, NEW t, NEW lo, NEW mid, NEW hi, Spans(s, lo, mid), Spans(t, mid, hi)
  PROVE  Spans(s \o t, lo, hi)
  <1>1. PICK p : Marks(p, s, lo, mid)
    BY DEF Spans
  <1>2. PICK q : Marks(q, t, mid, hi)
    BY DEF Spans
  <1>3. PICK m \in Nat, n \in Nat : m = Len(s) /\ n = Len(t) /\ s \in Seq(Nat) /\ t \in Seq(Nat)
    BY <1>1, <1>2 DEF Marks
  <1>4. /\ p \in [0..m -> Nat] /\ p[0] = lo /\ p[m] = mid
        /\ \A k \in 1..m : (s[k] = 0 /\ p[k] = p[k - 1]) \/ (s[k] = p[k - 1] + 1 /\ p[k] = s[k])
        /\ q \in [0..n -> Nat] /\ q[0] = mid /\ q[n] = hi
        /\ \A k \in 1..n : (t[k] = 0 /\ q[k] = q[k - 1]) \/ (t[k] = q[k - 1] + 1 /\ q[k] = t[k])
        /\ lo \in Nat /\ hi \in Nat
    BY <1>1, <1>2, <1>3 DEF Marks
  <1>5. PICK u \in Seq(Nat) : u = s \o t /\ Len(u) = m + n
                              /\ \A k \in 1..m + n : u[k] = IF k <= m THEN s[k] ELSE t[k - m]
    <2>1. /\ s \o t \in Seq(Nat) /\ Len(s \o t) = Len(s) + Len(t)
          /\ \A k \in 1..Len(s) + Len(t) : (s \o t)[k] = IF k <= Len(s) THEN s[k] ELSE t[k - Len(s)]
      BY <1>3, ConcatProperties
    <2> QED
      BY <1>3, <2>1
  <1> DEFINE r == [k \in 0..m + n |-> IF k <= m THEN p[k] ELSE q[k - m]]
  <1>6. r \in [0..m + n -> Nat] /\ r[0] = lo /\ r[m + n] = hi
    <2>1. \A k \in 0..m + n : k <= m => k \in 0..m
      OBVIOUS
    <2>2. \A k \in 0..m + n : ~(k <= m) => k - m \in 0..n
      OBVIOUS
    <2>3. r[m + n] = hi
      <3>1. CASE n = 0
        BY <1>4, <3>1
      <3>2. CASE n # 0
        <4>1. ~(m + n <= m) /\ (m + n) - m = n /\ m + n \in 0..m + n
          BY <3>2
        <4> QED
          BY <1>4, <4>1
      <3> QED
        BY <3>1, <3>2
    <2>4. 0 \in 0..m + n /\ 0 <= m
      OBVIOUS
    <2> QED
      BY <1>4, <2>1, <2>2, <2>3, <2>4
  <1>7. ASSUME NEW k \in 1..m + n
        PROVE  (u[k] = 0 /\ r[k] = r[k - 1]) \/ (u[k] = r[k - 1] + 1 /\ r[k] = u[k])
    <2>1. k \in 0..m + n /\ k - 1 \in 0..m + n
      OBVIOUS
    <2>2. CASE k <= m
      <3>1. k - 1 <= m /\ k \in 1..m
        BY <2>2
      <3>2. r[k] = p[k] /\ r[k - 1] = p[k - 1] /\ u[k] = s[k]
        BY <1>5, <2>1, <2>2, <3>1
      <3> QED
        BY <1>4, <3>1, <3>2
    <2>3. CASE ~(k <= m)
      <3>1. PICK j \in 1..n : j = k - m
        <4>1. k - m \in 1..n
          BY <2>3
        <4> QED
          BY <4>1
      <3>2. r[k] = q[j] /\ u[k] = t[j]
        BY <1>5, <2>1, <2>3, <3>1
      <3>3. r[k - 1] = q[j - 1]
        <4>1. CASE j = 1
          <5>1. k - 1 = m /\ k - 1 <= m /\ j - 1 = 0
            BY <3>1, <4>1
          <5> QED
            BY <1>4, <2>1, <5>1
        <4>2. CASE j # 1
          <5>1. ~(k - 1 <= m) /\ (k - 1) - m = j - 1
            BY <3>1, <4>2
          <5> QED
            BY <2>1, <5>1
        <4> QED
          BY <4>1, <4>2
      <3> QED
        BY <1>4, <3>2, <3>3
    <2> QED
      BY <2>2, <2>3
  <1> HIDE DEF r
  <1>8. Marks(r, u, lo, hi)
    BY <1>4, <1>5, <1>6, <1>7 DEF Marks
  <1> QED
    BY <1>5, <1>8 DEF Spans

\* A text without line breaks.
LEMMA SpansRun ==
  ASSUME NEW lo \in Nat, NEW n \in Nat
  PROVE  /\ Run(lo + 1, n) \in Seq(Nat) /\ Len(Run(lo + 1, n)) = n
         /\ Spans(Run(lo + 1, n), lo, lo + n) /\ \A k \in 1..n : Run(lo + 1, n)[k] # 0
  <1>1. PICK t : t = Run(lo + 1, n)
    OBVIOUS
  <1>2. t = [k \in 1..n |-> lo + k]
    <2>1. \A k \in 1..n : lo + 1 + k - 1 = lo + k
      OBVIOUS
    <2> QED
      BY <1>1, <2>1 DEF Run
  <1>3. t \in Seq(Nat) /\ Len(t) = n /\ \A k \in 1..n : t[k] = lo + k
    <2>1. \A k \in 1..n : lo + k \in Nat
      OBVIOUS
    <2> QED
      BY <1>2, <2>1
  <1> DEFINE p == [k \in 0..n |-> lo + k]
  <1>4. Marks(p, t, lo, lo + n)
    <2>1. p \in [0..n -> Nat] /\ p[0] = lo /\ p[n] = lo + n
      OBVIOUS
    <2>2. \A k \in 1..n : t[k] = p[k - 1] + 1 /\ p[k] = t[k]
      <3>1. \A k \in 1..n : k \in 0..n /\ k - 1 \in 0..n /\ lo + (k - 1) + 1 = lo + k
        OBVIOUS
      <3> QED
        BY <1>3, <3>1
    <2> HIDE DEF p
    <2> QED
      BY <1>3, <2>1, <2>2 DEF Marks
  <1> HIDE DEF p
  <1>5. \A k \in 1..n : t[k] # 0
    BY <1>3
  <1> QED
    BY <1>1, <1>3, <1>4, <1>5 DEF Spans

\* Line breaks.
LEMMA SpansBreak ==
  ASSUME NEW lo \in Nat
  PROVE  Spans(<<>>, lo, lo) /\ Spans(<<0>>, lo, lo) /\ Spans(<<0, 0>>, lo, lo)
  <1>1. Spans(<<>>, lo, lo)
    <2>1. Marks([k \in 0..0 |-> lo], <<>>, lo, lo)
      BY DEF Marks
    <2> QED
      BY <2>1 DEF Spans
  <1>2. Spans(<<0>>, lo, lo)
    <2>1. Marks([k \in 0..1 |-> lo], <<0>>, lo, lo)
      BY DEF Marks
    <2> QED
      BY <2>1 DEF Spans
  <1>3. <<0, 0>> = <<0>> \o <<0>>
    OBVIOUS
  <1> QED
    BY <1>1, <1>2, <1>3, SpansConcat

\* What is read off a text that holds the letters lo + 1, ..., hi.
LEMMA SpansLetters ==
  ASSUME NEW t, NEW lo, NEW hi, Spans(t, lo, hi), lo < hi
  PROVE  /\ LetterPlaces(t) # {} /\ From(t) = lo + 1 /\ Upto(t) = hi
         /\ \A j, k \in LetterPlaces(t) : j < k => t[j] < t[k]
         /\ {t[k] : k \in LetterPlaces(t)} = lo + 1..hi
  <1>1. PICK p : Marks(p, t, lo, hi)
    BY DEF Spans
  <1>2. PICK n \in Nat : n = Len(t) /\ DOMAIN t = 1..n
    BY <1>1 DEF Marks
  <1>3. /\ p \in [0..n -> Nat] /\ p[0] = lo /\ p[n] = hi /\ lo \in Nat /\ hi \in Nat
        /\ \A k \in 1..n : (t[k] = 0 /\ p[k] = p[k - 1]) \/ (t[k] = p[k - 1] + 1 /\ p[k] = t[k])
    BY <1>1, <1>2 DEF Marks
  <1>4. /\ \A i, j \in 0..n : i <= j => p[i] <= p[j]
        /\ \A k \in 1..n : t[k] # 0 => p[k - 1] < p[k] /\ p[k] = t[k]
        /\ \A k \in 1..n : p[k - 1] <= p[k] /\ p[k] <= p[k - 1] + 1
    BY <1>1, <1>2, MarksGrow
  <1> DEFINE L == LetterPlaces(t)
  <1>5. L \in SUBSET (1..n) /\ \A k \in 1..n : k \in L <=> t[k] # 0
    BY <1>2 DEF LetterPlaces
  <1> HIDE DEF L
  <1>6. ASSUME NEW k \in L PROVE t[k] = p[k] /\ t[k] \in lo + 1..hi
    <2>1. k \in 1..n /\ k - 1 \in 0..n /\ k \in 0..n /\ 0 \in 0..n /\ n \in 0..n /\ 0 <= k - 1 /\ k <= n
      BY <1>5
    <2>2. p[0] <= p[k - 1] /\ p[k] <= p[n] /\ p[k - 1] < p[k] /\ p[k] = t[k]
      BY <1>4, <1>5, <2>1
    <2>3. PICK x \in Nat, y \in Nat : x = p[k - 1] /\ y = p[k] /\ lo <= x /\ x < y /\ y <= hi
      BY <1>3, <2>1, <2>2
    <2> QED
      BY <1>3, <2>2, <2>3
  <1>7. ASSUME NEW j \in L, NEW k \in L, j < k PROVE t[j] < t[k]
    <2>1. j \in 1..n /\ k \in 1..n /\ j \in 0..n /\ k - 1 \in 0..n /\ j <= k - 1 /\ k \in 0..n
      BY <1>5, <1>7
    <2>2. p[j] <= p[k - 1] /\ p[k - 1] < p[k]
      BY <1>4, <1>5, <2>1
    <2>3. PICK x \in Nat, y \in Nat, z \in Nat : x = p[j] /\ y = p[k - 1] /\ z = p[k]
      BY <1>3, <2>1
    <2>4. x < z
      BY <2>2, <2>3
    <2> QED
      BY <1>6, <2>3, <2>4
  <1>8. ASSUME NEW v \in lo + 1..hi PROVE \E k \in L : t[k] = v
    <2> DEFINE S == {k \in 0..n : p[k] >= v}
    <2>1. S \in SUBSET Nat /\ n \in S
      BY <1>3
    <2>2. PICK k \in S : \A m \in S : k <= m
      <3>1. S # {}
        BY <2>1
      <3> HIDE DEF S
      <3> QED
        BY <2>1, <3>1, NatMin
    <2>3. k \in 0..n /\ p[k] >= v
      BY <2>2
    <2>4. k # 0
      BY <1>3, <2>3
    <2>5. k \in 1..n /\ k - 1 \in 0..n /\ ~(k <= k - 1)
      BY <2>3, <2>4
    <2>6. k - 1 \notin S
      BY <2>2, <2>5
    <2>7. PICK x \in Nat, y \in Nat : x = p[k - 1] /\ y = p[k]
      BY <1>3, <2>5
    <2>8. x < v /\ y >= v /\ y <= x + 1
      BY <1>4, <2>3, <2>5, <2>6, <2>7
    <2>9. y = v /\ y # x
      BY <2>8
    <2>10. t[k] = v
      BY <1>3, <2>5, <2>7, <2>9
    <2>11. t[k] # 0
      BY <1>3, <2>10
    <2> QED
      BY <1>5, <2>5, <2>10, <2>11
  <1>9. {t[k] : k \in L} = lo + 1..hi
    BY <1>6, <1>8
  <1>10. lo + 1 \in lo + 1..hi /\ hi \in lo + 1..hi
    BY <1>3
  <1>11. L # {}
    BY <1>8, <1>10
  <1>12. t[Min(L)] = lo + 1
    <2>1. \E m \in L : \A k \in L : m <= k
      <3>1. L \in SUBSET Nat
        BY <1>5
      <3> QED
        BY <1>11, <3>1, NatMin
    <2>2. PICK m \in L : m = Min(L) /\ \A k \in L : m <= k
      BY <2>1 DEF Min
    <2>3. PICK k \in L : t[k] = lo + 1
      BY <1>8, <1>10
    <2>4. ~(m < k)
      <3> SUFFICES ASSUME m < k PROVE FALSE
        OBVIOUS
      <3>1. t[m] < t[k] /\ t[m] \in lo + 1..hi
        BY <1>6, <1>7
      <3> QED
        BY <1>3, <2>3, <3>1
    <2>5. m = k
      BY <1>5, <2>2, <2>4
    <2> QED
      BY <2>2, <2>3, <2>5
  <1>13. t[Max(L)] = hi
    <2>1. PICK m \in L : m = Max(L) /\ \A k \in L : k <= m
      BY <1>5, <1>11, NatMax
    <2>2. PICK k \in L : t[k] = hi
      BY <1>8, <1>10
    <2>3. ~(k < m)
      <3> SUFFICES ASSUME k < m PROVE FALSE
        OBVIOUS
      <3>1. t[k] < t[m] /\ t[m] \in lo + 1..hi
        BY <1>6, <1>7
      <3> QED
        BY <1>3, <2>2, <3>1
    <2>4. m = k
      BY <1>5, <2>1, <2>3
    <2> QED
      BY <2>1, <2>2, <2>4
  <1> QED
    BY <1>7, <1>9, <1>11, <1>12, <1>13 DEF L, From, Upto

-----------------------------------------------------------------------------
(* Pieces and units.                                                         *)

\* However a text is cut into windows, each holds a letter: the text ends with one, and has
\* one in every window that does not reach the end.
Cuttable(t) ==
    /\ t \in Seq(Nat) /\ t # <<>> /\ t[Len(t)] # 0
    /\ \A a \in 1..Len(t) : a + ChunkSize - 1 < Len(t) => \E k \in a..a + ChunkSize - 1 : t[k] # 0
\* A text that is a unit of the merge.
TextUnit(t, lo, hi) == Cuttable(t) /\ Spans(t, lo, hi) /\ lo < hi /\ lo \in Nat /\ hi \in Nat
\* f and g are the ends of the pieces, which cover the letters lo + 1, ..., hi and may overlap.
Covers(f, g, s, lo, hi) ==
    /\ s \in Seq(Seq(Nat)) /\ s # <<>>
    /\ f \in [1..Len(s) -> Nat] /\ g \in [1..Len(s) -> Nat] /\ f[1] = lo /\ g[Len(s)] = hi
    /\ \A i \in 1..Len(s) : f[i] < g[i] /\ Spans(s[i], f[i], g[i]) /\ Len(s[i]) <= ChunkSize
    /\ \A i \in 1..Len(s) : i < Len(s) => f[i + 1] <= g[i] /\ g[i] <= g[i + 1]
Covering(s, lo, hi) == \E f, g : Covers(f, g, s, lo, hi)
\* b are the ends of the units, which hold the letters lo + 1, ..., hi, each of them once.
Tiles(b, u, lo, hi) ==
    /\ u \in Seq(Seq(Nat) \ {<<>>})
    /\ b \in [0..Len(u) -> Nat] /\ b[0] = lo /\ b[Len(u)] = hi
    /\ \A i \in 1..Len(u) : TextUnit(u[i], b[i - 1], b[i])
Tiling(u, lo, hi) == \E b : Tiles(b, u, lo, hi)

\* The windows of a text cover it.
LEMMA WindowsCover ==
  ASSUME NEW t, NEW lo, NEW hi, TextUnit(t, lo, hi), NEW lap \in 0..ChunkSize - 1
  PROVE  Covering(FixedSplit(t, lap), lo, hi)
  <1>1. PICK p : Marks(p, t, lo, hi) /\ t \in Seq(Nat) /\ t # <<>>
    BY DEF TextUnit, Cuttable, Spans
  <1>2. PICK n \in Nat : n = Len(t)
    BY <1>1
  <1>3. PICK c \in Nat : c = ChunkSize /\ c >= 1
    BY ChunkingConstants DEF ChunkingConstants
  <1>m. PICK m \in Nat : m # 0 /\ \E a, z : Cuts(FixedSplit(t, lap), t, lap, m, a, z)
    BY <1>1, WindowsOfText
  <1>4. PICK a, z : Cuts(FixedSplit(t, lap), t, lap, m, a, z) /\ m # 0
    BY <1>m
  <1>5. PICK w : w = FixedSplit(t, lap)
    OBVIOUS
  <1>w. /\ w = [i \in 1..m |-> SubSeq(t, a[i], z[i])]
        /\ a \in [1..m -> Nat] /\ z \in [1..m -> Nat] /\ a[1] = 1 /\ z[m] = n
    <2>1. /\ w = [i \in 1..m |-> SubSeq(t, a[i], z[i])]
          /\ a \in [1..m -> Nat] /\ z \in [1..m -> Nat]
          /\ m > 0 => a[1] = 1 /\ z[m] = n
      BY <1>2, <1>4, <1>5 DEF Cuts
    <2>2. m > 0
      BY <1>4
    <2> QED
      BY <2>1, <2>2
  <1>6. ASSUME NEW i \in 1..m
        PROVE  \E x, y \in Nat : /\ x = a[i] /\ y = z[i] /\ 1 <= x /\ x <= y /\ y <= n
                                 /\ y = x + c - 1 \/ (y = n /\ y <= x + c - 1)
    <2>1. a[i] \in Nat /\ z[i] \in Nat
      BY <1>w
    <2>2. /\ 1 <= a[i] /\ a[i] <= z[i] /\ z[i] <= n
          /\ z[i] = a[i] + c - 1 \/ (z[i] = n /\ z[i] <= a[i] + c - 1)
      BY <1>2, <1>3, <1>4 DEF Cuts
    <2> QED
      BY <2>1, <2>2
  <1>6a. \A i \in 1..m : i < m => a[i + 1] <= z[i] + 1 /\ z[i] <= z[i + 1]
    BY <1>4 DEF Cuts
  <1>7. p \in [0..n -> Nat] /\ p[0] = lo /\ p[n] = hi
    BY <1>1, <1>2 DEF Marks
  <1> DEFINE f == [i \in 1..m |-> p[a[i] - 1]]
             g == [i \in 1..m |-> p[z[i]]]
  <1>8. ASSUME NEW i \in 1..m
        PROVE  /\ w[i] \in Seq(Nat) /\ Len(w[i]) <= c /\ f[i] \in Nat /\ g[i] \in Nat
               /\ f[i] < g[i] /\ Spans(w[i], f[i], g[i])
    <2>1. PICK x \in Nat, y \in Nat : /\ x = a[i] /\ y = z[i] /\ 1 <= x /\ x <= y /\ y <= n
                                      /\ y = x + c - 1 \/ (y = n /\ y <= x + c - 1)
      BY <1>6
    <2>a. w[i] = SubSeq(t, x, y) /\ f[i] = p[x - 1] /\ g[i] = p[y]
      BY <1>w, <2>1
    <2>b. x - 1 \in 0..n /\ y \in 0..n
      BY <2>1
    <2>2. w[i] = SubSeq(t, x, y) /\ f[i] = p[x - 1] /\ g[i] = p[y] /\ x - 1 \in 0..n /\ y \in 0..n
      BY <2>a, <2>b
    <2>3. \E k \in x..y : t[k] # 0
      <3>1. CASE y = n
        <4>1. n \in x..y /\ t[n] # 0
          BY <1>2, <2>1, <3>1 DEF TextUnit, Cuttable
        <4> QED
          BY <4>1
      <3>2. CASE y # n
        <4>1. y = x + c - 1 /\ x \in 1..n /\ x + c - 1 < n
          BY <1>3, <2>1, <3>2
        <4>2. \E k \in x..x + c - 1 : t[k] # 0
          BY <1>2, <1>3, <4>1 DEF TextUnit, Cuttable
        <4> QED
          BY <4>1, <4>2
      <3> QED
        BY <3>1, <3>2
    <2>4. /\ SubSeq(t, x, y) \in Seq(Nat) /\ Len(SubSeq(t, x, y)) = y - x + 1
          /\ Spans(SubSeq(t, x, y), p[x - 1], p[y]) /\ p[x - 1] < p[y]
      <3>1. y <= Len(t) /\ 1 <= x /\ x <= y
        BY <1>2, <2>1
      <3>2. Marks(p, t, lo, hi)
        BY <1>1
      <3> HIDE DEF f, g
      <3> QED
        BY <2>3, <3>1, <3>2, SpansCut
    <2>5. y - x + 1 <= c
      BY <1>3, <2>1
    <2> QED
      BY <1>7, <2>2, <2>4, <2>5
  <1>9. ASSUME NEW i \in 1..m, i < m PROVE f[i + 1] <= g[i] /\ g[i] <= g[i + 1]
    <2>1. i + 1 \in 1..m
      BY <1>9
    <2>2. PICK x \in Nat, y \in Nat, v \in Nat : /\ x = a[i + 1] /\ y = z[i] /\ v = z[i + 1]
                                     /\ 1 <= x /\ x <= y + 1 /\ y <= v /\ v <= n
      <3>1. a[i + 1] <= z[i] + 1 /\ z[i] <= z[i + 1] /\ a[i + 1] \in Nat /\ z[i] \in Nat /\ z[i + 1] \in Nat
        BY <1>6a, <1>9, <1>w, <2>1
      <3>2. 1 <= a[i + 1] /\ z[i + 1] <= n
        BY <1>6, <2>1
      <3> QED
        BY <3>1, <3>2
    <2>3. x - 1 \in 0..n /\ y \in 0..n /\ v \in 0..n /\ x - 1 <= y
      BY <2>2
    <2>4. p[x - 1] <= p[y] /\ p[y] <= p[v]
      BY <1>1, <1>2, <2>2, <2>3, MarksGrow
    <2>5. f[i + 1] = p[x - 1] /\ g[i] = p[y] /\ g[i + 1] = p[v]
      BY <2>1, <2>2
    <2> QED
      BY <2>4, <2>5
  <1>10. f[1] = lo /\ g[m] = hi
    <2>1. 1 \in 1..m /\ m \in 1..m /\ 1 - 1 = 0
      BY <1>4
    <2> QED
      BY <1>7, <1>w, <2>1
  <1>11. f \in [1..m -> Nat] /\ g \in [1..m -> Nat]
    BY <1>8
  <1> HIDE DEF f, g
  <1>12. w \in Seq(Seq(Nat)) /\ Len(w) = m /\ w # <<>>
    <2>1. w \in [1..m -> Seq(Nat)]
      BY <1>8, <1>w
    <2> QED
      BY <1>4, <2>1
  <1>13. Covers(f, g, w, lo, hi)
    BY <1>3, <1>8, <1>9, <1>10, <1>11, <1>12 DEF Covers
  <1> QED
    BY <1>5, <1>13 DEF Covering

\* The windows without overlap of a text without line breaks are units.
LEMMA WindowsTile ==
  ASSUME NEW t, NEW lo, NEW hi, Spans(t, lo, hi), t # <<>>, \A k \in 1..Len(t) : t[k] # 0
  PROVE  Tiling(FixedSplit(t, 0), lo, hi) /\ TextUnit(t, lo, hi)
  <1>1. PICK p : Marks(p, t, lo, hi) /\ t \in Seq(Nat)
    BY DEF Marks, Spans
  <1>2. PICK n \in Nat : n = Len(t) /\ n > 0
    <2>1. Len(t) \in Nat /\ Len(t) > 0
      BY <1>1
    <2> QED
      BY <2>1
  <1>3. PICK c \in Nat : c = ChunkSize /\ c >= 1
    BY ChunkingConstants DEF ChunkingConstants
  <1>m. PICK m \in Nat : m # 0 /\ \E a, z : Cuts(FixedSplit(t, 0), t, 0, m, a, z)
    <2>1. 0 \in 0..ChunkSize - 1
      BY <1>3
    <2> QED
      BY <1>1, <2>1, WindowsOfText
  <1>4. PICK a, z : Cuts(FixedSplit(t, 0), t, 0, m, a, z) /\ m # 0
    BY <1>m
  <1>5. PICK w : w = FixedSplit(t, 0)
    OBVIOUS
  <1>w. /\ w = [i \in 1..m |-> SubSeq(t, a[i], z[i])]
        /\ a \in [1..m -> Nat] /\ z \in [1..m -> Nat] /\ a[1] = 1 /\ z[m] = n
    <2>1. /\ w = [i \in 1..m |-> SubSeq(t, a[i], z[i])]
          /\ a \in [1..m -> Nat] /\ z \in [1..m -> Nat]
          /\ m > 0 => a[1] = 1 /\ z[m] = n
      BY <1>2, <1>4, <1>5 DEF Cuts
    <2>2. m > 0
      BY <1>4
    <2> QED
      BY <2>1, <2>2
  <1>6. ASSUME NEW i \in 1..m
        PROVE  \E x, y \in Nat : /\ x = a[i] /\ y = z[i] /\ 1 <= x /\ x <= y /\ y <= n /\ y <= x + c - 1
    <2>1. a[i] \in Nat /\ z[i] \in Nat
      BY <1>w
    <2>2. /\ 1 <= a[i] /\ a[i] <= z[i] /\ z[i] <= n
          /\ z[i] = a[i] + c - 1 \/ (z[i] = n /\ z[i] <= a[i] + c - 1)
      BY <1>2, <1>3, <1>4 DEF Cuts
    <2>3. PICK x \in Nat, y \in Nat : x = a[i] /\ y = z[i]
      BY <2>1
    <2>4. 1 <= x /\ x <= y /\ y <= n /\ (y = x + c - 1 \/ y <= x + c - 1)
      BY <2>2, <2>3
    <2>5. y <= x + c - 1
      BY <2>4
    <2> QED
      BY <2>3, <2>4, <2>5
  <1>6a. \A i \in 1..m : i < m => a[i + 1] = z[i] + 1
    BY <1>4 DEF Cuts
  <1>7. p \in [0..n -> Nat] /\ p[0] = lo /\ p[n] = hi /\ lo \in Nat /\ hi \in Nat
    BY <1>1, <1>2 DEF Marks
  <1> DEFINE b == [i \in 0..m |-> IF i = 0 THEN lo ELSE p[z[i]]]
  <1>8. ASSUME NEW i \in 1..m PROVE p[a[i] - 1] = b[i - 1] /\ p[z[i]] = b[i] /\ b[i] \in Nat
    <2>0. PICK y \in Nat : y = z[i] /\ y <= n
      BY <1>6
    <2>b. i # 0 /\ i \in 0..m /\ y \in 0..n
      BY <2>0
    <2>1. b[i] = p[z[i]] /\ b[i] \in Nat
      BY <1>7, <2>0, <2>b
    <2>2. CASE i = 1
      <3>1. a[i] - 1 = 0 /\ i - 1 = 0 /\ 0 \in 0..m
        BY <1>w, <2>2
      <3> QED
        BY <1>7, <2>1, <3>1
    <2>3. CASE i # 1
      <3>1. i - 1 \in 1..m /\ i - 1 < m /\ (i - 1) + 1 = i /\ i - 1 # 0 /\ i - 1 \in 0..m
        BY <2>3
      <3>2. a[i] = z[i - 1] + 1 /\ z[i - 1] \in Nat
        BY <1>6a, <1>w, <3>1
      <3>3. a[i] - 1 = z[i - 1]
        BY <3>2
      <3> QED
        BY <2>1, <3>1, <3>3
    <2> QED
      BY <2>2, <2>3
  <1>9. ASSUME NEW i \in 1..m
        PROVE  w[i] \in Seq(Nat) \ {<<>>} /\ TextUnit(w[i], b[i - 1], b[i])
    <2>1. PICK x \in Nat, y \in Nat : x = a[i] /\ y = z[i] /\ 1 <= x /\ x <= y /\ y <= n /\ y <= x + c - 1
      BY <1>6
    <2>a. x - 1 \in 0..n /\ y \in 0..n
      <3>1. n \in Nat
        BY <1>2
      <3>2. x - 1 \in Nat /\ x - 1 <= n
        BY <2>1, <3>1
      <3> QED
        BY <2>1, <3>1, <3>2
    <2>2. w[i] = SubSeq(t, x, y) /\ x - 1 \in 0..n /\ y \in 0..n
      BY <1>w, <2>1, <2>a
    <2>3. x \in x..y /\ t[x] # 0
      BY <1>2, <2>1
    <2>4. PICK s \in Seq(Nat) : /\ s = SubSeq(t, x, y) /\ Len(s) = y - x + 1
                                /\ Spans(s, p[x - 1], p[y]) /\ p[x - 1] < p[y]
      <3>1. y <= Len(t)
        BY <1>2, <2>1
      <3> QED
        BY <1>1, <2>1, <2>3, <3>1, SpansCut
    <2>5. s[Len(s)] # 0 /\ s # <<>>
      <3>0. x..y \subseteq 1..n
        BY <2>1
      <3>1. \A k \in x..y : t[k] \in Nat
        BY <1>1, <1>2, <3>0
      <3>2. \A k \in 1..y - x + 1 : s[k] = t[x + k - 1]
        BY <2>4, <3>1, SubSeqProperties
      <3>a. x <= y
        BY <2>1
      <3>3. y - x + 1 \in 1..y - x + 1 /\ x + (y - x + 1) - 1 = y
        BY <3>a
      <3>4. s[Len(s)] = t[y]
        BY <2>4, <3>2, <3>3
      <3>5. t[y] # 0
        BY <1>2, <2>1
      <3>6. Len(s) # 0
        BY <2>1, <2>4
      <3> QED
        BY <2>4, <3>4, <3>5, <3>6
    <2>6. Cuttable(s)
      <3>1. ASSUME NEW k \in 1..Len(s) PROVE ~(k + c - 1 < Len(s))
        <4>1. y <= x + c - 1 /\ Len(s) = y - x + 1 /\ k \in 1..y - x + 1
          BY <2>1, <2>4
        <4>2. ~(k + c - 1 < y - x + 1)
          <5>1. y <= x + c - 1 /\ k \in Nat /\ k >= 1
            BY <4>1
          <5> QED
            BY <5>1
        <4> QED
          BY <4>1, <4>2
      <3> QED
        BY <1>3, <2>4, <2>5, <3>1 DEF Cuttable
    <2>7. p[x - 1] = b[i - 1] /\ p[y] = b[i] /\ p[x - 1] \in Nat /\ p[y] \in Nat
      BY <1>7, <1>8, <2>1, <2>2
    <2> HIDE DEF b
    <2> QED
      BY <2>2, <2>4, <2>5, <2>6, <2>7 DEF TextUnit
  <1>10. b \in [0..m -> Nat] /\ b[0] = lo /\ b[m] = hi
    <2>1. \A i \in 0..m : b[i] \in Nat
      <3> SUFFICES ASSUME NEW i \in 0..m PROVE b[i] \in Nat
        OBVIOUS
      <3>1. CASE i = 0
        BY <1>7, <3>1
      <3>2. CASE i # 0
        <4>1. i \in 1..m
          BY <3>2
        <4> QED
          BY <1>8, <4>1
      <3> QED
        BY <3>1, <3>2
    <2> QED
      <3>1. b[0] = lo
        OBVIOUS
      <3>2. m # 0 /\ m \in 0..m
        BY <1>4
      <3>3. b[m] = hi
        BY <1>7, <1>w, <3>2
      <3>4. b = [i \in 0..m |-> b[i]]
        OBVIOUS
      <3> HIDE DEF b
      <3> QED
        BY <2>1, <3>1, <3>3, <3>4
  <1> HIDE DEF b
  <1>11. w \in Seq(Seq(Nat) \ {<<>>}) /\ Len(w) = m
    <2>1. w \in [1..m -> Seq(Nat) \ {<<>>}]
      BY <1>9, <1>w
    <2> QED
      BY <2>1
  <1>12. Tiles(b, w, lo, hi)
    BY <1>9, <1>10, <1>11 DEF Tiles
  <1>13. TextUnit(t, lo, hi)
    <2>1. 1 \in Nat /\ 1 <= n /\ n <= Len(t) /\ t[1] # 0 /\ 1 \in 1..n /\ 1 - 1 = 0
      BY <1>2
    <2>2. p[0] < p[n]
      BY <1>1, <1>2, <2>1, SpansCut
    <2>3. Cuttable(t)
      <3>1. t[n] # 0
        BY <1>2
      <3>2. ASSUME NEW k \in 1..n, k + c - 1 < n PROVE \E j \in k..k + c - 1 : t[j] # 0
        <4>1. k \in k..k + c - 1 /\ t[k] # 0
          BY <1>2, <1>3, <3>2
        <4> QED
          BY <4>1
      <3> QED
        BY <1>1, <1>2, <1>3, <3>1, <3>2 DEF Cuttable
    <2> QED
      BY <1>7, <2>2, <2>3 DEF TextUnit
  <1> QED
    BY <1>5, <1>12, <1>13 DEF Tiling

\* A sequence is its front and its last element.
LEMMA FrontAndLast ==
  ASSUME NEW S, NEW s \in Seq(S), s # <<>>
  PROVE  /\ Front(s) \in Seq(S) /\ Last(s) \in S /\ Append(Front(s), Last(s)) = s
         /\ Len(Front(s)) = Len(s) - 1
  <1>0. PICK n \in Nat : n = Len(s)
    OBVIOUS
  <1>1. n = Len(s) /\ n >= 1 /\ DOMAIN s = 1..n
    <2>1. n # 0
      BY <1>0
    <2> QED
      BY <1>0, <2>1
  <1>2. /\ SubSeq(s, 1, n - 1) \in Seq(S) /\ Len(SubSeq(s, 1, n - 1)) = n - 1
        /\ \A i \in 1..n - 1 : SubSeq(s, 1, n - 1)[i] = s[i]
    <2>1. \A i \in 1..n - 1 : s[i] \in S /\ 1 + i - 1 = i
      BY <1>1
    <2>2. 1 \in Int /\ n - 1 \in Int /\ (n - 1) - 1 + 1 = n - 1 /\ (~(1 <= n - 1) => n - 1 = 0)
      BY <1>1
    <2>3. /\ SubSeq(s, 1, n - 1) \in Seq(S)
          /\ Len(SubSeq(s, 1, n - 1)) = IF 1 <= n - 1 THEN (n - 1) - 1 + 1 ELSE 0
          /\ \A i \in 1..(n - 1) - 1 + 1 : SubSeq(s, 1, n - 1)[i] = s[1 + i - 1]
      BY <2>1, <2>2, SubSeqProperties
    <2> QED
      BY <2>1, <2>2, <2>3
  <1>3. PICK h \in Seq(S), x \in S : /\ h = Front(s) /\ x = Last(s) /\ Len(h) = n - 1 /\ x = s[n]
                                     /\ \A i \in 1..n - 1 : h[i] = s[i]
    <2>1. Front(s) = SubSeq(s, 1, n - 1) /\ Last(s) = s[n]
      BY <1>1 DEF Front, Last
    <2>2. s[n] \in S
      BY <1>1
    <2> QED
      BY <1>2, <2>1, <2>2
  <1>4. PICK e \in Seq(S) : /\ e = Append(h, x) /\ Len(e) = n
                           /\ \A i \in 1..n : e[i] = IF i = n THEN x ELSE h[i]
    BY <1>1, <1>3, AppendProperties
  <1>5. \A i \in 1..n : e[i] = s[i]
    BY <1>3, <1>4
  <1>6. e = s
    BY <1>1, <1>4, <1>5, SeqEqual
  <1> QED
    BY <1>1, <1>3, <1>4, <1>6

\* The windows of a text, as a sequence of texts.
LEMMA WindowsTyped ==
  ASSUME NEW t \in Seq(Nat), NEW lap \in 0..ChunkSize - 1
  PROVE  /\ FixedSplit(t, lap) \in Seq(Seq(Nat) \ {<<>>})
         /\ t # <<>> => FixedSplit(t, lap) # <<>>
  <1>m. PICK m \in Nat : \E a, z : Cuts(FixedSplit(t, lap), t, lap, m, a, z) /\ (m = 0) = (t = <<>>)
    BY WindowsOfText
  <1>1. PICK a, z : Cuts(FixedSplit(t, lap), t, lap, m, a, z) /\ (m = 0) = (t = <<>>)
    BY <1>m
  <1>2. PICK w : w = FixedSplit(t, lap)
    OBVIOUS
  <1>3. w = [i \in 1..m |-> SubSeq(t, a[i], z[i])] /\ a \in [1..m -> Nat] /\ z \in [1..m -> Nat]
    BY <1>1, <1>2 DEF Cuts
  <1>4. ASSUME NEW i \in 1..m PROVE w[i] \in Seq(Nat) \ {<<>>}
    <2>1. 1 <= a[i] /\ a[i] <= z[i] /\ z[i] <= Len(t)
      BY <1>1 DEF Cuts
    <2>2. PICK x \in Nat, y \in Nat : x = a[i] /\ y = z[i] /\ 1 <= x /\ x <= y /\ y <= Len(t)
      BY <1>3, <2>1
    <2>3. \A k \in x..y : t[k] \in Nat
      BY <2>2
    <2>4. SubSeq(t, x, y) \in Seq(Nat) /\ Len(SubSeq(t, x, y)) = y - x + 1
      BY <2>2, <2>3, SubSeqProperties
    <2>5. y - x + 1 # 0
      BY <2>2
    <2>6. SubSeq(t, x, y) # <<>>
      BY <2>4, <2>5
    <2> QED
      BY <1>3, <2>2, <2>4, <2>6
  <1>5. w \in Seq(Seq(Nat) \ {<<>>}) /\ Len(w) = m
    <2>1. w \in [1..m -> Seq(Nat) \ {<<>>}]
      BY <1>3, <1>4
    <2> QED
      BY <2>1
  <1> QED
    BY <1>1, <1>2, <1>5

\* The state of a merge: the chunks that are done and the one under construction.
Nothing == [done |-> <<>>, current |-> <<>>]
Merges == [done : Seq(Seq(Nat)), current : Seq(Nat)]

\* A chunk and what is joined to it.
LEMMA JoinedTyped ==
  ASSUME NEW a \in Seq(Nat), NEW u \in Seq(Nat), u # <<>>
  PROVE  Joined(a, u) \in Seq(Nat) /\ Joined(a, u) # <<>>
  <1>1. CASE a = <<>>
    BY <1>1 DEF Joined
  <1>2. CASE a # <<>>
    <2>1. PICK b \in Seq(Nat) : b = a \o <<0>>
      <3>1. <<0>> \in Seq(Nat)
        OBVIOUS
      <3> QED
        BY <3>1, ConcatProperties
    <2>2. Len(b \o u) = Len(b) + Len(u) /\ b \o u \in Seq(Nat) /\ Len(u) \in Nat /\ Len(b) \in Nat /\ Len(u) # 0
      OBVIOUS
    <2>3. Len(b \o u) # 0
      BY <2>2
    <2> QED
      BY <1>2, <2>1, <2>2, <2>3 DEF Joined
  <1> QED
    BY <1>1, <1>2

\* The end of a text.
LEMMA LapTyped ==
  ASSUME NEW a \in Seq(Nat), overlap \in 0..ChunkSize - 1
  PROVE  Lap(a) \in Seq(Nat)
  <1>1. PICK v \in Nat, n \in Nat : v = overlap /\ n = Len(a)
    BY ChunkingConstants DEF ChunkingConstants
  <1>2. PICK x \in Nat : x = (IF n > v THEN n - v + 1 ELSE 1) /\ 1 <= x
    <2>1. (IF n > v THEN n - v + 1 ELSE 1) \in Nat /\ 1 <= (IF n > v THEN n - v + 1 ELSE 1)
      OBVIOUS
    <2> QED
      BY <2>1
  <1>3. \A i \in x..n : a[i] \in Nat
    BY <1>1, <1>2
  <1>4. SubSeq(a, x, n) \in Seq(Nat)
    BY <1>1, <1>3, SubSeqProperties
  <1>5. Lap(a) = IF a = <<>> \/ v = 0 THEN <<>> ELSE SubSeq(a, x, n)
    BY <1>1, <1>2 DEF Lap
  <1> QED
    BY <1>4, <1>5

\* A round of the merge leaves chunks, and one under construction.
LEMMA UnitIsAdded ==
  ASSUME NEW acc \in Merges, NEW unit \in Seq(Nat) \ {<<>>}, overlap \in 0..ChunkSize - 1
  PROVE  AddUnit(acc, unit) \in Merges /\ AddUnit(acc, unit).current # <<>>
  <1>1. PICK d \in Seq(Seq(Nat)), c \in Seq(Nat) : acc = [done |-> d, current |-> c] /\ acc.done = d /\ acc.current = c
    BY DEF Merges
  <1>2. Joined(c, unit) \in Seq(Nat) \ {<<>>}
    BY JoinedTyped
  <1>3. Joined(Lap(c), unit) \in Seq(Nat) \ {<<>>}
    BY JoinedTyped, LapTyped
  <1>4. PICK e \in Seq(Seq(Nat)) : e = (IF c = <<>> THEN d ELSE Append(d, c))
    <2>1. Append(d, c) \in Seq(Seq(Nat))
      OBVIOUS
    <2> QED
      BY <2>1
  <1>5. PICK w \in Seq(Seq(Nat) \ {<<>>}) : w = FixedSplit(unit, overlap) /\ w # <<>>
    BY WindowsTyped
  <1>6. Front(w) \in Seq(Seq(Nat) \ {<<>>}) /\ Last(w) \in Seq(Nat) \ {<<>>}
    BY <1>5, FrontAndLast
  <1>7. e \o Front(w) \in Seq(Seq(Nat))
    <2>1. Front(w) \in Seq(Seq(Nat))
      <3>1. Seq(Nat) \ {<<>>} \subseteq Seq(Nat)
        OBVIOUS
      <3> QED
        BY <1>6, <3>1, SeqMonotonic
    <2> QED
      BY <2>1
  <1>8. PICK j : j = Joined(c, unit)
    OBVIOUS
  <1>9. PICK l : l = Joined(Lap(c), unit)
    OBVIOUS
  <1>10. AddUnit(acc, unit) =
           CASE Len(j) <= ChunkSize -> [acc EXCEPT !.current = j]
             [] Len(j) > ChunkSize /\ Len(l) <= ChunkSize -> [done |-> e, current |-> l]
             [] OTHER -> [done |-> e \o Front(w), current |-> Last(w)]
    BY <1>1, <1>4, <1>5, <1>8, <1>9 DEF AddUnit
  <1>11. Len(j) \in Nat /\ Len(l) \in Nat /\ ChunkSize \in Nat
    BY <1>2, <1>3, <1>8, <1>9, ChunkingConstants DEF ChunkingConstants
  <1>12. \/ AddUnit(acc, unit) = [done |-> d, current |-> j]
         \/ AddUnit(acc, unit) = [done |-> e, current |-> l]
         \/ AddUnit(acc, unit) = [done |-> e \o Front(w), current |-> Last(w)]
    <2>1. CASE Len(j) <= ChunkSize
      <3>1. AddUnit(acc, unit) = [acc EXCEPT !.current = j]
        BY <1>10, <1>11, <2>1
      <3> QED
        BY <1>1, <3>1
    <2>2. CASE ~(Len(j) <= ChunkSize) /\ Len(l) <= ChunkSize
      <3>1. Len(j) > ChunkSize
        BY <1>11, <2>2
      <3> QED
        BY <1>10, <2>2, <3>1
    <2>3. CASE ~(Len(j) <= ChunkSize) /\ ~(Len(l) <= ChunkSize)
      BY <1>10, <2>3
    <2> QED
      BY <2>1, <2>2, <2>3
  <1> QED
    <2>1. j \in Seq(Nat) \ {<<>>} /\ l \in Seq(Nat) \ {<<>>}
      BY <1>2, <1>3, <1>8, <1>9
    <2>2. \A x \in Seq(Seq(Nat)), y \in Seq(Nat) \ {<<>>} :
             [done |-> x, current |-> y] \in Merges /\ [done |-> x, current |-> y].current # <<>>
      BY DEF Merges
    <2> QED
      BY <1>6, <1>7, <1>12, <2>1, <2>2

\* A merge, one unit after the other.
LEMMA MergeFold ==
  ASSUME NEW s \in Seq(Seq(Nat) \ {<<>>}), overlap \in 0..ChunkSize - 1
  PROVE  \E h : /\ h[0] = Nothing /\ FoldLeft(AddUnit, Nothing, s) = h[Len(s)]
                /\ h \in [0..Len(s) -> Merges]
                /\ \A k \in 1..Len(s) : h[k] = AddUnit(h[k - 1], s[k])
  <1> DEFINE n == Len(s)
             T == Merges
             g == [p \in T \X (1..n) |-> AddUnit(p[1], s[p[2]])]
             Equation(f) == f = [r \in SUBSET (1..n) |->
                              IF r = {} THEN Nothing ELSE AddUnit(f[r \ {Max(r)}], s[Max(r)])]
  <1>0. n \in Nat /\ DOMAIN s = 1..n
    OBVIOUS
  <1>b. Nothing \in T
    BY DEF Nothing, Merges
  <1>1. g \in [T \X (1..n) -> T]
    <2>1. \A a \in T, i \in 1..n : AddUnit(a, s[i]) \in T
      BY UnitIsAdded
    <2> QED
      BY <2>1
  <1>2. PICK f \in [SUBSET (1..n) -> T] : IsFold(f, g, Nothing, n)
    <2> HIDE DEF g, n, T
    <2> QED
      BY <1>0, <1>1, <1>b, FoldExists
  <1>3. Equation(f)
    <2>1. ASSUME NEW r \in SUBSET (1..n)
          PROVE  f[r] = IF r = {} THEN Nothing ELSE AddUnit(f[r \ {Max(r)}], s[Max(r)])
      <3>1. CASE r = {}
        BY <1>2, <3>1 DEF IsFold
      <3>2. CASE r # {}
        <4>1. Max(r) \in r /\ Max(r) \in 1..n
          BY <1>0, <3>2, NatMax
        <4>2. f[r] = g[<<f[r \ {Max(r)}], Max(r)>>]
          BY <1>2, <3>2 DEF IsFold
        <4>3. f[r \ {Max(r)}] \in T
          BY <1>2
        <4> HIDE DEF T, n
        <4> QED
          BY <3>2, <4>1, <4>2, <4>3
      <3> QED
        BY <3>1, <3>2
    <2> QED
      BY <2>1
  <1>4. PICK e : Equation(e) /\ FoldLeft(AddUnit, Nothing, s) = e[1..n]
    BY <1>0, <1>3 DEF FoldLeft, MapThenFoldSet
  <1>5. Folds(e, T, g, Nothing, n)
    <2>1. \A r \in SUBSET (1..n) :
             e[r] = IF r = {} THEN Nothing ELSE AddUnit(e[r \ {Max(r)}], s[Max(r)])
      BY <1>4
    <2>2. ASSUME NEW r \in SUBSET (1..n), r # {}, e[r \ {Max(r)}] \in T
          PROVE  e[r] = g[<<e[r \ {Max(r)}], Max(r)>>]
      <3>1. Max(r) \in 1..n
        BY <1>0, <2>2, NatMax
      <3>2. e[r] = AddUnit(e[r \ {Max(r)}], s[Max(r)])
        BY <2>1, <2>2
      <3> HIDE DEF T, n
      <3> QED
        BY <2>2, <3>1, <3>2
    <2>3. e[{}] = Nothing
      BY <2>1
    <2> HIDE DEF g, T, n
    <2> QED
      BY <2>2, <2>3 DEF Folds
  <1>6. PICK h : IsChain(h, e, T, g, Nothing, n)
    <2> HIDE DEF g, T, n
    <2> QED
      BY <1>0, <1>1, <1>5, <1>b, FoldChain
  <1>7. ASSUME NEW k \in 1..n PROVE h[k] = AddUnit(h[k - 1], s[k])
    <2> HIDE DEF T, n, g
    <2>0. k - 1 \in 0..n
      BY <1>0
    <2>1. h[k - 1] \in T
      BY <1>6, <2>0 DEF IsChain
    <2> USE DEF g
    <2> QED
      BY <1>6, <2>1 DEF IsChain
  <1>8. h[0] = Nothing /\ h[n] = e[1..n] /\ h \in [0..n -> T]
    BY <1>6 DEF IsChain
  <1> QED
    BY <1>4, <1>7, <1>8

\* Pieces followed by more pieces that start before the first ones end.
LEMMA CoverJoin ==
  ASSUME NEW s, NEW t, NEW lo, NEW mid, NEW e, NEW hi, NEW f, NEW g, Covering(s, lo, mid), Covers(f, g, t, e, hi),
         e <= mid, mid <= g[1]
  PROVE  Covering(s \o t, lo, hi)
  <1>1. PICK a, b : Covers(a, b, s, lo, mid)
    BY DEF Covering
  <1>2. PICK m \in Nat, n \in Nat : m = Len(s) /\ n = Len(t) /\ s \in Seq(Seq(Nat)) /\ t \in Seq(Seq(Nat))
    BY <1>1 DEF Covers
  <1>m. m >= 1 /\ n >= 1
    <2>1. m # 0 /\ n # 0
      BY <1>1, <1>2 DEF Covers
    <2> QED
      BY <2>1
  <1>3. /\ a \in [1..m -> Nat] /\ b \in [1..m -> Nat] /\ a[1] = lo /\ b[m] = mid
        /\ f \in [1..n -> Nat] /\ g \in [1..n -> Nat] /\ f[1] = e /\ g[n] = hi
    BY <1>1, <1>2 DEF Covers
  <1>4. /\ \A i \in 1..m : a[i] < b[i] /\ Spans(s[i], a[i], b[i]) /\ Len(s[i]) <= ChunkSize
        /\ \A i \in 1..n : f[i] < g[i] /\ Spans(t[i], f[i], g[i]) /\ Len(t[i]) <= ChunkSize
    BY <1>1, <1>2 DEF Covers
  <1>5. /\ \A i \in 1..m : i < m => a[i + 1] <= b[i] /\ b[i] <= b[i + 1]
        /\ \A i \in 1..n : i < n => f[i + 1] <= g[i] /\ g[i] <= g[i + 1]
    BY <1>1, <1>2 DEF Covers
  <1>6. PICK u \in Seq(Seq(Nat)) : /\ u = s \o t /\ Len(u) = m + n
                                   /\ \A i \in 1..m + n : u[i] = IF i <= m THEN s[i] ELSE t[i - m]
    <2>1. /\ s \o t \in Seq(Seq(Nat)) /\ Len(s \o t) = Len(s) + Len(t)
          /\ \A i \in 1..Len(s) + Len(t) : (s \o t)[i] = IF i <= Len(s) THEN s[i] ELSE t[i - Len(s)]
      BY <1>2, ConcatProperties
    <2> QED
      BY <1>2, <2>1
  <1>7. PICK x : x = [i \in 1..m + n |-> IF i <= m THEN a[i] ELSE f[i - m]]
    OBVIOUS
  <1>8. PICK y : y = [i \in 1..m + n |-> IF i <= m THEN b[i] ELSE g[i - m]]
    OBVIOUS
  <1>9. ASSUME NEW i \in 1..m PROVE i \in 1..m + n /\ u[i] = s[i] /\ x[i] = a[i] /\ y[i] = b[i]
    <2>1. i \in 1..m + n /\ i <= m
      OBVIOUS
    <2> QED
      BY <1>6, <1>7, <1>8, <2>1
  <1>10. ASSUME NEW i \in 1..n PROVE m + i \in 1..m + n /\ u[m + i] = t[i] /\ x[m + i] = f[i] /\ y[m + i] = g[i]
    <2>1. m + i \in 1..m + n /\ ~(m + i <= m) /\ (m + i) - m = i
      OBVIOUS
    <2> QED
      BY <1>6, <1>7, <1>8, <2>1
  <1>11. \A i \in 1..m + n : i \in 1..m \/ \E j \in 1..n : i = m + j
    <2> SUFFICES ASSUME NEW i \in 1..m + n, i \notin 1..m PROVE \E j \in 1..n : i = m + j
      OBVIOUS
    <2>1. i - m \in 1..n /\ i = m + (i - m)
      OBVIOUS
    <2> QED
      BY <2>1
  <1>12. ASSUME NEW i \in 1..m + n
         PROVE  /\ x[i] \in Nat /\ y[i] \in Nat
                /\ x[i] < y[i] /\ Spans(u[i], x[i], y[i]) /\ Len(u[i]) <= ChunkSize
    <2>1. CASE i \in 1..m
      BY <1>3, <1>4, <1>9, <2>1
    <2>2. ASSUME NEW j \in 1..n, i = m + j
          PROVE  /\ x[i] \in Nat /\ y[i] \in Nat
                 /\ x[i] < y[i] /\ Spans(u[i], x[i], y[i]) /\ Len(u[i]) <= ChunkSize
      BY <1>3, <1>4, <1>10, <2>2
    <2> QED
      BY <1>11, <2>1, <2>2
  <1>13. ASSUME NEW i \in 1..m + n, i < m + n PROVE x[i + 1] <= y[i] /\ y[i] <= y[i + 1]
    <2>1. CASE i \in 1..m /\ i < m
      <3>1. i + 1 \in 1..m
        BY <2>1
      <3>2. x[i + 1] = a[i + 1] /\ y[i] = b[i] /\ y[i + 1] = b[i + 1]
        BY <1>9, <2>1, <3>1
      <3> QED
        BY <1>5, <2>1, <3>2
    <2>2. CASE i = m
      <3>1. 1 \in 1..n /\ m \in 1..m
        BY <1>m
      <3>2. x[m + 1] = f[1] /\ y[m] = b[m] /\ y[m + 1] = g[1]
        BY <1>9, <1>10, <3>1
      <3> QED
        BY <1>3, <2>2, <3>2
    <2>3. ASSUME NEW j \in 1..n, i = m + j PROVE x[i + 1] <= y[i] /\ y[i] <= y[i + 1]
      <3>1. j < n /\ j + 1 \in 1..n /\ i + 1 = m + (j + 1)
        BY <1>13, <2>3
      <3>2. x[i + 1] = f[j + 1] /\ y[i] = g[j] /\ y[i + 1] = g[j + 1]
        BY <1>10, <2>3, <3>1
      <3> QED
        BY <1>5, <3>1, <3>2
    <2>4. i \in 1..m => i < m \/ i = m
      OBVIOUS
    <2> QED
      BY <1>11, <2>1, <2>2, <2>3, <2>4
  <1>14. x \in [1..m + n -> Nat] /\ y \in [1..m + n -> Nat]
    BY <1>7, <1>8, <1>12
  <1>15. x[1] = lo /\ y[m + n] = hi
    <2>1. 1 \in 1..m /\ n \in 1..n
      BY <1>m
    <2> QED
      BY <1>3, <1>9, <1>10, <2>1
  <1>16. u # <<>>
    <2>1. Len(u) # 0
      BY <1>6, <1>m
    <2> QED
      BY <2>1
  <1>17. Covers(x, y, u, lo, hi)
    BY <1>6, <1>12, <1>13, <1>14, <1>15, <1>16 DEF Covers
  <1> QED
    BY <1>6, <1>17 DEF Covering

\* A single piece.
LEMMA CoverOne ==
  ASSUME NEW t \in Seq(Nat), NEW lo \in Nat, NEW hi \in Nat, Spans(t, lo, hi), lo < hi, Len(t) <= ChunkSize
  PROVE  \E f, g : Covers(f, g, <<t>>, lo, hi) /\ g[1] = hi
  <1>1. PICK f : f = [i \in 1..1 |-> lo]
    OBVIOUS
  <1>2. PICK g : g = [i \in 1..1 |-> hi]
    OBVIOUS
  <1>3. PICK s : s = <<t>> /\ s \in Seq(Seq(Nat)) /\ Len(s) = 1 /\ s[1] = t /\ s # <<>>
    <2>1. <<t>> \in Seq(Seq(Nat)) /\ Len(<<t>>) = 1 /\ <<t>>[1] = t /\ <<t>> # <<>>
      OBVIOUS
    <2> QED
      BY <2>1
  <1>4. f \in [1..1 -> Nat] /\ g \in [1..1 -> Nat] /\ f[1] = lo /\ g[1] = hi
    BY <1>1, <1>2
  <1>5. \A i \in 1..1 : i = 1 /\ ~(i < 1)
    OBVIOUS
  <1>6. Covers(f, g, s, lo, hi)
    BY <1>3, <1>4, <1>5 DEF Covers
  <1> QED
    BY <1>3, <1>4, <1>6

\* The last of the pieces may go on.
LEMMA CoverExtend ==
  ASSUME NEW d \in Seq(Seq(Nat)), NEW c \in Seq(Nat), NEW lo, NEW mid, Covering(Append(d, c), lo, mid)
  PROVE  \E e \in Nat :
           /\ e < mid /\ Spans(c, e, mid) /\ mid \in Nat
           /\ \A t \in Seq(Nat), hi \in Nat :
                 Spans(t, e, hi) /\ mid <= hi /\ Len(t) <= ChunkSize => Covering(Append(d, t), lo, hi)
  <1>1. PICK a, b : Covers(a, b, Append(d, c), lo, mid)
    BY DEF Covering
  <1>2. PICK n \in Nat : n = Len(d)
    OBVIOUS
  <1>3. PICK s \in Seq(Seq(Nat)) : s = Append(d, c) /\ Len(s) = n + 1 /\ s[n + 1] = c /\ \A i \in 1..n : s[i] = d[i]
    <2>1. /\ Append(d, c) \in Seq(Seq(Nat)) /\ Len(Append(d, c)) = Len(d) + 1
          /\ Append(d, c)[Len(d) + 1] = c /\ \A i \in 1..Len(d) : Append(d, c)[i] = d[i]
      BY AppendProperties
    <2> QED
      BY <1>2, <2>1
  <1>4. /\ a \in [1..n + 1 -> Nat] /\ b \in [1..n + 1 -> Nat] /\ a[1] = lo /\ b[n + 1] = mid
        /\ \A i \in 1..n + 1 : a[i] < b[i] /\ Spans(s[i], a[i], b[i]) /\ Len(s[i]) <= ChunkSize
        /\ \A i \in 1..n + 1 : i < n + 1 => a[i + 1] <= b[i] /\ b[i] <= b[i + 1]
    BY <1>1, <1>3 DEF Covers
  <1>5. PICK e \in Nat : e = a[n + 1] /\ e < mid /\ Spans(c, e, mid) /\ mid \in Nat
    <2>1. n + 1 \in 1..n + 1
      OBVIOUS
    <2>2. a[n + 1] \in Nat /\ b[n + 1] \in Nat /\ a[n + 1] < b[n + 1] /\ Spans(s[n + 1], a[n + 1], b[n + 1])
      BY <1>4, <2>1
    <2> QED
      BY <1>3, <1>4, <2>2
  <1>6. ASSUME NEW t \in Seq(Nat), NEW hi \in Nat, Spans(t, e, hi), mid <= hi, Len(t) <= ChunkSize
        PROVE  Covering(Append(d, t), lo, hi)
    <2>1. PICK u \in Seq(Seq(Nat)) : u = Append(d, t) /\ Len(u) = n + 1 /\ u[n + 1] = t
                                     /\ \A i \in 1..n : u[i] = d[i]
      <3>1. /\ Append(d, t) \in Seq(Seq(Nat)) /\ Len(Append(d, t)) = Len(d) + 1
            /\ Append(d, t)[Len(d) + 1] = t /\ \A i \in 1..Len(d) : Append(d, t)[i] = d[i]
        BY AppendProperties
      <3> QED
        BY <1>2, <3>1
    <2>e. u # <<>>
      <3>1. Len(u) # 0
        BY <2>1
      <3> QED
        BY <3>1
    <2>2. PICK y : y = [i \in 1..n + 1 |-> IF i = n + 1 THEN hi ELSE b[i]]
      OBVIOUS
    <2>3. y \in [1..n + 1 -> Nat] /\ y[n + 1] = hi /\ \A i \in 1..n : y[i] = b[i] /\ i # n + 1
      <3>1. \A i \in 1..n : i \in 1..n + 1 /\ i # n + 1
        OBVIOUS
      <3>2. n + 1 \in 1..n + 1
        OBVIOUS
      <3> QED
        BY <1>4, <2>2, <3>1, <3>2
    <2>4. \A i \in 1..n + 1 : i = n + 1 \/ i \in 1..n
      OBVIOUS
    <2>5. ASSUME NEW i \in 1..n + 1
          PROVE  a[i] < y[i] /\ Spans(u[i], a[i], y[i]) /\ Len(u[i]) <= ChunkSize
      <3>1. CASE i = n + 1
        <4>1. e < hi
          BY <1>5, <1>6
        <4> QED
          BY <1>5, <1>6, <2>1, <2>3, <3>1, <4>1
      <3>2. CASE i \in 1..n
        BY <1>3, <1>4, <2>1, <2>3, <3>2
      <3> QED
        BY <2>4, <3>1, <3>2
    <2>6. ASSUME NEW i \in 1..n + 1, i < n + 1 PROVE a[i + 1] <= y[i] /\ y[i] <= y[i + 1]
      <3>1. i \in 1..n /\ i + 1 \in 1..n + 1
        BY <2>6
      <3>2. y[i] = b[i] /\ a[i + 1] <= b[i] /\ b[i] <= b[i + 1] /\ b[i + 1] \in Nat /\ b[i] \in Nat
        BY <1>4, <2>3, <2>6, <3>1
      <3>3. CASE i + 1 = n + 1
        <4>1. y[i + 1] = hi /\ b[i + 1] = mid
          BY <1>4, <2>3, <3>3
        <4>2. b[i] <= hi
          BY <1>5, <1>6, <3>2, <4>1
        <4> QED
          BY <3>2, <4>1, <4>2
      <3>4. CASE i + 1 \in 1..n
        BY <2>3, <3>2, <3>4
      <3> QED
        BY <2>4, <3>1, <3>3, <3>4
    <2>7. Covers(a, y, u, lo, hi)
      BY <1>4, <2>1, <2>3, <2>5, <2>6, <2>e DEF Covers
    <2> QED
      BY <2>1, <2>7 DEF Covering
  <1> QED
    BY <1>5, <1>6

\* The end of a text is the end of what it holds.
LEMMA LapSpans ==
  ASSUME NEW c, NEW e, NEW mid, Spans(c, e, mid), overlap \in 0..ChunkSize - 1
  PROVE  \E x \in Nat : Spans(Lap(c), x, mid) /\ x <= mid
  <1>1. PICK p : Marks(p, c, e, mid)
    BY DEF Spans
  <1>2. PICK n \in Nat : n = Len(c) /\ c \in Seq(Nat)
    BY <1>1 DEF Marks
  <1>3. p \in [0..n -> Nat] /\ p[n] = mid /\ mid \in Nat
    BY <1>1, <1>2 DEF Marks
  <1>4. PICK v \in Nat : v = overlap
    BY ChunkingConstants DEF ChunkingConstants
  <1>5. CASE c = <<>> \/ v = 0
    <2>1. Lap(c) = <<>>
      BY <1>4, <1>5 DEF Lap
    <2>2. Spans(<<>>, mid, mid) /\ mid <= mid
      BY <1>3, SpansBreak
    <2> QED
      BY <1>3, <2>1, <2>2
  <1>6. CASE ~(c = <<>> \/ v = 0)
    <2>0. n # 0
      BY <1>2, <1>6
    <2>1. PICK a \in Nat : a = (IF n > v THEN n - v + 1 ELSE 1) /\ 1 <= a /\ a <= n
      <3>1. CASE n > v
        <4>1. n - v + 1 \in Nat /\ 1 <= n - v + 1 /\ n - v + 1 <= n
          BY <1>6, <3>1
        <4> QED
          BY <3>1, <4>1
      <3>2. CASE ~(n > v)
        BY <2>0, <3>2
      <3> QED
        BY <3>1, <3>2
    <2>2. Lap(c) = SubSeq(c, a, n)
      BY <1>2, <1>4, <1>6, <2>1 DEF Lap
    <2>3. n <= Len(c) /\ a - 1 \in 0..n
      BY <1>2, <2>1
    <2>4. Spans(SubSeq(c, a, n), p[a - 1], p[n]) /\ p[a - 1] <= p[n]
      BY <1>1, <2>1, <2>3, SpansCut
    <2> QED
      BY <1>3, <2>2, <2>3, <2>4
  <1> QED
    BY <1>5, <1>6

\* A text and what is joined to it.
LEMMA JoinedSpans ==
  ASSUME NEW a, NEW u, NEW x, NEW mid, NEW hi, Spans(a, x, mid), Spans(u, mid, hi)
  PROVE  Spans(Joined(a, u), x, hi)
  <1>1. PICK p : Marks(p, a, x, mid)
    BY DEF Spans
  <1>2. mid \in Nat /\ p[0] = x /\ p[Len(a)] = mid
    BY <1>1 DEF Marks
  <1>3. CASE a = <<>>
    <2>1. x = mid
      <3>1. Len(a) = 0
        BY <1>3
      <3> QED
        BY <1>2, <3>1
    <2> QED
      BY <1>3, <2>1 DEF Joined
  <1>4. CASE a # <<>>
    <2>1. Spans(a \o <<0>>, x, mid)
      BY <1>2, SpansBreak, SpansConcat
    <2>2. Spans((a \o <<0>>) \o u, x, hi)
      BY <2>1, SpansConcat
    <2> QED
      BY <1>4, <2>2 DEF Joined
  <1> QED
    BY <1>3, <1>4

\* What a merge holds once its first units, which end at mid, are added.
Merged(acc, lo, mid) ==
    \/ acc = Nothing /\ lo = mid
    \/ acc.current # <<>> /\ lo <= mid /\ Covering(Append(acc.done, acc.current), lo, mid)

\* The first unit of a merge.
LEMMA FirstUnit ==
  ASSUME NEW unit, NEW lo, NEW hi, TextUnit(unit, lo, hi), overlap \in 0..ChunkSize - 1
  PROVE  Merged(AddUnit(Nothing, unit), lo, hi)
  <1>1. unit \in Seq(Nat) /\ unit # <<>> /\ Spans(unit, lo, hi) /\ lo < hi /\ lo \in Nat /\ hi \in Nat
    BY DEF TextUnit, Cuttable
  <1>2. Nothing \in Merges /\ Nothing.done = <<>> /\ Nothing.current = <<>>
    BY DEF Nothing, Merges
  <1>3. PICK r \in Merges : r = AddUnit(Nothing, unit) /\ r.current # <<>>
    BY <1>1, <1>2, UnitIsAdded
  <1>4. Lap(<<>>) = <<>> /\ Joined(<<>>, unit) = unit
    BY DEF Lap, Joined
  <1>5. lo <= hi
    BY <1>1
  <1>6. CASE Len(unit) <= ChunkSize
    <2>0. ~(Len(unit) > ChunkSize)
      BY <1>1, <1>6, ChunkingConstants DEF ChunkingConstants
    <2>1. r = [Nothing EXCEPT !.current = unit]
      BY <1>2, <1>3, <1>4, <1>6, <2>0 DEF AddUnit
    <2>2. r.done = <<>> /\ r.current = unit
      BY <2>1 DEF Nothing
    <2>3. Append(<<>>, unit) = <<unit>>
      OBVIOUS
    <2>4. Covering(<<unit>>, lo, hi)
      BY <1>1, <1>6, CoverOne DEF Covering
    <2> QED
      BY <1>3, <1>5, <2>2, <2>3, <2>4 DEF Merged
  <1>7. CASE ~(Len(unit) <= ChunkSize)
    <2>1. PICK w : w = FixedSplit(unit, overlap)
      OBVIOUS
    <2>2. r = [done |-> <<>> \o Front(w), current |-> Last(w)]
      BY <1>2, <1>3, <1>4, <1>7, <2>1 DEF AddUnit
    <2>3. w \in Seq(Seq(Nat) \ {<<>>}) /\ w # <<>>
      BY <1>1, <2>1, WindowsTyped
    <2>4. Front(w) \in Seq(Seq(Nat) \ {<<>>}) /\ Append(Front(w), Last(w)) = w
      BY <2>3, FrontAndLast
    <2>5. <<>> \o Front(w) = Front(w)
      BY <2>4, ConcatEmptySeq
    <2>6. r.done = Front(w) /\ r.current = Last(w)
      BY <2>2, <2>5
    <2>7. Covering(w, lo, hi)
      BY <2>1, WindowsCover
    <2> QED
      BY <1>3, <1>5, <2>4, <2>6, <2>7 DEF Merged
  <1> QED
    BY <1>6, <1>7

\* A sequence is made longer at its end.
LEMMA AppendLonger ==
  ASSUME NEW s \in Seq(Seq(Nat)), NEW t \in Seq(Seq(Nat)), NEW x \in Seq(Nat)
  PROVE  Append(s \o t, x) = s \o Append(t, x)
  <1>1. PICK m \in Nat, n \in Nat : m = Len(s) /\ n = Len(t)
    OBVIOUS
  <1>2. PICK c \in Seq(Seq(Nat)) : c = s \o t /\ Len(c) = m + n /\ \A i \in 1..m + n : c[i] = IF i <= m THEN s[i] ELSE t[i - m]
    <2>1. /\ s \o t \in Seq(Seq(Nat)) /\ Len(s \o t) = Len(s) + Len(t)
          /\ \A i \in 1..Len(s) + Len(t) : (s \o t)[i] = IF i <= Len(s) THEN s[i] ELSE t[i - Len(s)]
      BY ConcatProperties
    <2> QED
      BY <1>1, <2>1
  <1>3. PICK l \in Seq(Seq(Nat)) : l = Append(c, x) /\ Len(l) = m + n + 1 /\ l[m + n + 1] = x
                                  /\ \A i \in 1..m + n : l[i] = c[i]
    <2>1. /\ Append(c, x) \in Seq(Seq(Nat)) /\ Len(Append(c, x)) = Len(c) + 1
          /\ Append(c, x)[Len(c) + 1] = x /\ \A i \in 1..Len(c) : Append(c, x)[i] = c[i]
      BY AppendProperties
    <2> QED
      BY <1>2, <2>1
  <1>4. PICK e \in Seq(Seq(Nat)) : e = Append(t, x) /\ Len(e) = n + 1 /\ e[n + 1] = x /\ \A i \in 1..n : e[i] = t[i]
    <2>1. /\ Append(t, x) \in Seq(Seq(Nat)) /\ Len(Append(t, x)) = Len(t) + 1
          /\ Append(t, x)[Len(t) + 1] = x /\ \A i \in 1..Len(t) : Append(t, x)[i] = t[i]
      BY AppendProperties
    <2> QED
      BY <1>1, <2>1
  <1>5. PICK r \in Seq(Seq(Nat)) : r = s \o e /\ Len(r) = m + (n + 1)
                                  /\ \A i \in 1..m + (n + 1) : r[i] = IF i <= m THEN s[i] ELSE e[i - m]
    <2>0. PICK S : S = Seq(Nat)
      OBVIOUS
    <2>1. PICK r \in Seq(S) :
             r = s \o e /\ Len(r) = Len(s) + Len(e)
             /\ \A i \in 1..Len(s) + Len(e) : r[i] = IF i <= Len(s) THEN s[i] ELSE e[i - Len(s)]
      <3>1. s \in Seq(S) /\ e \in Seq(S)
        BY <2>0
      <3>2. /\ s \o e \in Seq(S) /\ Len(s \o e) = Len(s) + Len(e)
            /\ \A i \in 1..Len(s) + Len(e) : (s \o e)[i] = IF i <= Len(s) THEN s[i] ELSE e[i - Len(s)]
        BY <3>1, ConcatProperties
      <3> QED
        BY <3>2
    <2>2. Len(s) = m /\ Len(e) = n + 1
      BY <1>1, <1>4
    <2> QED
      BY <2>0, <2>1, <2>2
  <1>6. ASSUME NEW i \in 1..m + n + 1 PROVE l[i] = r[i]
    <2>1. i \in 1..m + (n + 1)
      OBVIOUS
    <2>2. CASE i <= m
      <3>1. i \in 1..m + n
        BY <2>2
      <3> QED
        BY <1>2, <1>3, <1>5, <2>1, <2>2, <3>1
    <2>3. CASE ~(i <= m) /\ i # m + n + 1
      <3>1. i \in 1..m + n /\ i - m \in 1..n
        BY <2>3
      <3> QED
        BY <1>2, <1>3, <1>4, <1>5, <2>1, <2>3, <3>1
    <2>4. CASE i = m + n + 1
      <3>1. ~(i <= m) /\ i - m = n + 1
        BY <2>4
      <3> QED
        BY <1>3, <1>4, <1>5, <2>1, <2>4, <3>1
    <2> QED
      BY <2>2, <2>3, <2>4
  <1>7. Len(l) = Len(r) /\ \A i \in 1..Len(l) : l[i] = r[i]
    <2>1. m + n + 1 = m + (n + 1) /\ Len(l) = m + n + 1 /\ Len(r) = m + (n + 1)
      BY <1>3, <1>5
    <2>2. \A i \in 1..m + n + 1 : l[i] = r[i]
      BY <1>6
    <2> QED
      BY <2>1, <2>2
  <1>8. l = r
    BY <1>7, SeqEqual
  <1> QED
    BY <1>2, <1>3, <1>4, <1>5, <1>8

\* A later unit.
LEMMA LaterUnit ==
  ASSUME NEW acc \in Merges, acc.current # <<>>, NEW unit, NEW lo \in Nat, NEW mid, NEW hi, TextUnit(unit, mid, hi),
         lo <= mid, Covering(Append(acc.done, acc.current), lo, mid), overlap \in 0..ChunkSize - 1
  PROVE  Merged(AddUnit(acc, unit), lo, hi)
  <1>1. unit \in Seq(Nat) /\ unit # <<>> /\ Spans(unit, mid, hi) /\ mid < hi /\ mid \in Nat /\ hi \in Nat
    BY DEF TextUnit, Cuttable
  <1>2. PICK d \in Seq(Seq(Nat)), c \in Seq(Nat) : acc = [done |-> d, current |-> c] /\ acc.done = d /\ acc.current = c
    BY DEF Merges
  <1>3. PICK r \in Merges : r = AddUnit(acc, unit) /\ r.current # <<>>
    BY <1>1, UnitIsAdded
  <1>4. c # <<>> /\ Covering(Append(d, c), lo, mid) /\ Append(d, c) \in Seq(Seq(Nat))
    BY <1>2
  <1>5. PICK e \in Nat :
           /\ e < mid /\ Spans(c, e, mid)
           /\ \A t \in Seq(Nat), top \in Nat :
                 Spans(t, e, top) /\ mid <= top /\ Len(t) <= ChunkSize => Covering(Append(d, t), lo, top)
    BY <1>4, CoverExtend
  <1>6. PICK j \in Seq(Nat) : j = Joined(c, unit) /\ Spans(j, e, hi)
    BY <1>1, <1>5, JoinedTyped, JoinedSpans
  <1>7. PICK x \in Nat : Spans(Lap(c), x, mid) /\ x <= mid
    BY <1>5, LapSpans
  <1>8. PICK l \in Seq(Nat) : l = Joined(Lap(c), unit) /\ Spans(l, x, hi)
    BY <1>1, <1>7, JoinedTyped, LapTyped, JoinedSpans
  <1>9. lo <= hi /\ mid <= hi /\ x < hi
    BY <1>1, <1>7
  <1>10. Len(j) \in Nat /\ ChunkSize \in Nat
    BY <1>6, ChunkingConstants DEF ChunkingConstants
  <1>11. CASE Len(j) <= ChunkSize
    <2>0. ~(Len(j) > ChunkSize)
      BY <1>10, <1>11
    <2>1. r = [acc EXCEPT !.current = j]
      BY <1>2, <1>3, <1>6, <1>11, <2>0 DEF AddUnit
    <2>2. r.done = d /\ r.current = j
      BY <1>2, <2>1
    <2>3. Covering(Append(d, j), lo, hi)
      BY <1>1, <1>5, <1>6, <1>9, <1>11
    <2> QED
      BY <1>3, <1>9, <2>2, <2>3 DEF Merged
  <1>12. CASE ~(Len(j) <= ChunkSize) /\ Len(l) <= ChunkSize
    <2>0. Len(j) > ChunkSize
      BY <1>10, <1>12
    <2>1. r = [done |-> Append(d, c), current |-> l]
      BY <1>2, <1>3, <1>4, <1>6, <1>8, <1>12, <2>0 DEF AddUnit
    <2>2. r.done = Append(d, c) /\ r.current = l
      BY <2>1
    <2>3. PICK f, g : Covers(f, g, <<l>>, x, hi) /\ g[1] = hi
      <3>1. l \in Seq(Nat) /\ x \in Nat /\ hi \in Nat /\ Spans(l, x, hi) /\ x < hi /\ Len(l) <= ChunkSize
        BY <1>1, <1>8, <1>9, <1>12
      <3> QED
        BY <3>1, CoverOne
    <2>4. Covering(Append(d, c) \o <<l>>, lo, hi)
      <3>1. mid <= g[1]
        BY <1>9, <2>3
      <3> QED
        BY <1>4, <1>7, <2>3, <3>1, CoverJoin
    <2>5. Append(Append(d, c), l) = Append(d, c) \o <<l>>
      BY <1>4, AppendIsConcat
    <2> QED
      BY <1>3, <1>9, <2>2, <2>4, <2>5 DEF Merged
  <1>13. CASE ~(Len(j) <= ChunkSize) /\ ~(Len(l) <= ChunkSize)
    <2>1. PICK w : w = FixedSplit(unit, overlap)
      OBVIOUS
    <2>2. r = [done |-> Append(d, c) \o Front(w), current |-> Last(w)]
      BY <1>2, <1>3, <1>4, <1>6, <1>8, <1>13, <2>1 DEF AddUnit
    <2>3. w \in Seq(Seq(Nat)) /\ w # <<>>
      <3>1. Seq(Nat) \ {<<>>} \subseteq Seq(Nat)
        OBVIOUS
      <3>2. w \in Seq(Seq(Nat) \ {<<>>}) /\ w # <<>>
        BY <1>1, <2>1, WindowsTyped
      <3> QED
        BY <3>1, <3>2, SeqMonotonic
    <2>4. Front(w) \in Seq(Seq(Nat)) /\ Last(w) \in Seq(Nat) /\ Append(Front(w), Last(w)) = w
      BY <2>3, FrontAndLast
    <2>5. PICK f, g : Covers(f, g, w, mid, hi)
      BY <2>1, WindowsCover DEF Covering
    <2>6. mid <= g[1]
      <3>1. 1 \in 1..Len(w)
        BY <2>3
      <3>2. f[1] = mid /\ f[1] < g[1] /\ g[1] \in Nat
        BY <2>5, <3>1 DEF Covers
      <3> QED
        BY <1>1, <3>2
    <2>7. Covering(Append(d, c) \o w, lo, hi)
      BY <1>1, <1>4, <2>5, <2>6, CoverJoin
    <2>8. Append(Append(d, c) \o Front(w), Last(w)) = Append(d, c) \o w
      <3>1. Append(Append(d, c) \o Front(w), Last(w)) = Append(d, c) \o Append(Front(w), Last(w))
        BY <1>4, <2>4, AppendLonger
      <3> QED
        BY <2>4, <3>1
    <2>9. r.done = Append(d, c) \o Front(w) /\ r.current = Last(w)
      BY <2>2
    <2> QED
      BY <1>3, <1>9, <2>7, <2>8, <2>9 DEF Merged
  <1> QED
    BY <1>11, <1>12, <1>13

\* The chunks merged from units hold what the units hold.
LEMMA MergeCovers ==
  ASSUME NEW u, NEW lo \in Nat, NEW hi, Tiling(u, lo, hi), u # <<>>, overlap \in 0..ChunkSize - 1
  PROVE  Covering(MergeUnits(u), lo, hi)
  <1>1. PICK b : Tiles(b, u, lo, hi)
    BY DEF Tiling
  <1>2. PICK n \in Nat : n = Len(u) /\ u \in Seq(Seq(Nat) \ {<<>>})
    BY <1>1 DEF Tiles
  <1>3. b[0] = lo /\ b[n] = hi /\ \A i \in 1..n : TextUnit(u[i], b[i - 1], b[i])
    BY <1>1, <1>2 DEF Tiles
  <1>4. PICK h : /\ h[0] = Nothing /\ FoldLeft(AddUnit, Nothing, u) = h[n] /\ h \in [0..n -> Merges]
                 /\ \A k \in 1..n : h[k] = AddUnit(h[k - 1], u[k])
    BY <1>2, MergeFold
  <1> DEFINE G == {k \in 0..n : Merged(h[k], lo, b[k])}
  <1>5. 0 \in G
    BY <1>3, <1>4 DEF Merged
  <1>6. ASSUME NEW k \in 1..n, k - 1 \in G PROVE k \in G
    <2>1. TextUnit(u[k], b[k - 1], b[k]) /\ h[k] = AddUnit(h[k - 1], u[k]) /\ h[k - 1] \in Merges
      BY <1>3, <1>4
    <2>2. Merged(h[k - 1], lo, b[k - 1])
      BY <1>6
    <2>3. CASE h[k - 1] = Nothing /\ lo = b[k - 1]
      BY <2>1, <2>3, FirstUnit
    <2>4. CASE /\ h[k - 1].current # <<>> /\ lo <= b[k - 1]
               /\ Covering(Append(h[k - 1].done, h[k - 1].current), lo, b[k - 1])
      BY <2>1, <2>4, LaterUnit
    <2> QED
      BY <2>2, <2>3, <2>4 DEF Merged
  <1>7. n \in G
    <2>1. \A k \in 0..n : k \in G
      <3> HIDE DEF G
      <3> QED
        BY <1>5, <1>6, UpTo
    <2> QED
      BY <2>1
  <1>8. n >= 1
    <2>1. n # 0
      BY <1>2
    <2> QED
      BY <2>1
  <1>9. h[n].current # <<>>
    <2>1. n \in 1..n /\ n - 1 \in 0..n
      BY <1>8
    <2>2. h[n] = AddUnit(h[n - 1], u[n]) /\ u[n] \in Seq(Nat) \ {<<>>} /\ h[n - 1] \in Merges
      <3>1. h[n] = AddUnit(h[n - 1], u[n]) /\ h[n - 1] \in Merges
        BY <1>4, <2>1
      <3>2. u[n] \in Seq(Nat) \ {<<>>}
        BY <1>2, <2>1, ElementOfSeq
      <3> QED
        BY <3>1, <3>2
    <2> QED
      BY <2>2, UnitIsAdded
  <1>10. Covering(Append(h[n].done, h[n].current), lo, hi)
    BY <1>3, <1>7, <1>9 DEF Merged, Nothing
  <1>11. MergeUnits(u) = Append(h[n].done, h[n].current)
    BY <1>4, <1>9 DEF MergeUnits, Nothing
  <1> QED
    BY <1>10, <1>11

\* A single unit.
LEMMA TileOne ==
  ASSUME NEW t, NEW lo, NEW hi, TextUnit(t, lo, hi)
  PROVE  Tiling(<<t>>, lo, hi)
  <1>1. t \in Seq(Nat) \ {<<>>} /\ lo \in Nat /\ hi \in Nat
    BY DEF TextUnit, Cuttable
  <1>2. PICK u : u = <<t>> /\ u \in Seq(Seq(Nat) \ {<<>>}) /\ Len(u) = 1 /\ u[1] = t
    <2>1. <<t>> \in Seq(Seq(Nat) \ {<<>>}) /\ Len(<<t>>) = 1 /\ <<t>>[1] = t
      BY <1>1
    <2> QED
      BY <2>1
  <1>3. PICK b : b = [i \in 0..1 |-> IF i = 0 THEN lo ELSE hi]
    OBVIOUS
  <1>4. b \in [0..1 -> Nat] /\ b[0] = lo /\ b[1] = hi
    BY <1>1, <1>3
  <1>5. \A i \in 1..1 : i = 1 /\ i - 1 = 0
    OBVIOUS
  <1>6. Tiles(b, u, lo, hi)
    BY <1>2, <1>4, <1>5 DEF Tiles
  <1> QED
    BY <1>2, <1>6 DEF Tiling

\* No unit.
LEMMA TileNone ==
  ASSUME NEW lo \in Nat
  PROVE  Tiling(<<>>, lo, lo)
  <1>1. PICK b : b = [i \in 0..0 |-> lo]
    OBVIOUS
  <1>2. b \in [0..0 -> Nat] /\ b[0] = lo
    BY <1>1
  <1>3. Len(<<>>) = 0 /\ <<>> \in Seq(Seq(Nat) \ {<<>>}) /\ 1..0 = {}
    OBVIOUS
  <1>4. Tiles(b, <<>>, lo, lo)
    BY <1>2, <1>3 DEF Tiles
  <1> QED
    BY <1>4 DEF Tiling

\* Units followed by units.
LEMMA TileConcat ==
  ASSUME NEW s, NEW t, NEW lo, NEW mid, NEW hi, Tiling(s, lo, mid), Tiling(t, mid, hi)
  PROVE  Tiling(s \o t, lo, hi)
  <1>0. PICK S : S = Seq(Nat) \ {<<>>}
    OBVIOUS
  <1>1. PICK b : Tiles(b, s, lo, mid)
    BY DEF Tiling
  <1>2. PICK c : Tiles(c, t, mid, hi)
    BY DEF Tiling
  <1>3. PICK m \in Nat, n \in Nat : m = Len(s) /\ n = Len(t) /\ s \in Seq(S) /\ t \in Seq(S)
    BY <1>0, <1>1, <1>2 DEF Tiles
  <1>4. /\ b \in [0..m -> Nat] /\ b[0] = lo /\ b[m] = mid /\ c \in [0..n -> Nat] /\ c[0] = mid /\ c[n] = hi
        /\ \A i \in 1..m : TextUnit(s[i], b[i - 1], b[i])
        /\ \A i \in 1..n : TextUnit(t[i], c[i - 1], c[i])
    BY <1>1, <1>2, <1>3 DEF Tiles
  <1>5. PICK u \in Seq(S) : /\ u = s \o t /\ Len(u) = m + n
                            /\ \A i \in 1..m + n : u[i] = IF i <= m THEN s[i] ELSE t[i - m]
    <2>1. /\ s \o t \in Seq(S) /\ Len(s \o t) = Len(s) + Len(t)
          /\ \A i \in 1..Len(s) + Len(t) : (s \o t)[i] = IF i <= Len(s) THEN s[i] ELSE t[i - Len(s)]
      BY <1>3, ConcatProperties
    <2> QED
      BY <1>3, <2>1
  <1>6. PICK d : d = [i \in 0..m + n |-> IF i <= m THEN b[i] ELSE c[i - m]]
    OBVIOUS
  <1>7. ASSUME NEW i \in 0..m PROVE d[i] = b[i]
    <2>1. i \in 0..m + n /\ i <= m
      OBVIOUS
    <2> QED
      BY <1>6, <2>1
  <1>8. ASSUME NEW i \in 0..n PROVE d[m + i] = c[i]
    <2>1. CASE i = 0
      <3>1. m \in 0..m /\ m + i = m
        BY <2>1
      <3> QED
        BY <1>4, <1>7, <2>1, <3>1
    <2>2. CASE i # 0
      <3>1. m + i \in 0..m + n /\ ~(m + i <= m) /\ (m + i) - m = i
        BY <2>2
      <3> QED
        BY <1>6, <3>1
    <2> QED
      BY <2>1, <2>2
  <1>9. ASSUME NEW i \in 1..m + n PROVE TextUnit(u[i], d[i - 1], d[i])
    <2>1. CASE i <= m
      <3>1. i \in 1..m /\ i \in 0..m /\ i - 1 \in 0..m
        BY <2>1
      <3> QED
        BY <1>4, <1>5, <1>7, <2>1, <3>1
    <2>2. CASE ~(i <= m)
      <3>1. PICK j \in 1..n : j = i - m
        <4>1. i - m \in 1..n
          BY <2>2
        <4> QED
          BY <4>1
      <3>2. i = m + j /\ i - 1 = m + (j - 1) /\ j \in 0..n /\ j - 1 \in 0..n
        BY <3>1
      <3>3. u[i] = t[j]
        BY <1>5, <2>2, <3>1
      <3>4. d[i] = c[j] /\ d[i - 1] = c[j - 1]
        BY <1>8, <3>2
      <3> QED
        BY <1>4, <3>3, <3>4
    <2> QED
      BY <2>1, <2>2
  <1>10. d \in [0..m + n -> Nat]
    <2>1. ASSUME NEW i \in 0..m + n PROVE d[i] \in Nat
      <3>1. CASE i <= m
        <4>1. i \in 0..m
          BY <3>1
        <4> QED
          BY <1>4, <1>7, <4>1
      <3>2. CASE ~(i <= m)
        <4>1. i - m \in 0..n /\ i = m + (i - m)
          BY <3>2
        <4> QED
          BY <1>4, <1>8, <4>1
      <3> QED
        BY <3>1, <3>2
    <2> QED
      BY <1>6, <2>1
  <1>11. d[0] = lo /\ d[m + n] = hi
    <2>1. 0 \in 0..m /\ n \in 0..n
      OBVIOUS
    <2> QED
      BY <1>4, <1>7, <1>8, <2>1
  <1>12. Tiles(d, u, lo, hi)
    BY <1>0, <1>5, <1>9, <1>10, <1>11 DEF Tiles
  <1> QED
    BY <1>5, <1>12 DEF Tiling

\* Lists of units, one after the other.
LEMMA FlatTiles ==
  ASSUME NEW n \in Nat, NEW ls, NEW b, DOMAIN ls = 1..n, ls = [i \in 1..n |-> ls[i]],
         \A i \in 0..n : b[i] \in Nat, \A i \in 1..n : Tiling(ls[i], b[i - 1], b[i])
  PROVE  Tiling(Flat(ls), b[0], b[n])
  <1>0. PICK S : S = Seq(Nat) \ {<<>>}
    OBVIOUS
  <1>1. ls \in Seq(Seq(S)) /\ Len(ls) = n
    <2>1. \A i \in 1..n : ls[i] \in Seq(S)
      BY <1>0 DEF Tiling, Tiles
    <2>2. ls \in [1..n -> Seq(S)]
      BY <2>1
    <2> QED
      BY <2>2
  <1>2. PICK h : h[0] = <<>> /\ Flat(ls) = h[n] /\ \A k \in 1..n : h[k] = Attach(h[k - 1], ls[k])
    <2>1. \E h : /\ h[0] = <<>> /\ Flat(ls) = h[Len(ls)]
                 /\ h \in [0..Len(ls) -> Seq(S)]
                 /\ \A k \in 1..Len(ls) : h[k] = Attach(h[k - 1], ls[k])
      BY <1>1, FlatFold
    <2> QED
      BY <1>1, <2>1
  <1> DEFINE G == {k \in 0..n : Tiling(h[k], b[0], b[k])}
  <1>3. 0 \in G
    <2>1. 0 \in 0..n
      OBVIOUS
    <2> QED
      BY <1>2, <2>1, TileNone
  <1>4. ASSUME NEW k \in 1..n, k - 1 \in G PROVE k \in G
    <2>1. Tiling(h[k - 1], b[0], b[k - 1])
      BY <1>4
    <2>2. h[k] = h[k - 1] \o ls[k]
      BY <1>2 DEF Attach
    <2>3. Tiling(h[k], b[0], b[k])
      BY <2>1, <2>2, TileConcat
    <2> QED
      BY <2>3
  <1>5. n \in G
    <2>1. \A k \in 0..n : k \in G
      <3> HIDE DEF G
      <3> QED
        BY <1>3, <1>4, UpTo
    <2> QED
      BY <2>1
  <1> QED
    BY <1>2, <1>5

\* There is a letter at each place or one of the next two.
Dense(t) == \A a \in 1..Len(t) : \E k \in a..a + 2 : k <= Len(t) /\ t[k] # 0

\* Two such texts.
LEMMA DenseConcat ==
  ASSUME NEW s \in Seq(Nat), NEW t \in Seq(Nat), Dense(s), Dense(t)
  PROVE  Dense(s \o t)
  <1>1. PICK m \in Nat, n \in Nat : m = Len(s) /\ n = Len(t)
    OBVIOUS
  <1>2. PICK u \in Seq(Nat) : u = s \o t /\ Len(u) = m + n /\ \A i \in 1..m + n : u[i] = IF i <= m THEN s[i] ELSE t[i - m]
    <2>1. /\ s \o t \in Seq(Nat) /\ Len(s \o t) = Len(s) + Len(t)
          /\ \A i \in 1..Len(s) + Len(t) : (s \o t)[i] = IF i <= Len(s) THEN s[i] ELSE t[i - Len(s)]
      BY ConcatProperties
    <2> QED
      BY <1>1, <2>1
  <1>3. ASSUME NEW a \in 1..m + n PROVE \E k \in a..a + 2 : k <= m + n /\ u[k] # 0
    <2>1. CASE a <= m
      <3>1. PICK k \in a..a + 2 : k <= m /\ s[k] # 0
        <4>1. a \in 1..m
          BY <2>1
        <4> QED
          BY <1>1, <4>1 DEF Dense
      <3>2. k \in 1..m + n /\ k <= m + n
        BY <3>1
      <3>3. u[k] = s[k]
        BY <1>2, <3>1, <3>2
      <3> QED
        BY <3>1, <3>2, <3>3
    <2>2. CASE ~(a <= m)
      <3>1. PICK j \in (a - m)..(a - m) + 2 : j <= n /\ t[j] # 0
        <4>1. a - m \in 1..n
          BY <2>2
        <4> QED
          BY <1>1, <4>1 DEF Dense
      <3>2. m + j \in 1..m + n /\ m + j \in a..a + 2 /\ ~(m + j <= m) /\ (m + j) - m = j /\ m + j <= m + n
        BY <2>2, <3>1
      <3> QED
        BY <1>2, <3>1, <3>2
    <2> QED
      BY <2>1, <2>2
  <1> QED
    BY <1>2, <1>3 DEF Dense

\* A text without line breaks, and one after an empty line.
LEMMA DenseRun ==
  ASSUME NEW t \in Seq(Nat), t # <<>>, \A k \in 1..Len(t) : t[k] # 0
  PROVE  Dense(t) /\ Dense(<<0, 0>> \o t)
  <1>1. PICK n \in Nat : n = Len(t) /\ n >= 1
    <2>1. PICK n \in Nat : n = Len(t)
      OBVIOUS
    <2>2. n # 0
      BY <2>1
    <2> QED
      BY <2>1, <2>2
  <1>2. Dense(t)
    <2>1. ASSUME NEW a \in 1..n PROVE \E k \in a..a + 2 : k <= n /\ t[k] # 0
      <3>1. a \in a..a + 2 /\ a <= n
        OBVIOUS
      <3> QED
        BY <1>1, <3>1
    <2> QED
      BY <1>1, <2>1 DEF Dense
  <1>3. PICK u \in Seq(Nat) : u = <<0, 0>> \o t /\ Len(u) = 2 + n /\ \A i \in 1..2 + n : i > 2 => u[i] # 0
    <2>0. PICK z \in Seq(Nat) : z = <<0, 0>> /\ Len(z) = 2
      <3>1. <<0, 0>> \in Seq(Nat) /\ Len(<<0, 0>>) = 2
        OBVIOUS
      <3> QED
        BY <3>1
    <2>1. /\ z \o t \in Seq(Nat) /\ Len(z \o t) = 2 + n
          /\ \A i \in 1..2 + n : (z \o t)[i] = IF i <= 2 THEN z[i] ELSE t[i - 2]
      <3>1. /\ z \o t \in Seq(Nat) /\ Len(z \o t) = Len(z) + Len(t)
            /\ \A i \in 1..Len(z) + Len(t) : (z \o t)[i] = IF i <= Len(z) THEN z[i] ELSE t[i - Len(z)]
        BY ConcatProperties
      <3> QED
        BY <1>1, <2>0, <3>1
    <2>2. \A i \in 1..2 + n : i > 2 => ~(i <= 2) /\ i - 2 \in 1..n
      OBVIOUS
    <2>3. \A i \in 1..2 + n : i > 2 => (z \o t)[i] # 0
      BY <1>1, <2>1, <2>2
    <2> QED
      BY <2>0, <2>1, <2>3
  <1>4. ASSUME NEW a \in 1..2 + n PROVE \E k \in a..a + 2 : k <= 2 + n /\ u[k] # 0
    <2>1. CASE a > 2
      <3>1. a \in a..a + 2 /\ a <= 2 + n
        OBVIOUS
      <3> QED
        BY <1>3, <2>1, <3>1
    <2>2. CASE ~(a > 2)
      <3>1. 3 \in a..a + 2 /\ 3 <= 2 + n /\ 3 \in 1..2 + n /\ 3 > 2
        BY <1>1, <2>2
      <3> QED
        BY <1>3, <3>1
    <2> QED
      BY <2>1, <2>2
  <1>5. Dense(u)
    BY <1>3, <1>4 DEF Dense
  <1> QED
    BY <1>2, <1>3, <1>5

\* Texts, one after the other.
LEMMA FlatSpans ==
  ASSUME NEW n \in Nat, NEW ls \in [1..n -> Seq(Nat)], NEW b, b[0] \in Nat,
         \A i \in 1..n : Spans(ls[i], b[i - 1], b[i]) /\ Dense(ls[i])
  PROVE  Spans(Flat(ls), b[0], b[n]) /\ Dense(Flat(ls))
  <1>1. ls \in Seq(Seq(Nat)) /\ Len(ls) = n
    OBVIOUS
  <1>2. PICK h : h[0] = <<>> /\ Flat(ls) = h[n] /\ \A k \in 1..n : h[k] = Attach(h[k - 1], ls[k])
    <2>1. \E h : /\ h[0] = <<>> /\ Flat(ls) = h[Len(ls)]
                 /\ h \in [0..Len(ls) -> Seq(Nat)]
                 /\ \A k \in 1..Len(ls) : h[k] = Attach(h[k - 1], ls[k])
      BY <1>1, FlatFold
    <2> QED
      BY <1>1, <2>1
  <1> DEFINE G == {k \in 0..n : Spans(h[k], b[0], b[k]) /\ Dense(h[k])}
  <1>3. 0 \in G
    <2>1. 0 \in 0..n /\ Spans(<<>>, b[0], b[0])
      BY SpansBreak
    <2>2. Dense(<<>>)
      <3>1. Len(<<>>) = 0 /\ 1..0 = {}
        OBVIOUS
      <3> QED
        BY <3>1 DEF Dense
    <2> QED
      BY <1>2, <2>1, <2>2
  <1>4. ASSUME NEW k \in 1..n, k - 1 \in G PROVE k \in G
    <2>1. Spans(h[k - 1], b[0], b[k - 1]) /\ Dense(h[k - 1])
      BY <1>4
    <2>2. h[k] = h[k - 1] \o ls[k]
      BY <1>2 DEF Attach
    <2>3. Spans(h[k], b[0], b[k])
      BY <2>1, <2>2, SpansConcat
    <2>4. h[k - 1] \in Seq(Nat) /\ ls[k] \in Seq(Nat)
      BY <2>1 DEF Spans, Marks
    <2>5. Dense(h[k])
      BY <2>1, <2>2, <2>4, DenseConcat
    <2> QED
      BY <2>3, <2>5
  <1>5. n \in G
    <2>1. \A k \in 0..n : k \in G
      <3> HIDE DEF G
      <3> QED
        BY <1>3, <1>4, UpTo
    <2> QED
      BY <2>1
  <1> QED
    BY <1>2, <1>5

\* Lengths of which none is zero add up to one that is not.
LEMMA TotalPositive ==
  ASSUME NEW s \in Seq(Nat \ {0}), s # <<>>
  PROVE  s \in Seq(Nat) /\ Total(s) \in Nat /\ Total(s) >= 1
  <1>1. s \in Seq(Nat)
    <2>1. Nat \ {0} \subseteq Nat
      OBVIOUS
    <2> QED
      BY <2>1, SeqMonotonic
  <1>2. PICK n \in Nat : n = Len(s) /\ n >= 1
    <2>1. PICK n \in Nat : n = Len(s)
      OBVIOUS
    <2>2. n # 0
      BY <2>1
    <2> QED
      BY <2>1, <2>2
  <1>3. /\ Before(s, 1) = 0 /\ Before(s, n + 1) = Total(s) /\ Total(s) \in Nat
        /\ \A i \in 1..n : Before(s, i) \in Nat /\ Before(s, i + 1) = Before(s, i) + s[i]
    BY <1>1, <1>2, SumsBefore
  <1>4. s[n] \in Nat /\ s[n] >= 1
    <2>1. s[n] \in Nat \ {0}
      BY <1>2
    <2>2. PICK x \in Nat : x = s[n] /\ x # 0
      BY <2>1
    <2>3. x >= 1
      BY <2>2
    <2> QED
      BY <2>2, <2>3
  <1>5. n \in 1..n
    BY <1>2
  <1>6. Before(s, n) \in Nat /\ Before(s, n + 1) = Before(s, n) + s[n]
    BY <1>3, <1>5
  <1>7. Before(s, n) + s[n] >= 1
    BY <1>4, <1>6
  <1> QED
    BY <1>1, <1>3, <1>6, <1>7

\* The lengths of the paragraphs of a segment.
LEMMA ShapeSizes ==
  ASSUME NEW shape \in Shapes
  PROVE  /\ shape \in Seq(Seq(Nat \ {0}) \ {<<>>}) /\ Sizes(shape) \in Seq(Nat) /\ Len(Sizes(shape)) = Len(shape)
         /\ \A i \in 1..Len(shape) : /\ shape[i] \in Seq(Nat \ {0}) \ {<<>>} /\ Sizes(shape)[i] = Total(shape[i])
                                     /\ Sizes(shape)[i] \in Nat /\ Sizes(shape)[i] >= 1
  <1>1. shape \in Seq(Seq(Nat \ {0}) \ {<<>>})
    BY ChunkingConstants DEF ChunkingConstants
  <1>2. PICK n \in Nat : n = Len(shape) /\ DOMAIN shape = 1..n
    <2>1. PICK S : S = Seq(Nat \ {0}) \ {<<>>}
      OBVIOUS
    <2>2. shape \in Seq(S)
      BY <1>1, <2>1
    <2> QED
      BY <2>2
  <1>3. ASSUME NEW i \in 1..n
        PROVE  shape[i] \in Seq(Nat \ {0}) \ {<<>>} /\ Total(shape[i]) \in Nat /\ Total(shape[i]) >= 1
    <2>1. shape[i] \in Seq(Nat \ {0}) \ {<<>>}
      BY <1>1, <1>2, ElementOfSeq
    <2> QED
      BY <2>1, TotalPositive
  <1>4. Sizes(shape) = [i \in 1..n |-> Total(shape[i])]
    BY <1>2 DEF Sizes
  <1>5. Sizes(shape) \in Seq(Nat) /\ Len(Sizes(shape)) = n /\ \A i \in 1..n : Sizes(shape)[i] = Total(shape[i])
    <2>1. Sizes(shape) \in [1..n -> Nat]
      BY <1>3, <1>4
    <2> QED
      BY <1>4, <2>1
  <1> QED
    BY <1>1, <1>2, <1>3, <1>5

\* Where the paragraphs end.
Places(shape) == [i \in 0..Len(shape) |-> Before(Sizes(shape), i + 1)]

\* The places of a segment and of its paragraphs.
LEMMA ParagraphSpans ==
  ASSUME NEW shape \in Shapes
  PROVE  /\ Len(shape) \in Nat /\ DOMAIN shape = 1..Len(shape)
         /\ \A i \in 0..Len(shape) : Places(shape)[i] \in Nat
         /\ Places(shape)[0] = 0 /\ Places(shape)[Len(shape)] = Total(Sizes(shape))
         /\ \A i \in 1..Len(shape) :
               LET t == Paragraph(shape, i) IN
               /\ t \in Seq(Nat) /\ t # <<>> /\ \A k \in 1..Len(t) : t[k] # 0
               /\ Len(t) = Sizes(shape)[i]
               /\ Spans(t, Places(shape)[i - 1], Places(shape)[i])
               /\ Before(Sizes(shape), i) = Places(shape)[i - 1]
               /\ Places(shape)[i] = Places(shape)[i - 1] + Sizes(shape)[i]
  <1>1. PICK s \in Seq(Nat), n \in Nat :
           /\ s = Sizes(shape) /\ n = Len(shape) /\ Len(s) = n
           /\ \A i \in 1..n : s[i] \in Nat /\ s[i] >= 1
    <2>1. Len(shape) \in Nat
      <3>1. PICK S : S = Seq(Nat \ {0}) \ {<<>>}
        OBVIOUS
      <3>2. shape \in Seq(S)
        BY <3>1, ShapeSizes
      <3> QED
        BY <3>2
    <2>2. Sizes(shape) \in Seq(Nat) /\ Len(Sizes(shape)) = Len(shape)
      BY ShapeSizes
    <2>3. \A i \in 1..Len(shape) : Sizes(shape)[i] \in Nat /\ Sizes(shape)[i] >= 1
      BY ShapeSizes
    <2> QED
      BY <2>1, <2>2, <2>3
  <1>d. DOMAIN shape = 1..n
    <2>1. PICK S : S = Seq(Nat \ {0}) \ {<<>>}
      OBVIOUS
    <2>2. shape \in Seq(S)
      BY <2>1, ShapeSizes
    <2> QED
      BY <1>1, <2>2
  <1>2. /\ Before(s, 1) = 0 /\ Before(s, n + 1) = Total(s) /\ Total(s) \in Nat
        /\ \A i \in 1..n : Before(s, i) \in Nat /\ Before(s, i + 1) = Before(s, i) + s[i]
    BY <1>1, SumsBefore
  <1>3. PICK b : b = Places(shape) /\ b = [i \in 0..n |-> Before(s, i + 1)]
    BY <1>1 DEF Places
  <1>4. b[0] = 0 /\ b[n] = Total(s)
    <2>1. 0 \in 0..n /\ n \in 0..n /\ 0 + 1 = 1
      OBVIOUS
    <2> QED
      BY <1>2, <1>3, <2>1
  <1>5. ASSUME NEW i \in 1..n
        PROVE  Before(s, i) = b[i - 1] /\ b[i] = b[i - 1] + s[i] /\ b[i - 1] \in Nat /\ b[i] \in Nat
    <2>1. i - 1 \in 0..n /\ i \in 0..n /\ (i - 1) + 1 = i
      OBVIOUS
    <2>2. b[i - 1] = Before(s, i) /\ b[i] = Before(s, i + 1)
      BY <1>3, <2>1
    <2>3. PICK x \in Nat, y \in Nat : x = Before(s, i) /\ y = s[i] /\ Before(s, i + 1) = x + y
      BY <1>1, <1>2
    <2> QED
      BY <2>2, <2>3
  <1>6. \A i \in 0..n : b[i] \in Nat
    <2> SUFFICES ASSUME NEW i \in 0..n PROVE b[i] \in Nat
      OBVIOUS
    <2>1. CASE i = 0
      BY <1>4, <2>1
    <2>2. CASE i # 0
      <3>1. i \in 1..n
        BY <2>2
      <3> QED
        BY <1>5, <3>1
    <2> QED
      BY <2>1, <2>2
  <1>7. ASSUME NEW i \in 1..n, NEW t, t = Paragraph(shape, i)
        PROVE  /\ t \in Seq(Nat) /\ t # <<>> /\ \A k \in 1..Len(t) : t[k] # 0
               /\ Len(t) = s[i] /\ Spans(t, b[i - 1], b[i])
    <2>1. PICK x \in Nat, y \in Nat : x = b[i - 1] /\ y = s[i] /\ y >= 1 /\ b[i] = x + y /\ Before(s, i) = x
      BY <1>1, <1>5
    <2>2. t = Run(x + 1, y)
      BY <1>1, <1>7, <2>1 DEF Paragraph
    <2>3. t \in Seq(Nat) /\ Len(t) = y /\ Spans(t, x, x + y) /\ \A k \in 1..y : t[k] # 0
      BY <2>2, SpansRun
    <2>4. t # <<>>
      <3>1. Len(t) # 0
        BY <2>1, <2>3
      <3> QED
        BY <3>1
    <2> QED
      BY <2>1, <2>3, <2>4
  <1>8. \A i \in 1..n :
           LET t == Paragraph(shape, i) IN
           /\ t \in Seq(Nat) /\ t # <<>> /\ \A k \in 1..Len(t) : t[k] # 0
           /\ Len(t) = s[i] /\ Spans(t, b[i - 1], b[i])
    BY <1>7
  <1>9. \A i \in 1..n : Before(s, i) = b[i - 1] /\ b[i] = b[i - 1] + s[i]
    BY <1>5
  <1> QED
    BY <1>1, <1>3, <1>4, <1>6, <1>8, <1>9, <1>d

\* A paragraph is a unit, and so are its windows without an overlap.
LEMMA ParagraphTiles ==
  ASSUME NEW shape \in Shapes, NEW i \in 1..Len(shape)
  PROVE  /\ TextUnit(Paragraph(shape, i), Places(shape)[i - 1], Places(shape)[i])
         /\ Tiling(FixedSplit(Paragraph(shape, i), 0), Places(shape)[i - 1], Places(shape)[i])
  <1>1. PICK t : t = Paragraph(shape, i)
    OBVIOUS
  <1>2. t \in Seq(Nat) /\ t # <<>> /\ Spans(t, Places(shape)[i - 1], Places(shape)[i]) /\ \A k \in 1..Len(t) : t[k] # 0
    BY <1>1, ParagraphSpans
  <1> QED
    BY <1>1, <1>2, WindowsTile

\* So are the windows of its sentences.
LEMMA SentencesTile ==
  ASSUME NEW shape \in Shapes, NEW i \in 1..Len(shape)
  PROVE  Tiling(SplitLongParagraph(shape, i), Places(shape)[i - 1], Places(shape)[i])
  <1>1. PICK s : s = shape[i] /\ s \in Seq(Nat \ {0}) \ {<<>>} /\ Sizes(shape)[i] = Total(s)
    BY ShapeSizes
  <1>2. PICK n \in Nat : n = Len(s) /\ s \in Seq(Nat) /\ DOMAIN s = 1..n
    BY <1>1, TotalPositive
  <1>3. /\ Before(s, 1) = 0 /\ Before(s, n + 1) = Total(s) /\ Total(s) \in Nat
        /\ \A j \in 1..n : Before(s, j) \in Nat /\ Before(s, j + 1) = Before(s, j) + s[j]
    BY <1>2, SumsBefore
  <1>4. PICK lo \in Nat : /\ lo = Places(shape)[i - 1] /\ Before(Sizes(shape), i) = lo
                          /\ Places(shape)[i] = lo + Total(s)
    <2>1. i - 1 \in 0..Len(shape) /\ Len(shape) \in Nat
      <3>1. Len(shape) \in Nat
        BY ParagraphSpans
      <3> QED
        BY <3>1
    <2>2. /\ Places(shape)[i - 1] \in Nat /\ Before(Sizes(shape), i) = Places(shape)[i - 1]
          /\ Places(shape)[i] = Places(shape)[i - 1] + Sizes(shape)[i]
      BY <2>1, ParagraphSpans
    <2> QED
      BY <1>1, <2>2
  <1>5. PICK b : b = [j \in 0..n |-> lo + Before(s, j + 1)]
    OBVIOUS
  <1>6. \A j \in 0..n : b[j] \in Nat
    <2> SUFFICES ASSUME NEW j \in 0..n PROVE b[j] \in Nat
      OBVIOUS
    <2>1. Before(s, j + 1) \in Nat
      <3>1. CASE j = n
        BY <1>3, <3>1
      <3>2. CASE j # n
        <4>1. j + 1 \in 1..n
          BY <3>2
        <4> QED
          BY <1>3, <4>1
      <3> QED
        BY <3>1, <3>2
    <2> QED
      BY <1>5, <2>1
  <1>7. b[0] = lo /\ b[n] = lo + Total(s)
    <2>1. 0 \in 0..n /\ n \in 0..n /\ 0 + 1 = 1 /\ lo + 0 = lo
      OBVIOUS
    <2> QED
      BY <1>3, <1>5, <2>1
  <1>8. PICK ls : ls = [j \in 1..n |-> FixedSplit(Sentence(shape, i, j), 0)]
    OBVIOUS
  <1>9. ASSUME NEW j \in 1..n PROVE Tiling(ls[j], b[j - 1], b[j])
    <2>1. PICK x \in Nat, y \in Nat : x = Before(s, j) /\ y = s[j] /\ y # 0 /\ Before(s, j + 1) = x + y
      <3>1. s[j] \in Nat \ {0}
        BY <1>1, <1>2, ElementOfSeq
      <3> QED
        BY <1>3, <3>1
    <2>2. b[j - 1] = lo + x /\ b[j] = (lo + x) + y
      <3>1. j - 1 \in 0..n /\ j \in 0..n /\ (j - 1) + 1 = j /\ lo + (x + y) = (lo + x) + y
        OBVIOUS
      <3> QED
        BY <1>5, <2>1, <3>1
    <2>3. PICK t : t = Sentence(shape, i, j)
      OBVIOUS
    <2>4. t = Run((lo + x) + 1, y)
      BY <1>1, <1>4, <2>1, <2>3 DEF Sentence
    <2>5. lo + x \in Nat
      OBVIOUS
    <2>6. t \in Seq(Nat) /\ Len(t) = y /\ Spans(t, lo + x, (lo + x) + y) /\ \A k \in 1..y : t[k] # 0
      BY <2>4, <2>5, SpansRun
    <2>7. t # <<>>
      BY <2>1, <2>6
    <2>8. Tiling(FixedSplit(t, 0), b[j - 1], b[j])
      BY <2>2, <2>6, <2>7, WindowsTile
    <2> QED
      BY <1>8, <2>3, <2>8
  <1>10. Tiling(Flat(ls), b[0], b[n])
    <2>1. DOMAIN ls = 1..n /\ ls = [j \in 1..n |-> ls[j]]
      BY <1>8
    <2> QED
      BY <1>6, <1>9, <2>1, FlatTiles
  <1>11. SplitLongParagraph(shape, i) = Flat(ls)
    BY <1>1, <1>2, <1>8 DEF SplitLongParagraph
  <1> QED
    BY <1>4, <1>7, <1>10, <1>11

\* The text of a segment is not empty.
LEMMA ShapeEnds ==
  ASSUME NEW shape \in Shapes, shape # <<>>
  PROVE  Total(Sizes(shape)) \in Nat /\ Total(Sizes(shape)) >= 1 /\ Len(shape) >= 1
  <1>1. PICK n \in Nat : n = Len(shape) /\ n # 0
    <2>1. PICK S : S = Seq(Nat \ {0}) \ {<<>>}
      OBVIOUS
    <2>2. shape \in Seq(S)
      BY <2>1, ShapeSizes
    <2> QED
      BY <2>2
  <1>2. PICK s \in Seq(Nat) : s = Sizes(shape) /\ Len(s) = n /\ \A i \in 1..n : s[i] \in Nat /\ s[i] >= 1
    <2>1. Sizes(shape) \in Seq(Nat) /\ Len(Sizes(shape)) = Len(shape)
      BY ShapeSizes
    <2>2. \A i \in 1..Len(shape) : Sizes(shape)[i] \in Nat /\ Sizes(shape)[i] >= 1
      BY ShapeSizes
    <2> QED
      BY <1>1, <2>1, <2>2
  <1>3. s \in Seq(Nat \ {0}) /\ s # <<>>
    <2>1. \A i \in 1..n : s[i] \in Nat \ {0}
      BY <1>2
    <2>2. s = [i \in 1..n |-> s[i]]
      BY <1>2
    <2>3. s \in [1..n -> Nat \ {0}]
      BY <2>1, <2>2
    <2> QED
      BY <1>1, <1>2, <2>3
  <1> QED
    BY <1>1, <1>2, <1>3, TotalPositive

\* Units that hold something are not without a unit.
LEMMA TilesAreSome ==
  ASSUME NEW u, NEW lo, NEW hi, Tiling(u, lo, hi), lo # hi
  PROVE  u # <<>> /\ u \in Seq(Seq(Nat) \ {<<>>})
  <1>1. PICK b : Tiles(b, u, lo, hi)
    BY DEF Tiling
  <1>2. b[0] = lo /\ b[Len(u)] = hi /\ u \in Seq(Seq(Nat) \ {<<>>})
    BY <1>1 DEF Tiles
  <1>3. u # <<>>
    <2> SUFFICES ASSUME u = <<>> PROVE FALSE
      OBVIOUS
    <2>1. Len(u) = 0
      OBVIOUS
    <2> QED
      BY <1>2, <2>1
  <1> QED
    BY <1>2, <1>3

\* Units of a segment, paragraph after paragraph, are merged into its chunks.
LEMMA MergedParagraphs ==
  ASSUME NEW shape \in Shapes, shape # <<>>, overlap \in 0..ChunkSize - 1, NEW ls,
         ls = [i \in DOMAIN shape |-> ls[i]],
         \A i \in 1..Len(shape) : Tiling(ls[i], Places(shape)[i - 1], Places(shape)[i])
  PROVE  Covering(MergeUnits(Flat(ls)), 0, Total(Sizes(shape)))
  <1>1. PICK n \in Nat : n = Len(shape) /\ DOMAIN shape = 1..n
    BY ParagraphSpans
  <1>2. PICK b : /\ b = Places(shape) /\ b[0] = 0 /\ b[n] = Total(Sizes(shape))
                 /\ \A i \in 0..n : b[i] \in Nat
    BY <1>1, ParagraphSpans
  <1>3. DOMAIN ls = 1..n /\ ls = [i \in 1..n |-> ls[i]]
    BY <1>1
  <1>4. Tiling(Flat(ls), b[0], b[n])
    <2>1. \A i \in 1..n : Tiling(ls[i], b[i - 1], b[i])
      BY <1>1, <1>2
    <2> QED
      BY <1>2, <1>3, <2>1, FlatTiles
  <1>5. b[n] # 0
    BY <1>2, ShapeEnds
  <1>6. Flat(ls) # <<>>
    BY <1>2, <1>4, <1>5, TilesAreSome
  <1>7. 0 \in Nat
    OBVIOUS
  <1> QED
    BY <1>2, <1>4, <1>6, <1>7, MergeCovers

\* _paragraph_split
LEMMA ParagraphSplitCovers ==
  ASSUME NEW shape \in Shapes, shape # <<>>, overlap \in 0..ChunkSize - 1
  PROVE  Covering(ParagraphSplit(shape), 0, Total(Sizes(shape)))
  <1>1. PICK ls : ls = [i \in DOMAIN shape |-> FixedSplit(Paragraph(shape, i), 0)]
    OBVIOUS
  <1>2. DOMAIN shape = 1..Len(shape)
    BY ParagraphSpans
  <1>3. ls = [i \in DOMAIN shape |-> ls[i]]
    BY <1>1
  <1>4. \A i \in 1..Len(shape) : Tiling(ls[i], Places(shape)[i - 1], Places(shape)[i])
    BY <1>1, <1>2, ParagraphTiles
  <1>5. Covering(MergeUnits(Flat(ls)), 0, Total(Sizes(shape)))
    BY <1>3, <1>4, MergedParagraphs
  <1> QED
    BY <1>1, <1>5 DEF ParagraphSplit

\* The text of a segment.
LEMMA WholeSpans ==
  ASSUME NEW shape \in Shapes
  PROVE  Spans(Whole(shape), 0, Total(Sizes(shape))) /\ Dense(Whole(shape))
  <1>1. PICK n \in Nat : n = Len(shape) /\ DOMAIN shape = 1..n
    BY ParagraphSpans
  <1>2. PICK b : /\ b = Places(shape) /\ b[0] = 0 /\ b[n] = Total(Sizes(shape))
                 /\ \A i \in 0..n : b[i] \in Nat
    BY <1>1, ParagraphSpans
  <1>3. PICK ls : ls = [i \in 1..n |-> IF i = 1 THEN Paragraph(shape, i) ELSE <<0, 0>> \o Paragraph(shape, i)]
    OBVIOUS
  <1>4. ASSUME NEW i \in 1..n PROVE ls[i] \in Seq(Nat) /\ Spans(ls[i], b[i - 1], b[i]) /\ Dense(ls[i])
    <2>1. PICK t \in Seq(Nat) : /\ t = Paragraph(shape, i) /\ t # <<>> /\ Spans(t, b[i - 1], b[i])
                                /\ \A k \in 1..Len(t) : t[k] # 0
      BY <1>1, <1>2, ParagraphSpans
    <2>2. Dense(t) /\ Dense(<<0, 0>> \o t)
      BY <2>1, DenseRun
    <2>3. Spans(<<0, 0>> \o t, b[i - 1], b[i])
      <3>1. b[i - 1] \in Nat
        <4>1. i - 1 \in 0..n
          OBVIOUS
        <4> QED
          BY <1>2, <4>1
      <3>2. Spans(<<0, 0>>, b[i - 1], b[i - 1])
        BY <3>1, SpansBreak
      <3> QED
        BY <2>1, <3>2, SpansConcat
    <2>4. <<0, 0>> \o t \in Seq(Nat)
      BY <2>3 DEF Spans, Marks
    <2>5. ls[i] = IF i = 1 THEN t ELSE <<0, 0>> \o t
      BY <1>3, <2>1
    <2> QED
      BY <2>1, <2>2, <2>3, <2>4, <2>5
  <1>5. ls \in [1..n -> Seq(Nat)]
    BY <1>3, <1>4
  <1>6. b[0] \in Nat
    BY <1>2
  <1>7. Spans(Flat(ls), b[0], b[n]) /\ Dense(Flat(ls))
    BY <1>4, <1>5, <1>6, FlatSpans
  <1>8. Whole(shape) = Flat(ls)
    BY <1>1, <1>3 DEF Whole
  <1> QED
    BY <1>2, <1>7, <1>8

\* Windows of three characters or more hold a letter.
LEMMA WholeIsUnit ==
  ASSUME NEW shape \in Shapes, shape # <<>>, ChunkSize >= 3
  PROVE  TextUnit(Whole(shape), 0, Total(Sizes(shape)))
  <1>1. PICK t : t = Whole(shape)
    OBVIOUS
  <1>2. PICK hi \in Nat : hi = Total(Sizes(shape)) /\ hi >= 1
    BY ShapeEnds
  <1>3. Spans(t, 0, hi) /\ Dense(t)
    BY <1>1, <1>2, WholeSpans
  <1>4. PICK p : Marks(p, t, 0, hi)
    BY <1>3 DEF Spans
  <1>5. PICK n \in Nat : n = Len(t) /\ t \in Seq(Nat)
    BY <1>4 DEF Marks
  <1>6. p[0] = 0 /\ p[n] = hi
    BY <1>4, <1>5 DEF Marks
  <1>7. n # 0
    BY <1>2, <1>6
  <1>8. ASSUME NEW a \in 1..n PROVE \E k \in a..a + 2 : k <= n /\ t[k] # 0
    BY <1>3, <1>5 DEF Dense
  <1>9. t[n] # 0
    <2>1. n \in 1..n
      BY <1>7
    <2>2. PICK k \in n..n + 2 : k <= n /\ t[k] # 0
      BY <1>8, <2>1
    <2>3. k = n
      BY <2>2
    <2> QED
      BY <2>2, <2>3
  <1>10. PICK c \in Nat : c = ChunkSize /\ c >= 3
    BY ChunkingConstants DEF ChunkingConstants
  <1>11. ASSUME NEW a \in 1..n, a + c - 1 < n PROVE \E k \in a..a + c - 1 : t[k] # 0
    <2>1. PICK k \in a..a + 2 : k <= n /\ t[k] # 0
      BY <1>8
    <2>2. k \in a..a + c - 1
      BY <1>10, <2>1
    <2> QED
      BY <2>1, <2>2
  <1>12. t # <<>>
    BY <1>5, <1>7
  <1>13. Cuttable(t)
    BY <1>5, <1>9, <1>10, <1>11, <1>12 DEF Cuttable
  <1> QED
    BY <1>1, <1>2, <1>3, <1>13 DEF TextUnit

\* recursive split
LEMMA RecursiveSplitCovers ==
  ASSUME NEW shape \in Shapes, shape # <<>>, overlap \in 0..ChunkSize - 1
  PROVE  Covering(RecursiveSplit(shape), 0, Total(Sizes(shape)))
  <1>1. PICK hi \in Nat : hi = Total(Sizes(shape)) /\ hi >= 1
    BY ShapeEnds
  <1>2. CASE Len(Whole(shape)) <= ChunkSize
    <2>1. Spans(Whole(shape), 0, hi)
      BY <1>1, WholeSpans
    <2>2. Whole(shape) \in Seq(Nat)
      BY <2>1 DEF Spans, Marks
    <2>3. 0 \in Nat /\ 0 < hi
      BY <1>1
    <2>4. Covering(<<Whole(shape)>>, 0, hi)
      BY <1>2, <2>1, <2>2, <2>3, CoverOne DEF Covering
    <2> QED
      BY <1>1, <1>2, <2>4 DEF RecursiveSplit
  <1>3. CASE ~(Len(Whole(shape)) <= ChunkSize)
    <2>1. PICK ls : ls = [i \in DOMAIN shape |-> RecursiveUnits(shape, i)]
      OBVIOUS
    <2>2. DOMAIN shape = 1..Len(shape)
      BY ParagraphSpans
    <2>3. ls = [i \in DOMAIN shape |-> ls[i]]
      BY <2>1
    <2>4. ASSUME NEW i \in 1..Len(shape) PROVE Tiling(ls[i], Places(shape)[i - 1], Places(shape)[i])
      <3>1. Tiling(<<Paragraph(shape, i)>>, Places(shape)[i - 1], Places(shape)[i])
        BY ParagraphTiles, TileOne
      <3>2. Tiling(SplitLongParagraph(shape, i), Places(shape)[i - 1], Places(shape)[i])
        BY SentencesTile
      <3>3. ls[i] = IF Sizes(shape)[i] <= ChunkSize THEN <<Paragraph(shape, i)>> ELSE SplitLongParagraph(shape, i)
        BY <2>1, <2>2 DEF RecursiveUnits
      <3> QED
        BY <3>1, <3>2, <3>3
    <2>5. Covering(MergeUnits(Flat(ls)), 0, Total(Sizes(shape)))
      BY <2>3, <2>4, MergedParagraphs
    <2> QED
      BY <1>3, <2>1, <2>5 DEF RecursiveSplit
  <1> QED
    BY <1>2, <1>3

\* A paragraph is put into a group.
LEMMA ParagraphIsAdded ==
  ASSUME NEW shape \in Shapes, NEW related, NEW groups \in Seq(Seq(Nat) \ {<<>>}), NEW i \in 1..Len(shape)
  PROVE  AddParagraph(shape, related, groups, i) \in Seq(Seq(Nat) \ {<<>>})
  <1>0. PICK S : S = Seq(Nat) \ {<<>>}
    OBVIOUS
  <1>1. PICK t \in Seq(Nat) : t = Paragraph(shape, i) /\ t # <<>>
    BY ParagraphSpans
  <1>2. PICK g \in Seq(S) : g = groups
    BY <1>0
  <1>3. Append(g, t) \in Seq(S)
    BY <1>0, <1>1, AppendProperties
  <1>4. ASSUME g # <<>> PROVE Append(Front(g), Joined(Last(g), t)) \in Seq(S)
    <2>1. Front(g) \in Seq(S) /\ Last(g) \in S
      BY <1>4, FrontAndLast
    <2>2. Last(g) \in Seq(Nat)
      BY <1>0, <2>1
    <2>3. Joined(Last(g), t) \in S
      BY <1>0, <1>1, <2>2, JoinedTyped
    <2> QED
      BY <2>1, <2>3, AppendProperties
  <1>5. AddParagraph(shape, related, g, i) \in Seq(S)
    BY <1>1, <1>3, <1>4 DEF AddParagraph
  <1> QED
    BY <1>0, <1>2, <1>5

\* The groups, one paragraph after the other.
LEMMA GroupFold ==
  ASSUME NEW shape \in Shapes, NEW related
  PROVE  \E h : /\ h[0] = <<>> /\ Grouped(shape, related) = h[Len(shape)]
                /\ h \in [0..Len(shape) -> Seq(Seq(Nat) \ {<<>>})]
                /\ \A k \in 1..Len(shape) : h[k] = AddParagraph(shape, related, h[k - 1], k)
  <1> DEFINE n == Len(shape)
             T == Seq(Seq(Nat) \ {<<>>})
             g == [p \in T \X (1..n) |-> AddParagraph(shape, related, p[1], p[2])]
             ids == [i \in DOMAIN shape |-> i]
             Equation(f) == f = [r \in SUBSET (1..n) |->
                              IF r = {} THEN <<>> ELSE AddParagraph(shape, related, f[r \ {Max(r)}], ids[Max(r)])]
  <1>0. n \in Nat /\ DOMAIN shape = 1..n
    BY ParagraphSpans
  <1>i. DOMAIN ids = 1..n /\ ids = [i \in DOMAIN shape |-> i] /\ \A i \in 1..n : ids[i] = i
    OBVIOUS
  <1> HIDE DEF ids
  <1>1. g \in [T \X (1..n) -> T]
    <2>1. \A a \in T, i \in 1..n : AddParagraph(shape, related, a, i) \in T
      BY ParagraphIsAdded
    <2> QED
      BY <2>1
  <1>2. PICK f \in [SUBSET (1..n) -> T] : IsFold(f, g, <<>>, n)
    <2> HIDE DEF g, n, T
    <2>1. <<>> \in T
      BY DEF T
    <2> QED
      BY <1>0, <1>1, <2>1, FoldExists
  <1>3. Equation(f)
    <2>1. ASSUME NEW r \in SUBSET (1..n)
          PROVE  f[r] = IF r = {} THEN <<>> ELSE AddParagraph(shape, related, f[r \ {Max(r)}], ids[Max(r)])
      <3>1. CASE r = {}
        BY <1>2, <3>1 DEF IsFold
      <3>2. CASE r # {}
        <4>1. Max(r) \in r /\ Max(r) \in 1..n
          BY <1>0, <3>2, NatMax
        <4>2. f[r] = g[<<f[r \ {Max(r)}], Max(r)>>]
          BY <1>2, <3>2 DEF IsFold
        <4>3. f[r \ {Max(r)}] \in T
          BY <1>2
        <4> HIDE DEF T, n
        <4> QED
          BY <1>i, <3>2, <4>1, <4>2, <4>3
      <3> QED
        BY <3>1, <3>2
    <2> QED
      BY <2>1
  <1>4. PICK e : Equation(e) /\ Grouped(shape, related) = e[1..n]
    <2> DEFINE F == FoldLeft(LAMBDA groups, i : AddParagraph(shape, related, groups, i), <<>>, ids)
    <2>1. \E e : Equation(e) /\ F = e[1..n]
      <3>1. \E e : Equation(e)
        BY <1>3
      <3>2. F = (CHOOSE e : Equation(e))[1..n]
        BY <1>i DEF FoldLeft, MapThenFoldSet
      <3> HIDE DEF Equation, F
      <3> QED
        BY <3>1, <3>2
    <2>2. Grouped(shape, related) = F
      BY <1>i DEF Grouped
    <2> QED
      BY <2>1, <2>2
  <1>5. Folds(e, T, g, <<>>, n)
    <2>1. \A r \in SUBSET (1..n) :
             e[r] = IF r = {} THEN <<>> ELSE AddParagraph(shape, related, e[r \ {Max(r)}], ids[Max(r)])
      BY <1>4
    <2>2. ASSUME NEW r \in SUBSET (1..n), r # {}, e[r \ {Max(r)}] \in T
          PROVE  e[r] = g[<<e[r \ {Max(r)}], Max(r)>>]
      <3>1. Max(r) \in 1..n
        BY <1>0, <2>2, NatMax
      <3>2. e[r] = AddParagraph(shape, related, e[r \ {Max(r)}], Max(r))
        BY <1>i, <2>1, <2>2, <3>1
      <3> HIDE DEF T, n
      <3> QED
        BY <2>2, <3>1, <3>2
    <2>3. e[{}] = <<>>
      BY <2>1
    <2> HIDE DEF g, T, n
    <2> QED
      BY <2>2, <2>3 DEF Folds
  <1>6. PICK h : IsChain(h, e, T, g, <<>>, n)
    <2>1. <<>> \in T
      OBVIOUS
    <2> HIDE DEF g, T, n
    <2> QED
      BY <1>0, <1>1, <1>5, <2>1, FoldChain
  <1>7. ASSUME NEW k \in 1..n PROVE h[k] = AddParagraph(shape, related, h[k - 1], k)
    <2> HIDE DEF T, n, g
    <2>0. k - 1 \in 0..n
      BY <1>0
    <2>1. h[k - 1] \in T
      BY <1>6, <2>0 DEF IsChain
    <2> USE DEF g
    <2> QED
      BY <1>6, <2>1 DEF IsChain
  <1>8. h[0] = <<>> /\ h[n] = e[1..n] /\ h \in [0..n -> T]
    BY <1>6 DEF IsChain
  <1> QED
    BY <1>4, <1>7, <1>8

\* The last unit may go on.
LEMMA TileFront ==
  ASSUME NEW s, NEW lo, NEW mid, Tiling(s, lo, mid), s # <<>>
  PROVE  \E e \in Nat : Tiling(Front(s), lo, e) /\ Spans(Last(s), e, mid) /\ e < mid /\ mid \in Nat
  <1>0. PICK S : S = Seq(Nat) \ {<<>>}
    OBVIOUS
  <1>1. PICK b : Tiles(b, s, lo, mid)
    BY DEF Tiling
  <1>2. PICK m \in Nat : m = Len(s) /\ s \in Seq(S)
    BY <1>0, <1>1 DEF Tiles
  <1>3. m \in 1..m
    <2>1. m # 0
      BY <1>2
    <2> QED
      BY <2>1
  <1>4. /\ b \in [0..m -> Nat] /\ b[0] = lo /\ b[m] = mid
        /\ \A i \in 1..m : TextUnit(s[i], b[i - 1], b[i])
    BY <1>1, <1>2 DEF Tiles
  <1>5. PICK e \in Nat : e = b[m - 1]
    <2>1. m - 1 \in 0..m
      BY <1>3
    <2> QED
      BY <1>4, <2>1
  <1>6. Spans(Last(s), e, mid) /\ e < mid /\ mid \in Nat
    <2>1. TextUnit(s[m], e, mid)
      BY <1>3, <1>4, <1>5
    <2> QED
      BY <1>2, <2>1 DEF Last, TextUnit
  <1>7. PICK h \in Seq(S) : h = Front(s) /\ Len(h) = m - 1 /\ Append(h, Last(s)) = s /\ Last(s) \in S
    BY <1>2, FrontAndLast
  <1>8. PICK n \in Nat : n = m - 1
    BY <1>3
  <1>9. \A i \in 1..n : h[i] = s[i] /\ i \in 1..m
    <2>1. \A i \in 1..Len(h) : Append(h, Last(s))[i] = h[i]
      BY <1>7, AppendProperties
    <2> QED
      BY <1>7, <1>8, <2>1
  <1>10. PICK c : c = [i \in 0..n |-> b[i]]
    OBVIOUS
  <1>11. c \in [0..n -> Nat] /\ c[0] = lo /\ c[n] = e
    <2>1. \A i \in 0..n : i \in 0..m
      BY <1>8
    <2> QED
      BY <1>4, <1>5, <1>8, <1>10, <2>1
  <1>12. ASSUME NEW i \in 1..n PROVE TextUnit(h[i], c[i - 1], c[i])
    <2>1. i - 1 \in 0..n /\ i \in 0..n
      OBVIOUS
    <2> QED
      BY <1>4, <1>9, <1>10, <2>1
  <1>13. Tiles(c, h, lo, e)
    BY <1>0, <1>7, <1>8, <1>11, <1>12 DEF Tiles
  <1> QED
    BY <1>6, <1>7, <1>13 DEF Tiling

\* Groups of paragraphs are units, too.
LEMMA GroupTiles ==
  ASSUME NEW shape \in Shapes, NEW related, NEW groups, NEW i \in 1..Len(shape), Tiling(groups, 0, Places(shape)[i - 1])
  PROVE  Tiling(AddParagraph(shape, related, groups, i), 0, Places(shape)[i])
  <1>1. PICK t, mid, hi : t = Paragraph(shape, i) /\ mid = Places(shape)[i - 1] /\ hi = Places(shape)[i]
    OBVIOUS
  <1>2. TextUnit(t, mid, hi)
    BY <1>1, ParagraphTiles
  <1>3. t \in Seq(Nat) /\ t # <<>> /\ t[Len(t)] # 0 /\ Spans(t, mid, hi) /\ mid < hi /\ mid \in Nat /\ hi \in Nat
    BY <1>2 DEF TextUnit, Cuttable
  <1>4. groups \in Seq(Seq(Nat) \ {<<>>})
    BY DEF Tiling, Tiles
  <1>5. Tiling(Append(groups, t), 0, hi)
    <2>1. Tiling(groups \o <<t>>, 0, hi)
      BY <1>1, <1>2, TileOne, TileConcat
    <2>2. groups \o <<t>> = Append(groups, t)
      <3>1. t \in Seq(Nat) \ {<<>>}
        BY <1>3
      <3> QED
        BY <1>4, <3>1, AppendIsConcat
    <2> QED
      BY <2>1, <2>2
  <1>6. ASSUME groups # <<>>, Len(Last(groups)) + Len(t) + 1 <= ChunkSize
        PROVE  Tiling(Append(Front(groups), Joined(Last(groups), t)), 0, hi)
    <2>1. PICK e \in Nat : Tiling(Front(groups), 0, e) /\ Spans(Last(groups), e, mid) /\ e < mid /\ mid \in Nat
      BY <1>1, <1>6, TileFront
    <2>2. PICK l \in Seq(Nat) : l = Last(groups) /\ l # <<>> /\ Front(groups) \in Seq(Seq(Nat) \ {<<>>})
      <3>1. Front(groups) \in Seq(Seq(Nat) \ {<<>>}) /\ Last(groups) \in Seq(Nat) \ {<<>>}
        BY <1>4, <1>6, FrontAndLast
      <3> QED
        BY <3>1
    <2>3. PICK j \in Seq(Nat) : j = Joined(l, t) /\ j # <<>> /\ Spans(j, e, hi)
      BY <1>3, <2>1, <2>2, JoinedTyped, JoinedSpans
    <2>4. Len(j) = Len(l) + 1 + Len(t) /\ j[Len(j)] = t[Len(t)]
      <3>1. PICK k \in Nat, n \in Nat : k = Len(l) /\ n = Len(t) /\ n # 0
        BY <1>3
      <3>2. PICK z \in Seq(Nat) : z = <<0>> /\ Len(z) = 1
        <4>1. <<0>> \in Seq(Nat) /\ Len(<<0>>) = 1
          OBVIOUS
        <4> QED
          BY <4>1
      <3>3. PICK y \in Seq(Nat) : y = l \o z /\ Len(y) = k + 1
        <4>1. l \o z \in Seq(Nat) /\ Len(l \o z) = Len(l) + Len(z)
          BY ConcatProperties
        <4> QED
          BY <3>1, <3>2, <4>1
      <3>4. /\ Len(y \o t) = (k + 1) + n
            /\ \A p \in 1..(k + 1) + n : (y \o t)[p] = IF p <= k + 1 THEN y[p] ELSE t[p - (k + 1)]
        <4>1. /\ Len(y \o t) = Len(y) + Len(t)
              /\ \A p \in 1..Len(y) + Len(t) : (y \o t)[p] = IF p <= Len(y) THEN y[p] ELSE t[p - Len(y)]
          BY ConcatProperties
        <4> QED
          BY <3>1, <3>3, <4>1
      <3>5. j = y \o t
        BY <2>2, <2>3, <3>2, <3>3 DEF Joined
      <3>6. (k + 1) + n \in 1..(k + 1) + n /\ ~((k + 1) + n <= k + 1) /\ ((k + 1) + n) - (k + 1) = n
        BY <3>1
      <3>7. j[(k + 1) + n] = t[n]
        BY <3>4, <3>5, <3>6
      <3> QED
        BY <3>1, <3>4, <3>5, <3>7
    <2>5. PICK c \in Nat, n \in Nat : c = ChunkSize /\ n = Len(j) /\ n <= c
      <3>1. PICK x \in Nat, y \in Nat : x = Len(l) /\ y = Len(t)
        BY <1>3
      <3>2. Len(j) = x + 1 + y /\ x + y + 1 <= ChunkSize /\ ChunkSize \in Nat
        BY <1>6, <2>2, <2>4, <3>1, ChunkingConstants DEF ChunkingConstants
      <3> QED
        BY <3>2
    <2>6. Cuttable(j)
      <3>1. ASSUME NEW a \in 1..n PROVE ~(a + c - 1 < n)
        BY <2>5
      <3>2. j[Len(j)] # 0
        BY <1>3, <2>4
      <3> QED
        BY <2>3, <2>5, <3>1, <3>2 DEF Cuttable
    <2>7. TextUnit(j, e, hi)
      <3>1. e < hi
        BY <1>3, <2>1
      <3> QED
        BY <1>3, <2>3, <2>6, <3>1 DEF TextUnit
    <2>8. Tiling(Front(groups) \o <<j>>, 0, hi)
      BY <2>1, <2>7, TileOne, TileConcat
    <2>9. Front(groups) \o <<j>> = Append(Front(groups), j)
      <3>1. j \in Seq(Nat) \ {<<>>}
        BY <2>3
      <3> QED
        BY <2>2, <3>1, AppendIsConcat
    <2> QED
      BY <2>2, <2>3, <2>8, <2>9
  <1>7. \/ AddParagraph(shape, related, groups, i) = Append(groups, t)
        \/ /\ groups # <<>> /\ Len(Last(groups)) + Len(t) + 1 <= ChunkSize
           /\ AddParagraph(shape, related, groups, i) = Append(Front(groups), Joined(Last(groups), t))
    BY <1>1 DEF AddParagraph
  <1> QED
    BY <1>1, <1>5, <1>6, <1>7

\* semantic split
LEMMA GroupedCovers ==
  ASSUME NEW shape \in Shapes, shape # <<>>, NEW related, overlap \in 0..ChunkSize - 1
  PROVE  Covering(MergeUnits(Grouped(shape, related)), 0, Total(Sizes(shape)))
  <1>1. PICK n \in Nat : n = Len(shape) /\ DOMAIN shape = 1..n
    BY ParagraphSpans
  <1>3. PICK h : /\ h[0] = <<>> /\ Grouped(shape, related) = h[n]
                 /\ \A k \in 1..n : h[k] = AddParagraph(shape, related, h[k - 1], k)
    <2>1. \E h : /\ h[0] = <<>> /\ Grouped(shape, related) = h[Len(shape)]
                 /\ h \in [0..Len(shape) -> Seq(Seq(Nat) \ {<<>>})]
                 /\ \A k \in 1..Len(shape) : h[k] = AddParagraph(shape, related, h[k - 1], k)
      BY GroupFold
    <2> QED
      BY <1>1, <2>1
  <1> DEFINE G == {k \in 0..n : Tiling(h[k], 0, Places(shape)[k])}
  <1>4. 0 \in G
    <2>1. Places(shape)[0] = 0
      BY ParagraphSpans
    <2>2. 0 \in Nat /\ 0 \in 0..n
      OBVIOUS
    <2> QED
      BY <1>3, <2>1, <2>2, TileNone
  <1>5. ASSUME NEW k \in 1..n, k - 1 \in G PROVE k \in G
    <2>1. Tiling(h[k - 1], 0, Places(shape)[k - 1]) /\ k \in 1..Len(shape)
      BY <1>1, <1>5
    <2>2. h[k] = AddParagraph(shape, related, h[k - 1], k)
      BY <1>3
    <2>3. Tiling(h[k], 0, Places(shape)[k])
      BY <2>1, <2>2, GroupTiles
    <2> QED
      BY <2>3
  <1>6. n \in G
    <2>1. \A k \in 0..n : k \in G
      <3> HIDE DEF G
      <3> QED
        BY <1>4, <1>5, UpTo
    <2> QED
      BY <2>1
  <1>7. Tiling(h[n], 0, Total(Sizes(shape)))
    <2>1. Places(shape)[n] = Total(Sizes(shape))
      BY <1>1, ParagraphSpans
    <2> QED
      BY <1>6, <2>1
  <1>8. h[n] # <<>>
    <2>1. 0 # Total(Sizes(shape))
      BY ShapeEnds
    <2> QED
      BY <1>7, <2>1, TilesAreSome
  <1>9. 0 \in Nat
    OBVIOUS
  <1>10. Covering(MergeUnits(h[n]), 0, Total(Sizes(shape)))
    BY <1>7, <1>8, <1>9, MergeCovers
  <1> QED
    BY <1>3, <1>10

\* The pieces of a segment are texts.
LEMMA SplitsTyped ==
  ASSUME NEW shape \in Shapes, shape # <<>>, overlap \in 0..ChunkSize - 1, NEW pieces \in Splits(shape)
  PROVE  pieces \in Seq(Seq(Nat))
  <1>1. CASE pieces = FixedSplit(Whole(shape), overlap)
    <2>1. Whole(shape) \in Seq(Nat)
      BY WholeSpans DEF Spans, Marks
    <2>2. pieces \in Seq(Seq(Nat) \ {<<>>})
      BY <1>1, <2>1, WindowsTyped
    <2>3. Seq(Nat) \ {<<>>} \subseteq Seq(Nat)
      OBVIOUS
    <2> QED
      BY <2>2, <2>3, SeqMonotonic
  <1>2. CASE pieces = ParagraphSplit(shape)
    BY <1>2, ParagraphSplitCovers DEF Covering, Covers
  <1>3. CASE pieces = RecursiveSplit(shape)
    BY <1>3, RecursiveSplitCovers DEF Covering, Covers
  <1>4. ASSUME NEW related, pieces = MergeUnits(Grouped(shape, related)) PROVE pieces \in Seq(Seq(Nat))
    BY <1>4, GroupedCovers DEF Covering, Covers
  <1>5. \/ pieces = FixedSplit(Whole(shape), overlap)
        \/ pieces = ParagraphSplit(shape)
        \/ pieces = RecursiveSplit(shape)
        \/ \E related : pieces = MergeUnits(Grouped(shape, related))
    BY DEF Splits
  <1> QED
    BY <1>1, <1>2, <1>3, <1>4, <1>5

\* They cover it.
LEMMA SplitsCover ==
  ASSUME NEW shape \in Shapes, shape # <<>>, overlap \in 0..ChunkSize - 1, ChunkSize >= 3,
         NEW pieces \in Splits(shape)
  PROVE  Covering(pieces, 0, Total(Sizes(shape)))
  <1>1. Covering(FixedSplit(Whole(shape), overlap), 0, Total(Sizes(shape)))
    BY WholeIsUnit, WindowsCover
  <1>2. Covering(ParagraphSplit(shape), 0, Total(Sizes(shape)))
    BY ParagraphSplitCovers
  <1>3. Covering(RecursiveSplit(shape), 0, Total(Sizes(shape)))
    BY RecursiveSplitCovers
  <1>4. \A related : Covering(MergeUnits(Grouped(shape, related)), 0, Total(Sizes(shape)))
    BY GroupedCovers
  <1>5. \/ pieces = FixedSplit(Whole(shape), overlap)
        \/ pieces = ParagraphSplit(shape)
        \/ pieces = RecursiveSplit(shape)
        \/ \E related : pieces = MergeUnits(Grouped(shape, related))
    BY DEF Splits
  <1> QED
    BY <1>1, <1>2, <1>3, <1>4, <1>5

-----------------------------------------------------------------------------
(* Chunks of a file.                                                         *)

Chunks == [parent_seq : 0..MaxSegments - 1, content : Seq(Nat)]
\* The chunks of a segment, and those of the segments before it.
Labelled(pieces, n) == [i \in DOMAIN pieces |-> [parent_seq |-> n, content |-> pieces[i]]]

\* More chunks.
LEMMA ChunksGrow ==
  ASSUME NEW c \in Seq(Chunks), NEW pieces \in Seq(Seq(Nat)), NEW n \in 0..MaxSegments - 1
  PROVE  /\ c \o Labelled(pieces, n) \in Seq(Chunks)
         /\ Len(c \o Labelled(pieces, n)) = Len(c) + Len(pieces)
         /\ \A i \in 1..Len(c) : (c \o Labelled(pieces, n))[i] = c[i]
         /\ \A i \in 1..Len(pieces) : /\ (c \o Labelled(pieces, n))[Len(c) + i].parent_seq = n
                                      /\ (c \o Labelled(pieces, n))[Len(c) + i].content = pieces[i]
  <1>1. PICK m \in Nat, k \in Nat : m = Len(c) /\ k = Len(pieces) /\ DOMAIN pieces = 1..k
    OBVIOUS
  <1>2. PICK l \in Seq(Chunks) : l = Labelled(pieces, n) /\ Len(l) = k
                                 /\ \A i \in 1..k : l[i].parent_seq = n /\ l[i].content = pieces[i]
    <2>1. \A i \in 1..k : pieces[i] \in Seq(Nat)
      BY <1>1, ElementOfSeq
    <2>2. \A i \in 1..k : [parent_seq |-> n, content |-> pieces[i]] \in Chunks
      BY <2>1 DEF Chunks
    <2>3. Labelled(pieces, n) = [i \in 1..k |-> [parent_seq |-> n, content |-> pieces[i]]]
      BY <1>1 DEF Labelled
    <2>4. Labelled(pieces, n) \in [1..k -> Chunks]
      BY <2>2, <2>3
    <2>5. Labelled(pieces, n) \in Seq(Chunks) /\ Len(Labelled(pieces, n)) = k
      BY <2>3, <2>4
    <2> QED
      BY <2>3, <2>5
  <1>3. /\ c \o l \in Seq(Chunks) /\ Len(c \o l) = m + k
        /\ \A i \in 1..m + k : (c \o l)[i] = IF i <= m THEN c[i] ELSE l[i - m]
    <2>1. /\ c \o l \in Seq(Chunks) /\ Len(c \o l) = Len(c) + Len(l)
          /\ \A i \in 1..Len(c) + Len(l) : (c \o l)[i] = IF i <= Len(c) THEN c[i] ELSE l[i - Len(c)]
      BY ConcatProperties
    <2> QED
      BY <1>1, <1>2, <2>1
  <1>4. \A i \in 1..m : i \in 1..m + k /\ i <= m
    OBVIOUS
  <1>5. \A i \in 1..k : m + i \in 1..m + k /\ ~(m + i <= m) /\ (m + i) - m = i
    OBVIOUS
  <1>6. \A i \in 1..m : (c \o l)[i] = c[i]
    BY <1>3, <1>4
  <1>7. \A i \in 1..k : (c \o l)[m + i] = l[i]
    BY <1>3, <1>5
  <1> QED
    BY <1>1, <1>2, <1>3, <1>6, <1>7

\* Splitting a segment adds chunks to the chunks.
LEMMA SplitTyped ==
  ASSUME ChunkTypeOK, NEW shape \in Shapes, SplitSegment(shape)
  PROVE  ChunkTypeOK'
  <1>1. /\ strategy \in Strategies /\ overlap \in 0..ChunkSize - 1 /\ segments \in Seq(Shapes) /\ chunks \in Seq(Chunks)
    BY DEF ChunkTypeOK, Chunks
  <1>2. strategy' = strategy /\ overlap' = overlap /\ segments' = Append(segments, shape) /\ Len(segments) < MaxSegments
    BY DEF SplitSegment
  <1>3. segments' \in Seq(Shapes)
    BY <1>1, <1>2, AppendProperties
  <1>4. Len(segments) \in 0..MaxSegments - 1
    <2>1. Len(segments) \in Nat /\ MaxSegments \in Nat
      BY <1>1, ChunkingConstants DEF ChunkingConstants
    <2> QED
      BY <1>2, <2>1
  <1>5. chunks' \in Seq(Chunks)
    <2>1. CASE shape = <<>>
      BY <1>1, <2>1 DEF SplitSegment
    <2>2. CASE shape # <<>>
      <3>1. PICK pieces \in Splits(shape) : chunks' = chunks \o Labelled(pieces, Len(segments))
        BY <2>2 DEF SplitSegment, Labelled
      <3>2. pieces \in Seq(Seq(Nat))
        BY <1>1, <2>2, SplitsTyped
      <3> QED
        BY <1>1, <1>4, <3>1, <3>2, ChunksGrow
    <2> QED
      BY <2>1, <2>2
  <1> QED
    BY <1>1, <1>2, <1>3, <1>5 DEF ChunkTypeOK, Chunks

\* Every variable has its type.
THEOREM ChunkTypeCorrect == ChunkSpec => []ChunkTypeOK
  <1>1. ChunkInit => ChunkTypeOK
    <2> SUFFICES ASSUME ChunkInit PROVE ChunkTypeOK
      OBVIOUS
    <2>1. segments = <<>> /\ chunks = <<>>
      BY DEF ChunkInit
    <2>2. segments \in Seq(Shapes) /\ chunks \in Seq([parent_seq : 0..MaxSegments - 1, content : Seq(Nat)])
      BY <2>1
    <2> QED
      BY <2>2 DEF ChunkInit, ChunkTypeOK
  <1>2. ChunkTypeOK /\ [ChunkNext]_chunkVars => ChunkTypeOK'
    <2> SUFFICES ASSUME ChunkTypeOK, [ChunkNext]_chunkVars PROVE ChunkTypeOK'
      OBVIOUS
    <2>1. CASE ChunkNext
      BY <2>1, SplitTyped DEF ChunkNext
    <2>2. CASE UNCHANGED chunkVars
      BY <2>2 DEF chunkVars, ChunkTypeOK
    <2> QED
      BY <2>1, <2>2
  <1> QED
    BY <1>1, <1>2, PTL DEF ChunkSpec

\* What ChunksCoverText says of one of the chunks c of the segments s.
InPlace(c, s, i) ==
    LET piece == c[i].content
        segment == c[i].parent_seq IN
    /\ Len(piece) <= ChunkSize /\ LetterPlaces(piece) # {}
    /\ \A j, k \in LetterPlaces(piece) : j < k => piece[j] < piece[k]
    /\ {piece[k] : k \in LetterPlaces(piece)} = From(piece)..Upto(piece)
    /\ IF i = 1 \/ c[i - 1].parent_seq # segment
       THEN From(piece) = 1 /\ (i = 1 \/ c[i - 1].parent_seq < segment)
       ELSE From(piece) <= Upto(c[i - 1].content) + 1 /\ Upto(c[i - 1].content) <= Upto(piece)
    /\ i = Len(c) \/ c[i + 1].parent_seq # segment =>
          Upto(piece) = Total(Sizes(s[segment + 1]))

\* A chunk stays in its place when those of another segment come after it.
LEMMA InPlaceStays ==
  ASSUME NEW c \in Seq(Chunks), NEW s \in Seq(Shapes), NEW pieces \in Seq(Seq(Nat)), NEW shape \in Shapes,
         Len(s) \in 0..MaxSegments - 1, NEW i \in 1..Len(c), InPlace(c, s, i), c[i].parent_seq < Len(s)
  PROVE  InPlace(c \o Labelled(pieces, Len(s)), Append(s, shape), i)
  <1>1. PICK n \in Nat, m \in Nat, k \in Nat : n = Len(s) /\ m = Len(c) /\ k = Len(pieces) /\ n \in 0..MaxSegments - 1
    OBVIOUS
  <1>2. PICK d : d = c \o Labelled(pieces, n)
    OBVIOUS
  <1>3. /\ Len(d) = m + k /\ \A j \in 1..m : d[j] = c[j]
        /\ \A j \in 1..k : d[m + j].parent_seq = n /\ d[m + j].content = pieces[j]
    <2>1. /\ Len(c \o Labelled(pieces, n)) = Len(c) + Len(pieces)
          /\ \A j \in 1..Len(c) : (c \o Labelled(pieces, n))[j] = c[j]
          /\ \A j \in 1..Len(pieces) : /\ (c \o Labelled(pieces, n))[Len(c) + j].parent_seq = n
                                       /\ (c \o Labelled(pieces, n))[Len(c) + j].content = pieces[j]
      BY <1>1, ChunksGrow
    <2> QED
      BY <1>1, <1>2, <2>1
  <1>t. PICK t : t = c[i].content
    OBVIOUS
  <1>p. PICK p \in Nat : p = c[i].parent_seq /\ p < n
    <2>1. c[i] \in Chunks
      BY ElementOfSeq
    <2>2. c[i].parent_seq \in Nat
      BY <2>1 DEF Chunks
    <2> QED
      BY <1>1, <2>2
  <1>4. t = c[i].content /\ p = c[i].parent_seq /\ p < n
    BY <1>t, <1>p
  <1>5. d[i].content = t /\ d[i].parent_seq = p
    BY <1>1, <1>3, <1>4
  <1>6. Append(s, shape)[p + 1] = s[p + 1]
    <2>1. p + 1 \in 1..Len(s)
      BY <1>1, <1>4
    <2> QED
      BY <2>1, AppendProperties
  <1>7. i # 1 => d[i - 1] = c[i - 1]
    <2>1. i # 1 => i - 1 \in 1..m
      BY <1>1
    <2> QED
      BY <1>3, <2>1
  <1>8. /\ Len(t) <= ChunkSize /\ LetterPlaces(t) # {}
        /\ \A j, l \in LetterPlaces(t) : j < l => t[j] < t[l]
        /\ {t[l] : l \in LetterPlaces(t)} = From(t)..Upto(t)
    BY <1>4 DEF InPlace
  <1>9. IF i = 1 \/ d[i - 1].parent_seq # p
        THEN From(t) = 1 /\ (i = 1 \/ d[i - 1].parent_seq < p)
        ELSE From(t) <= Upto(d[i - 1].content) + 1 /\ Upto(d[i - 1].content) <= Upto(t)
    BY <1>4, <1>7 DEF InPlace
  <1>10. ASSUME i = Len(d) \/ d[i + 1].parent_seq # p PROVE Upto(t) = Total(Sizes(s[p + 1]))
    <2>1. i = Len(c) \/ c[i + 1].parent_seq # p
      <3>1. CASE i = m
        BY <1>1, <3>1
      <3>2. CASE i # m
        <4>1. i + 1 \in 1..m /\ i # m + k
          BY <1>1, <3>2
        <4>2. d[i + 1] = c[i + 1]
          BY <1>3, <4>1
        <4> QED
          BY <1>3, <1>10, <4>1, <4>2
      <3> QED
        BY <3>1, <3>2
    <2> QED
      BY <1>4, <2>1 DEF InPlace
  <1>11. InPlace(d, Append(s, shape), i)
    BY <1>5, <1>6, <1>8, <1>9, <1>10 DEF InPlace
  <1> QED
    BY <1>1, <1>2, <1>11

\* The chunks of a segment come into their places.
LEMMA InPlaceComes ==
  ASSUME NEW c \in Seq(Chunks), NEW s \in Seq(Shapes), NEW pieces \in Seq(Seq(Nat)), NEW shape \in Shapes,
         Len(s) \in 0..MaxSegments - 1, \A i \in 1..Len(c) : c[i].parent_seq < Len(s),
         Covering(pieces, 0, Total(Sizes(shape))), NEW h \in 1..Len(pieces)
  PROVE  InPlace(c \o Labelled(pieces, Len(s)), Append(s, shape), Len(c) + h)
  <1>1. PICK n \in Nat, m \in Nat, k \in Nat : n = Len(s) /\ m = Len(c) /\ k = Len(pieces) /\ n \in 0..MaxSegments - 1
    OBVIOUS
  <1>2. PICK d : d = c \o Labelled(pieces, n)
    OBVIOUS
  <1>3. /\ Len(d) = m + k /\ \A j \in 1..m : d[j] = c[j]
        /\ \A j \in 1..k : d[m + j].parent_seq = n /\ d[m + j].content = pieces[j]
    <2>1. /\ Len(c \o Labelled(pieces, n)) = Len(c) + Len(pieces)
          /\ \A j \in 1..Len(c) : (c \o Labelled(pieces, n))[j] = c[j]
          /\ \A j \in 1..Len(pieces) : /\ (c \o Labelled(pieces, n))[Len(c) + j].parent_seq = n
                                       /\ (c \o Labelled(pieces, n))[Len(c) + j].content = pieces[j]
      BY <1>1, ChunksGrow
    <2> QED
      BY <1>1, <1>2, <2>1
  <1>4. PICK f, g : Covers(f, g, pieces, 0, Total(Sizes(shape)))
    BY DEF Covering
  <1>5. /\ f \in [1..k -> Nat] /\ g \in [1..k -> Nat] /\ f[1] = 0 /\ g[k] = Total(Sizes(shape))
        /\ \A i \in 1..k : f[i] < g[i] /\ Spans(pieces[i], f[i], g[i]) /\ Len(pieces[i]) <= ChunkSize
        /\ \A i \in 1..k : i < k => f[i + 1] <= g[i] /\ g[i] <= g[i + 1]
    BY <1>1, <1>4 DEF Covers
  <1>6. ASSUME NEW i \in 1..k
        PROVE  /\ LetterPlaces(pieces[i]) # {} /\ From(pieces[i]) = f[i] + 1 /\ Upto(pieces[i]) = g[i]
               /\ \A j, l \in LetterPlaces(pieces[i]) : j < l => pieces[i][j] < pieces[i][l]
               /\ {pieces[i][l] : l \in LetterPlaces(pieces[i])} = f[i] + 1..g[i]
    <2>1. f[i] < g[i] /\ Spans(pieces[i], f[i], g[i])
      BY <1>5
    <2> QED
      BY <2>1, SpansLetters
  <1>7. PICK t : t = pieces[h] /\ d[m + h].content = t /\ d[m + h].parent_seq = n /\ h \in 1..k
    BY <1>1, <1>3
  <1>8. PICK x \in Nat, y \in Nat : x = f[h] /\ y = g[h] /\ From(t) = x + 1 /\ Upto(t) = y
    BY <1>5, <1>6, <1>7
  <1>9. /\ Len(t) <= ChunkSize /\ LetterPlaces(t) # {}
        /\ \A j, l \in LetterPlaces(t) : j < l => t[j] < t[l]
        /\ {t[l] : l \in LetterPlaces(t)} = From(t)..Upto(t)
    <2>1. Len(t) <= ChunkSize
      BY <1>5, <1>7
    <2>2. /\ LetterPlaces(t) # {}
          /\ \A j, l \in LetterPlaces(t) : j < l => t[j] < t[l]
          /\ {t[l] : l \in LetterPlaces(t)} = x + 1..y
      <3>1. /\ LetterPlaces(pieces[h]) # {}
            /\ \A j, l \in LetterPlaces(pieces[h]) : j < l => pieces[h][j] < pieces[h][l]
            /\ {pieces[h][l] : l \in LetterPlaces(pieces[h])} = f[h] + 1..g[h]
        BY <1>6, <1>7
      <3> QED
        BY <1>7, <1>8, <3>1
    <2> QED
      BY <1>8, <2>1, <2>2
  <1>10. IF m + h = 1 \/ d[m + h - 1].parent_seq # n
         THEN From(t) = 1 /\ (m + h = 1 \/ d[m + h - 1].parent_seq < n)
         ELSE From(t) <= Upto(d[m + h - 1].content) + 1 /\ Upto(d[m + h - 1].content) <= Upto(t)
    <2>1. CASE h = 1
      <3>1. From(t) = 1
        BY <1>5, <1>8, <2>1
      <3>2. m # 0 => d[m + h - 1].parent_seq < n
        <4>1. m # 0 => m \in 1..m /\ m + h - 1 = m
          BY <2>1
        <4> QED
          BY <1>1, <1>3, <4>1
      <3>3. m = 0 <=> m + h = 1
        BY <2>1
      <3>4. m # 0 => d[m + h - 1].parent_seq # n
        <4> SUFFICES ASSUME m # 0, d[m + h - 1].parent_seq = n PROVE FALSE
          OBVIOUS
        <4> QED
          BY <3>2
      <3> QED
        BY <3>1, <3>2, <3>3, <3>4
    <2>2. CASE h # 1
      <3>1. PICK e \in 1..k : e = h - 1 /\ e < k /\ e + 1 = h /\ m + h - 1 = m + e /\ m + h # 1
        <4>1. h - 1 \in 1..k /\ h - 1 < k /\ (h - 1) + 1 = h /\ m + h - 1 = m + (h - 1) /\ m + h # 1
          BY <1>7, <2>2
        <4> QED
          BY <4>1
      <3>2. d[m + h - 1].parent_seq = n /\ d[m + h - 1].content = pieces[e]
        BY <1>3, <3>1
      <3>3. f[h] <= g[e] /\ g[e] <= g[h] /\ Upto(pieces[e]) = g[e] /\ g[e] \in Nat
        BY <1>5, <1>6, <3>1
      <3>4. From(t) <= Upto(pieces[e]) + 1 /\ Upto(pieces[e]) <= Upto(t)
        <4>1. PICK v \in Nat : v = g[e] /\ x <= v /\ v <= y /\ Upto(pieces[e]) = v
          BY <1>8, <3>3
        <4>2. From(t) = x + 1 /\ Upto(t) = y
          BY <1>8
        <4>3. x + 1 <= v + 1
          BY <4>1
        <4> QED
          BY <4>1, <4>2, <4>3
      <3> QED
        BY <3>1, <3>2, <3>4
    <2> QED
      BY <2>1, <2>2
  <1>11. ASSUME m + h = Len(d) \/ d[m + h + 1].parent_seq # n PROVE Upto(t) = Total(Sizes(Append(s, shape)[n + 1]))
    <2>1. h = k
      <3> SUFFICES ASSUME h # k PROVE FALSE
        OBVIOUS
      <3>1. h + 1 \in 1..k /\ m + h + 1 = m + (h + 1) /\ m + h # m + k
        BY <1>7
      <3> QED
        BY <1>3, <1>11, <3>1
    <2>2. Append(s, shape)[n + 1] = shape
      BY <1>1, AppendProperties
    <2> QED
      BY <1>5, <1>8, <2>1, <2>2
  <1>12. InPlace(d, Append(s, shape), m + h)
    <2>1. PICK i : i = m + h
      OBVIOUS
    <2>2. d[i].content = t /\ d[i].parent_seq = n
      BY <1>7, <2>1
    <2>3. IF i = 1 \/ d[i - 1].parent_seq # n
          THEN From(t) = 1 /\ (i = 1 \/ d[i - 1].parent_seq < n)
          ELSE From(t) <= Upto(d[i - 1].content) + 1 /\ Upto(d[i - 1].content) <= Upto(t)
      BY <1>10, <2>1
    <2>4. i = Len(d) \/ d[i + 1].parent_seq # n => Upto(t) = Total(Sizes(Append(s, shape)[n + 1]))
      BY <1>11, <2>1
    <2>5. InPlace(d, Append(s, shape), i)
      BY <1>9, <2>2, <2>3, <2>4 DEF InPlace
    <2> QED
      BY <2>1, <2>5
  <1> QED
    BY <1>1, <1>2, <1>12

\* The inductive invariant: no chunk is of a segment that is not split yet.
CoverInv ==
    /\ ChunkTypeOK /\ ChunksCoverText
    /\ \A i \in DOMAIN chunks : chunks[i].parent_seq < Len(segments)

\* What ChunksCoverText says of the chunks c of the segments s.
AllInPlace(c, s) ==
    /\ \A n \in DOMAIN s : s[n] # <<>> <=> \E i \in DOMAIN c : c[i].parent_seq = n - 1
    /\ \A i \in DOMAIN c : InPlace(c, s, i)

\* The property, in both states of a step, is the same said place by place.
LEMMA CoverByPlace ==
  /\ ChunksCoverText <=> AllInPlace(chunks, segments)
  /\ ChunksCoverText' <=> AllInPlace(chunks', segments')
  <1>1. ChunksCoverText <=> AllInPlace(chunks, segments)
    BY DEF ChunksCoverText, AllInPlace, InPlace
  <1>2. ChunksCoverText' <=> AllInPlace(chunks', segments')
    BY DEF ChunksCoverText, AllInPlace, InPlace
  <1> QED
    BY <1>1, <1>2

\* Splitting a segment leaves its text in the chunks, and the others where they are.
LEMMA SplitCovers ==
  ASSUME CoverInv, ChunkSize >= 3, NEW shape \in Shapes, SplitSegment(shape)
  PROVE  CoverInv'
  <1>1. /\ ChunkTypeOK /\ overlap \in 0..ChunkSize - 1 /\ segments \in Seq(Shapes) /\ chunks \in Seq(Chunks)
        /\ segments' = Append(segments, shape) /\ Len(segments) < MaxSegments
    BY DEF CoverInv, ChunkTypeOK, Chunks, SplitSegment
  <1>2. ChunkTypeOK'
    BY <1>1, SplitTyped
  <1>3. PICK s \in Seq(Shapes), n \in Nat : s = segments /\ n = Len(s) /\ n \in 0..MaxSegments - 1 /\ DOMAIN s = 1..n
    <2>1. Len(segments) \in Nat /\ MaxSegments \in Nat /\ DOMAIN segments = 1..Len(segments)
      BY <1>1, ChunkingConstants DEF ChunkingConstants
    <2>2. Len(segments) \in 0..MaxSegments - 1
      BY <1>1, <2>1
    <2> QED
      BY <1>1, <2>1, <2>2
  <1>4. PICK c \in Seq(Chunks), m \in Nat : c = chunks /\ m = Len(c) /\ DOMAIN c = 1..m
    BY <1>1
  <1>5. /\ \A k \in 1..n : s[k] # <<>> <=> \E i \in 1..m : c[i].parent_seq = k - 1
        /\ \A i \in 1..m : InPlace(c, s, i)
        /\ \A i \in 1..m : c[i].parent_seq < n
    BY <1>3, <1>4, CoverByPlace DEF AllInPlace, CoverInv
  <1>6. PICK s2 \in Seq(Shapes) : /\ s2 = segments' /\ s2 = Append(s, shape) /\ Len(s2) = n + 1 /\ DOMAIN s2 = 1..n + 1
                                  /\ s2[n + 1] = shape /\ \A k \in 1..n : s2[k] = s[k]
    <2>1. /\ Append(s, shape) \in Seq(Shapes) /\ Len(Append(s, shape)) = Len(s) + 1
          /\ Append(s, shape)[Len(s) + 1] = shape /\ \A k \in 1..Len(s) : Append(s, shape)[k] = s[k]
      BY AppendProperties
    <2>2. DOMAIN Append(s, shape) = 1..Len(Append(s, shape))
      BY <2>1
    <2> QED
      BY <1>1, <1>3, <2>1, <2>2
  <1>c. \A i \in 1..m : c[i].parent_seq \in Nat
    <2>1. \A i \in 1..m : c[i] \in Chunks
      BY <1>4, ElementOfSeq
    <2> QED
      BY <2>1 DEF Chunks
  <1>7. PICK pieces \in Seq(Seq(Nat)) :
           /\ chunks' = c \o Labelled(pieces, n)
           /\ (shape = <<>>) = (pieces = <<>>)
           /\ shape # <<>> => Covering(pieces, 0, Total(Sizes(shape)))
    <2>1. CASE shape = <<>>
      <3>1. chunks' = c
        BY <1>4, <2>1 DEF SplitSegment
      <3>2. Labelled(<<>>, n) = <<>>
        BY DEF Labelled
      <3>3. c \o <<>> = c
        BY ConcatEmptySeq
      <3>4. <<>> \in Seq(Seq(Nat)) /\ c = c \o Labelled(<<>>, n)
        BY <3>2, <3>3
      <3> QED
        BY <2>1, <3>1, <3>4
    <2>2. CASE shape # <<>>
      <3>1. PICK pieces \in Splits(shape) : chunks' = chunks \o Labelled(pieces, Len(segments))
        BY <2>2 DEF SplitSegment, Labelled
      <3>2. Covering(pieces, 0, Total(Sizes(shape)))
        BY <1>1, <2>2, SplitsCover
      <3>3. pieces \in Seq(Seq(Nat)) /\ pieces # <<>>
        BY <3>2 DEF Covering, Covers
      <3> QED
        BY <1>3, <1>4, <2>2, <3>1, <3>2, <3>3
    <2> QED
      BY <2>1, <2>2
  <1>8. PICK k \in Nat : k = Len(pieces) /\ ((pieces = <<>>) <=> (k = 0))
    OBVIOUS
  <1>9. PICK d \in Seq(Chunks) : /\ d = chunks' /\ d = c \o Labelled(pieces, n) /\ Len(d) = m + k /\ DOMAIN d = 1..m + k
                                 /\ \A i \in 1..m : d[i] = c[i]
                                 /\ \A i \in 1..k : d[m + i].parent_seq = n
    <2>1. /\ c \o Labelled(pieces, n) \in Seq(Chunks)
          /\ Len(c \o Labelled(pieces, n)) = Len(c) + Len(pieces)
          /\ \A i \in 1..Len(c) : (c \o Labelled(pieces, n))[i] = c[i]
          /\ \A i \in 1..Len(pieces) : /\ (c \o Labelled(pieces, n))[Len(c) + i].parent_seq = n
                                       /\ (c \o Labelled(pieces, n))[Len(c) + i].content = pieces[i]
      <3>1. c \in Seq(Chunks) /\ pieces \in Seq(Seq(Nat)) /\ n \in 0..MaxSegments - 1
        BY <1>3, <1>4
      <3> QED
        BY <3>1, ChunksGrow
    <2>2. DOMAIN (c \o Labelled(pieces, n)) = 1..Len(c \o Labelled(pieces, n))
      BY <2>1
    <2> QED
      BY <1>4, <1>7, <1>8, <2>1, <2>2
  <1>10. \A i \in 1..m + k : i \in 1..m \/ \E j \in 1..k : i = m + j
    <2> SUFFICES ASSUME NEW i \in 1..m + k, i \notin 1..m PROVE \E j \in 1..k : i = m + j
      OBVIOUS
    <2>1. i - m \in 1..k /\ i = m + (i - m)
      OBVIOUS
    <2> QED
      BY <2>1
  <1>11. \A i \in 1..m : i \in 1..m + k
    OBVIOUS
  <1>12. ASSUME NEW i \in 1..m + k PROVE d[i].parent_seq < n + 1
    <2>1. CASE i \in 1..m
      <3>1. d[i].parent_seq \in Nat /\ d[i].parent_seq < n
        BY <1>5, <1>9, <1>c, <2>1
      <3> QED
        BY <3>1
    <2>2. ASSUME NEW j \in 1..k, i = m + j PROVE d[i].parent_seq < n + 1
      <3>1. d[i].parent_seq = n
        BY <1>9, <2>2
      <3> QED
        BY <3>1
    <2> QED
      BY <1>10, <2>1, <2>2
  <1>13. ASSUME NEW i \in 1..m + k PROVE InPlace(d, s2, i)
    <2>1. CASE i \in 1..m
      <3>1. InPlace(c, s, i) /\ c[i].parent_seq < Len(s) /\ Len(s) \in 0..MaxSegments - 1 /\ i \in 1..Len(c)
        BY <1>3, <1>4, <1>5, <2>1
      <3>2. InPlace(c \o Labelled(pieces, Len(s)), Append(s, shape), i)
        BY <3>1, InPlaceStays
      <3> QED
        BY <1>3, <1>6, <1>9, <3>2
    <2>2. ASSUME NEW j \in 1..k, i = m + j PROVE InPlace(d, s2, i)
      <3>1. j \in 1..Len(pieces) /\ Len(s) \in 0..MaxSegments - 1
        BY <1>3, <1>8
      <3>2. Covering(pieces, 0, Total(Sizes(shape)))
        <4>1. k # 0
          BY <2>2
        <4> QED
          BY <1>7, <1>8, <4>1
      <3>3. \A l \in 1..Len(c) : c[l].parent_seq < Len(s)
        BY <1>3, <1>4, <1>5
      <3>4. InPlace(c \o Labelled(pieces, Len(s)), Append(s, shape), Len(c) + j)
        BY <3>1, <3>2, <3>3, InPlaceComes
      <3> QED
        BY <1>3, <1>4, <1>6, <1>9, <2>2, <3>4
    <2> QED
      BY <1>10, <2>1, <2>2
  <1>14. ASSUME NEW l \in 1..n + 1 PROVE s2[l] # <<>> <=> \E i \in 1..m + k : d[i].parent_seq = l - 1
    <2>1. CASE l \in 1..n
      <3>1. (s2[l] # <<>>) <=> \E i \in 1..m : d[i].parent_seq = l - 1
        BY <1>5, <1>6, <1>9, <2>1
      <3>2. \A i \in 1..k : d[m + i].parent_seq # l - 1
        <4>1. n # l - 1
          BY <2>1
        <4> QED
          BY <1>9, <4>1
      <3> QED
        BY <1>10, <1>11, <3>1, <3>2
    <2>2. CASE l = n + 1
      <3>1. l - 1 = n /\ s2[l] = shape
        BY <1>6, <2>2
      <3>2. \A i \in 1..m : d[i].parent_seq # n
        <4> SUFFICES ASSUME NEW i \in 1..m, d[i].parent_seq = n PROVE FALSE
          OBVIOUS
        <4>1. d[i].parent_seq < n
          BY <1>5, <1>9
        <4> QED
          BY <4>1
      <3>3. k # 0 => \E i \in 1..m + k : d[i].parent_seq = n
        <4> SUFFICES ASSUME k # 0 PROVE \E i \in 1..m + k : d[i].parent_seq = n
          OBVIOUS
        <4>1. 1 \in 1..k /\ m + 1 \in 1..m + k
          OBVIOUS
        <4> QED
          BY <1>9, <4>1
      <3>4. k = 0 => \A i \in 1..m + k : i \in 1..m
        OBVIOUS
      <3> QED
        BY <1>7, <1>8, <3>1, <3>2, <3>3, <3>4
    <2> QED
      BY <2>1, <2>2
  <1>15. ChunksCoverText'
    <2>1. AllInPlace(d, s2)
      BY <1>6, <1>9, <1>13, <1>14 DEF AllInPlace
    <2> QED
      BY <1>6, <1>9, <2>1, CoverByPlace
  <1> QED
    BY <1>2, <1>6, <1>9, <1>12, <1>15 DEF CoverInv

\* With windows of at least three characters, the chunks of a segment hold the whole of it.
THEOREM ChunksHoldTheText ==
  ASSUME ChunkSize >= 3
  PROVE  ChunkSpec => []ChunksCoverText
  <1>1. ChunkInit => CoverInv
    <2> SUFFICES ASSUME ChunkInit PROVE CoverInv
      OBVIOUS
    <2>1. segments = <<>> /\ chunks = <<>>
      BY DEF ChunkInit
    <2>2. segments \in Seq(Shapes) /\ chunks \in Seq([parent_seq : 0..MaxSegments - 1, content : Seq(Nat)])
      BY <2>1
    <2>3. DOMAIN segments = {} /\ DOMAIN chunks = {}
      BY <2>1
    <2> QED
      BY <2>2, <2>3 DEF ChunkInit, ChunkTypeOK, CoverInv, ChunksCoverText
  <1>2. CoverInv /\ [ChunkNext]_chunkVars => CoverInv'
    <2> SUFFICES ASSUME CoverInv, [ChunkNext]_chunkVars PROVE CoverInv'
      OBVIOUS
    <2>1. CASE ChunkNext
      BY <2>1, SplitCovers DEF ChunkNext
    <2>2. CASE UNCHANGED chunkVars
      <3>1. /\ strategy' = strategy /\ overlap' = overlap
            /\ chunks' = chunks /\ segments' = segments
        BY <2>2 DEF chunkVars
      <3>2. ChunksCoverText'
        BY <3>1, CoverByPlace DEF CoverInv
      <3> QED
        BY <3>1, <3>2 DEF CoverInv, ChunkTypeOK
    <2> QED
      BY <2>1, <2>2
  <1>3. CoverInv => ChunksCoverText
    BY DEF CoverInv
  <1> QED
    BY <1>1, <1>2, <1>3, PTL DEF ChunkSpec

-----------------------------------------------------------------------------
(* The services together.                                                    *)

\* The limits, the context, the tokens and the texts at once: what every service promises
\* about its own state, in any state the services reach.
ServicesSafe ==
    /\ OneTimeTokens /\ RevocationIsFinal
    /\ LimitsHold
    /\ OwnerStays /\ ChangesByMembers /\ PurgedRowsArchived
    /\ ContextIsStored /\ ContextComplete
    /\ StaleAnswersExplained /\ SuspiciousWasReviewed
    /\ FusionRespectsAgreement /\ RiskyLosesRank /\ ContextShape
    /\ StoredIsCited /\ RepairKeepsSupported
    /\ FailsOnlyWhenAllFail
    /\ ChunksCoverText /\ NumbersNameSources /\ MemoriesFit

\* Each service runs as its own specification says.
THEOREM EachServiceRuns ==
  ServicesSpec => /\ SesSpec /\ CapSpec /\ GovSpec /\ ConvSpec /\ CacheSpec /\ RankSpec
                  /\ CiteSpec /\ ProvSpec /\ ChunkSpec /\ AgentSpec /\ MemSpec
  <1>1. ServicesInit => /\ SesInit /\ CapInit /\ GovInit /\ ConvInit /\ CacheInit /\ RankInit
                        /\ CiteInit /\ ProvInit /\ ChunkInit /\ AgentInit /\ MemInit
    BY DEF ServicesInit
  <1>2. [ServicesNext]_vars =>
          /\ [SesNext]_sesVars /\ [CapNext]_capVars /\ [GovNext]_govVars /\ [ConvNext]_convVars
          /\ [CacheNext]_cacheVars /\ [RankNext]_rankVars /\ [CiteNext]_citeVars /\ [ProvNext]_provVars
          /\ [ChunkNext]_chunkVars /\ [AgentNext]_agentVars /\ [MemNext]_memVars
    <2>1. UNCHANGED vars =>
            UNCHANGED <<sesVars, capVars, govVars, convVars, cacheVars, rankVars, citeVars, provVars,
                        chunkVars, agentVars, memVars>>
      BY DEF vars
    <2> QED
      BY <2>1 DEF ServicesNext
  <1> QED
    BY <1>1, <1>2, PTL DEF ServicesSpec, SesSpec, CapSpec, GovSpec, ConvSpec, CacheSpec, RankSpec,
                           CiteSpec, ProvSpec, ChunkSpec, AgentSpec, MemSpec

\* Every variable of every service keeps its type, whichever service runs.
THEOREM ServicesTypeCorrect == ServicesSpec => []ServicesTypeOK
  <1>1. /\ SesInv => SesTypeOK
        /\ CapInv => CapTypeOK
        /\ ConvInv => ConvTypeOK
        /\ CacheInv => CacheTypeOK
        /\ ProvInv => ProvTypeOK
    BY DEF SesInv, CapInv, ConvInv, CacheInv, ProvInv
  <1>2. /\ SesTypeOK /\ CapTypeOK /\ GovTypeOK /\ ConvTypeOK /\ CacheTypeOK /\ RankTypeOK
        /\ CiteTypeOK /\ ProvTypeOK /\ ChunkTypeOK /\ AgentTypeOK /\ MemTypeOK
        => ServicesTypeOK
    BY DEF ServicesTypeOK
  <1> QED
    BY <1>1, <1>2, EachServiceRuns, SesInvariant, CapInvariant, GovTypeCorrect, ConvInvariant,
       CacheInvariant, RankTypeCorrect, CiteTypeCorrect, ProvInvariant, ChunkTypeCorrect,
       AgentTypeCorrect, MemTypeCorrect, PTL

\* Every safety invariant of every service, at the same time: two of them hold under conditions
\* on the settings, the history's (SettingsFit) and that a chunk has at least three characters.
THEOREM ServicesStaySafe ==
  ASSUME SettingsFit, ChunkSize >= 3
  PROVE  ServicesSpec => []ServicesSafe
  <1>1. ConvSpec => []ContextComplete
    BY ContextStaysComplete
  <1>2. ChunkSpec => []ChunksCoverText
    BY ChunksHoldTheText
  <1>3. /\ OneTimeTokens /\ RevocationIsFinal /\ LimitsHold
        /\ OwnerStays /\ ChangesByMembers /\ PurgedRowsArchived
        /\ ContextIsStored /\ ContextComplete /\ StaleAnswersExplained /\ SuspiciousWasReviewed
        /\ FusionRespectsAgreement /\ RiskyLosesRank /\ ContextShape
        /\ StoredIsCited /\ RepairKeepsSupported /\ FailsOnlyWhenAllFail
        /\ ChunksCoverText /\ NumbersNameSources /\ MemoriesFit
        => ServicesSafe
    BY DEF ServicesSafe
  <1> QED
    BY <1>1, <1>2, <1>3, EachServiceRuns, TokensAreOneTime, RevocationStays, LimitsAlwaysHold,
       OwnerIsNeverLost, RemovedMembersChangeNothing, PurgeArchivesFirst, SummaryMatchesBoundary,
       StaleAnswersAreExplained, SuspiciousIsReviewed, FusionAgrees, RiskyRankIsLost,
       ContextHasShape, StoredAnswersAreCited, RepairKeepsSupport, FailoverIsComplete,
       NumbersAreSources, MemoriesAlwaysFit, PTL

==============================================================================
