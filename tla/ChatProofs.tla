----------------------------- MODULE ChatProofs -----------------------------
(***************************************************************************)
(* Proofs about the chat service, for any requests, keys and books, any    *)
(* questions, chunks, texts and limits: answers, retrieval and the         *)
(* exchanges that are saved.  First come the operators of Orders: sets in  *)
(* order, and folds, whose steps are shown by the least step that would    *)
(* fail.                                                                   *)
(***************************************************************************)
EXTENDS Answering, Retrieval, ChatExchange,
        FiniteSetTheorems, SequenceTheorems, WellFoundedInduction, TLAPS

-----------------------------------------------------------------------------
(* Orders *)

\* The elements of a set before each, in an order of them all.
LinearBelow(S, below) ==
    /\ below \in [S -> SUBSET S]
    /\ \A x \in S : x \notin below[x]
    /\ \A x, y \in S : x = y \/ x \in below[y] \/ y \in below[x]
    /\ \A x, y, z \in S : x \in below[y] /\ y \in below[z] => x \in below[z]

\* In a finite set the numbers of elements before each are 0, 1, 2 and so on.
LEMMA Positions ==
    ASSUME NEW S, IsFiniteSet(S), NEW below, LinearBelow(S, below)
    PROVE  /\ Cardinality(S) \in Nat
           /\ \A x \in S : Cardinality(below[x]) \in 0 .. Cardinality(S) - 1
           /\ \A x, y \in S : x \in below[y] => Cardinality(below[x]) < Cardinality(below[y])
           /\ \A x, y \in S : Cardinality(below[x]) = Cardinality(below[y]) => x = y
           /\ \A k \in 0 .. Cardinality(S) - 1 : \E x \in S : Cardinality(below[x]) = k
<1> DEFINE n == Cardinality(S)
           p == [x \in S |-> Cardinality(below[x])]
<1> USE DEF LinearBelow
<1>1. n \in Nat
  BY FS_CardinalityType
<1>2. ASSUME NEW x \in S
      PROVE  IsFiniteSet(below[x]) /\ Cardinality(below[x]) \in Nat /\ below[x] \in SUBSET S
  BY FS_Subset, FS_CardinalityType
<1>3. ASSUME NEW x \in S PROVE Cardinality(below[x]) \in 0 .. n - 1
  <2>1. Cardinality(below[x]) <= n /\ Cardinality(below[x]) # n
    <3>1. below[x] # S
      OBVIOUS
    <3> QED BY <1>2, <3>1, FS_Subset
  <2> QED BY <1>1, <1>2, <2>1
<1>4. ASSUME NEW x \in S, NEW y \in S, x \in below[y]
      PROVE  Cardinality(below[x]) < Cardinality(below[y])
  <2>1. below[x] \in SUBSET below[y] /\ below[y] # below[x]
    BY <1>2, <1>4
  <2>2. Cardinality(below[x]) <= Cardinality(below[y]) /\ Cardinality(below[y]) # Cardinality(below[x])
    BY <1>2, <2>1, FS_Subset
  <2>3. PICK a \in Nat, b \in Nat : a = Cardinality(below[x]) /\ b = Cardinality(below[y])
    BY <1>2
  <2> QED BY <2>2, <2>3
<1>5. ASSUME NEW x \in S, NEW y \in S, Cardinality(below[x]) = Cardinality(below[y]), x # y
      PROVE  FALSE
  <2>1. PICK a \in Nat : a = Cardinality(below[x]) /\ a = Cardinality(below[y])
    BY <1>2, <1>5
  <2>2. a < a
    BY <1>4, <1>5, <2>1
  <2> QED BY <2>2
<1>6. p \in Injection(S, 0 .. n - 1)
  BY <1>3, <1>5 DEF Injection, IsInjective
<1>7. IsFiniteSet(0 .. n - 1) /\ Cardinality(0 .. n - 1) = n
  <2>1. PICK m \in Nat : m = n
    BY <1>1
  <2>2. IsFiniteSet(0 .. m - 1) /\ Cardinality(0 .. m - 1) = IF 0 > m - 1 THEN 0 ELSE m - 1 - 0 + 1
    <3>1. 0 \in Int /\ m - 1 \in Int
      OBVIOUS
    <3> QED BY ONLY <3>1, FS_Interval
  <2>3. Cardinality(0 .. m - 1) = m
    BY <2>2
  <2> QED BY <2>1, <2>2, <2>3
<1>8. p \in Surjection(S, 0 .. n - 1)
  <2> HIDE DEF p
  <2> QED BY <1>6, <1>7, FS_Injection
<1>9. \A k \in 0 .. n - 1 : \E x \in S : Cardinality(below[x]) = k
  BY <1>8 DEF Surjection
<1> QED BY <1>1, <1>3, <1>4, <1>5, <1>9

\* The elements of a set by their places: each once, and in order.
PlacedBy(S, below, q) ==
    /\ q = [k \in 1 .. Cardinality(S) |-> q[k]]
    /\ \A k \in 1 .. Cardinality(S) : q[k] \in S /\ Cardinality(below[q[k]]) = k - 1


\* The elements at their places are in order, and all are there.
LEMMA PlacesInOrder ==
    ASSUME NEW S, IsFiniteSet(S), NEW below, LinearBelow(S, below), NEW q, PlacedBy(S, below, q)
    PROVE  /\ Cardinality(S) \in Nat /\ q \in [1 .. Cardinality(S) -> S]
           /\ \A i, j \in 1 .. Cardinality(S) : i < j => q[i] \in below[q[j]]
           /\ \A x \in S : \E k \in 1 .. Cardinality(S) : q[k] = x
<1> DEFINE n == Cardinality(S)
<1>1. /\ n \in Nat
      /\ \A x \in S : Cardinality(below[x]) \in 0 .. n - 1
      /\ \A x, y \in S : x \in below[y] => Cardinality(below[x]) < Cardinality(below[y])
      /\ \A x, y \in S : Cardinality(below[x]) = Cardinality(below[y]) => x = y
  BY Positions
<1>2. q = [k \in 1 .. n |-> q[k]] /\ \A k \in 1 .. n : q[k] \in S /\ Cardinality(below[q[k]]) = k - 1
  BY DEF PlacedBy
<1> HIDE DEF n
<1>3. q \in [1 .. n -> S]
  BY <1>2
<1>4. ASSUME NEW i \in 1 .. n, NEW j \in 1 .. n, i < j PROVE q[i] \in below[q[j]]
  <2>1. q[i] \in S /\ q[j] \in S /\ Cardinality(below[q[i]]) = i - 1 /\ Cardinality(below[q[j]]) = j - 1
    BY <1>2
  <2>2. q[j] \notin below[q[i]]
    <3>1. ~ j - 1 < i - 1
      BY <1>4
    <3> QED BY <1>1, <2>1, <3>1
  <2>3. q[i] # q[j]
    <3>1. i - 1 # j - 1
      BY <1>4
    <3> QED BY <2>1, <3>1
  <2> QED BY <2>1, <2>2, <2>3 DEF LinearBelow
<1>5. ASSUME NEW x \in S PROVE \E k \in 1 .. n : q[k] = x
  <2>1. PICK m \in 0 .. n - 1 : m = Cardinality(below[x])
    BY <1>1
  <2>2. m + 1 \in 1 .. n /\ m + 1 - 1 = m
    BY <1>1
  <2>3. q[m + 1] \in S /\ Cardinality(below[q[m + 1]]) = m
    BY <1>2, <2>2
  <2> QED BY <1>1, <2>1, <2>2, <2>3
<1> QED BY <1>1, <1>3, <1>4, <1>5 DEF n

\* Some element has each place.
LEMMA PlaceTaken ==
    ASSUME NEW S, IsFiniteSet(S), NEW below, LinearBelow(S, below), NEW k \in 1 .. Cardinality(S)
    PROVE  \E x \in S : Cardinality(below[x]) = k - 1
<1>1. /\ Cardinality(S) \in Nat
      /\ \A i \in 0 .. Cardinality(S) - 1 : \E x \in S : Cardinality(below[x]) = i
  BY Positions
<1>2. k - 1 \in 0 .. Cardinality(S) - 1
  BY <1>1
<1> QED BY <1>1, <1>2

\* Numbers in order.
LEMMA NumbersInOrder ==
    ASSUME NEW S \in SUBSET Int, IsFiniteSet(S), NEW q, q = Ascending(S)
    PROVE  /\ Cardinality(S) \in Nat /\ q \in [1 .. Cardinality(S) -> S]
           /\ \A i, j \in 1 .. Cardinality(S) : i < j => q[i] < q[j]
           /\ \A x \in S : \E k \in 1 .. Cardinality(S) : q[k] = x
<1> DEFINE below == [x \in S |-> {y \in S : y < x}]
           n == Cardinality(S)
<1>1. /\ below \in [S -> SUBSET S]
      /\ \A x, y \in S : y \in below[x] <=> y < x
      /\ \A x \in S : below[x] = {y \in S : y < x}
  OBVIOUS
<1> HIDE DEF below
<1>2. LinearBelow(S, below)
  BY <1>1 DEF LinearBelow
<1>3. q = [k \in 1 .. n |-> CHOOSE x \in S : Cardinality({y \in S : y < x}) = k - 1]
  BY DEF Ascending, InOrder
<1>4. ASSUME NEW k \in 1 .. n PROVE q[k] \in S /\ Cardinality(below[q[k]]) = k - 1
  <2>1. \E x \in S : Cardinality(below[x]) = k - 1
    BY <1>2, PlaceTaken
  <2>2. \E x \in S : Cardinality({y \in S : y < x}) = k - 1
    BY <1>1, <2>1
  <2>3. q[k] = CHOOSE x \in S : Cardinality({y \in S : y < x}) = k - 1
    BY <1>3
  <2>4. q[k] \in S /\ Cardinality({y \in S : y < q[k]}) = k - 1
    BY <2>2, <2>3, Zenon
  <2> QED BY <1>1, <2>4
<1>5. PlacedBy(S, below, q)
  <2> HIDE DEF n
  <2>1. q = [k \in 1 .. n |-> q[k]]
    BY <1>3
  <2> QED BY <1>4, <2>1 DEF n, PlacedBy
<1>6. /\ n \in Nat /\ q \in [1 .. n -> S]
      /\ \A i, j \in 1 .. n : i < j => q[i] \in below[q[j]]
      /\ \A x \in S : \E k \in 1 .. n : q[k] = x
  BY <1>2, <1>5, PlacesInOrder
<1> HIDE DEF n
<1>7. ASSUME NEW i \in 1 .. n, NEW j \in 1 .. n, i < j PROVE q[i] < q[j]
  BY <1>1, <1>6, <1>7
<1> QED BY <1>6, <1>7 DEF n

\* Some places of a sequence and what is at them, in order.
TakenInOrder(T, s, I, e) ==
    /\ IsFiniteSet(I) /\ Cardinality(I) \in Nat
    /\ e \in Seq(T) /\ Len(e) = Cardinality(I) /\ DOMAIN e = 1 .. Cardinality(I)
    /\ \E q \in [1 .. Cardinality(I) -> I] :
         /\ \A k \in 1 .. Cardinality(I) : e[k] = s[q[k]]
         /\ \A i, j \in 1 .. Cardinality(I) : i < j => q[i] < q[j]
         /\ \A x \in I : \E k \in 1 .. Cardinality(I) : q[k] = x

\* The elements at some places of a sequence.
LEMMA ElementsInOrder ==
    ASSUME NEW T, NEW s \in Seq(T), NEW I \in SUBSET DOMAIN s
    PROVE  TakenInOrder(T, s, I, ElementsAt(s, I))
<1> DEFINE q == Ascending(I)
           n == Cardinality(I)
<1>1. DOMAIN s = 1 .. Len(s) /\ Len(s) \in Nat
  BY LenProperties
<1>2. I \in SUBSET Int /\ IsFiniteSet(I)
  <2>1. IsFiniteSet(1 .. Len(s))
    BY <1>1, FS_Interval
  <2>2. I \in SUBSET (1 .. Len(s))
    BY <1>1
  <2>3. IsFiniteSet(I)
    BY <2>1, <2>2, FS_Subset
  <2> QED BY <1>1, <2>2, <2>3
<1>3. /\ n \in Nat /\ q \in [1 .. n -> I]
      /\ \A i, j \in 1 .. n : i < j => q[i] < q[j]
      /\ \A x \in I : \E k \in 1 .. n : q[k] = x
  BY <1>2, NumbersInOrder
<1>4. ElementsAt(s, I) = [k \in 1 .. n |-> s[q[k]]]
  <2>1. ElementsAt(s, I) = [k \in DOMAIN q |-> s[q[k]]]
    BY DEF ElementsAt
  <2> QED BY <1>3, <2>1
<1> HIDE DEF q
<1>5. \A k \in 1 .. n : s[q[k]] \in T
  BY <1>1, <1>3, ElementOfSeq
<1>6. ElementsAt(s, I) \in Seq(T) /\ Len(ElementsAt(s, I)) = n
  BY <1>3, <1>4, <1>5
<1>7. \A k \in 1 .. n : ElementsAt(s, I)[k] = s[q[k]]
  BY <1>4
<1>8. DOMAIN ElementsAt(s, I) = 1 .. n
  BY <1>4
<1> QED BY <1>2, <1>3, <1>6, <1>7, <1>8 DEF TakenInOrder

\* The least and the greatest number of a set.
LEMMA LeastExists ==
    ASSUME NEW T \in SUBSET Nat, T # {}
    PROVE  \E x \in T : \A y \in T : x <= y
<1> DEFINE R == {ss \in Nat \X Nat : ss[1] < ss[2]}
<1>1. IsWellFoundedOn(R, Nat)
  BY NatLessThanWellFounded DEF OpToRel
<1> HIDE DEF R
<1>2. T \subseteq Nat
  OBVIOUS
<1>3. PICK x \in T : \A y \in T : ~ (<<y, x>> \in R)
  BY <1>1, <1>2, WFMin
<1>4. \A y \in T : ~ y < x
  BY <1>2, <1>3 DEF R
<1> QED BY <1>2, <1>4

\* Max takes the greatest of a set of numbers that has a bound.
LEMMA GreatestIs ==
    ASSUME NEW n \in Nat, NEW T \in SUBSET (0 .. n), T # {}
    PROVE  Max(T) \in T /\ \A y \in T : y <= Max(T)
<1> DEFINE U == {n - x : x \in T}
<1>1. U \in SUBSET Nat /\ U # {}
  <2>1. \A x \in T : n - x \in Nat
    OBVIOUS
  <2>2. PICK x \in T : TRUE
    OBVIOUS
  <2>3. n - x \in U
    BY <2>2
  <2> QED BY <2>1, <2>3
<1>2. PICK u \in U : \A v \in U : u <= v
  BY <1>1, LeastExists
<1>3. PICK x \in T : u = n - x
  OBVIOUS
<1>4. ASSUME NEW y \in T PROVE x >= y
  <2>1. n - x <= n - y
    BY <1>2, <1>3
  <2>2. x \in Int /\ y \in Int
    OBVIOUS
  <2> QED BY <2>1, <2>2
<1>5. \E z \in T : \A y \in T : z >= y
  BY <1>4
<1>6. Max(T) \in T /\ \A y \in T : Max(T) >= y
  BY <1>5, Zenon DEF Max
<1> QED BY <1>6

-----------------------------------------------------------------------------
(* Folds *)

\* A function of the numbers up to N given step by step exists.
StepByStep(N, T, base, g) ==
    \E f \in [0 .. N -> T] : f[0] = base /\ \A n \in 1 .. N : f[n] = g[n][f[n - 1]]

\* It does: the least number up to which there is none would have one before it.
LEMMA RecursionExists ==
    ASSUME NEW N \in Nat, NEW T, NEW base \in T, NEW g \in [1 .. N -> [T -> T]]
    PROVE  StepByStep(N, T, base, g)
<1> USE DEF StepByStep
<1> DEFINE Good(m, f) == f \in [0 .. m -> T] /\ f[0] = base /\ \A n \in 1 .. m : f[n] = g[n][f[n - 1]]
           Bad == {m \in 0 .. N : ~ \E f : Good(m, f)}
<1>1. Bad = {}
  <2> SUFFICES ASSUME Bad # {} PROVE FALSE
    OBVIOUS
  <2>1. PICK m \in Bad : \A k \in Bad : m <= k
    <3>1. Bad \in SUBSET Nat
      OBVIOUS
    <3> HIDE DEF Bad
    <3> QED BY <3>1, LeastExists
  <2>2. m \in 0 .. N
    OBVIOUS
  <2>3. CASE m = 0
    <3>1. Good(0, [i \in 0 .. 0 |-> base])
      OBVIOUS
    <3> QED BY <2>3, <3>1
  <2>4. CASE m # 0
    <3>1. m - 1 \in 0 .. N /\ m \in 1 .. N /\ ~ m <= m - 1
      BY <2>2, <2>4
    <3>2. m - 1 \notin Bad
      BY <2>1, <3>1
    <3>3. PICK f : Good(m - 1, f)
      BY <3>1, <3>2
    <3> DEFINE h == [i \in 0 .. m |-> IF i = m THEN g[m][f[m - 1]] ELSE f[i]]
    <3>4. f[m - 1] \in T /\ g[m][f[m - 1]] \in T
      BY <3>1, <3>3
    <3>5. \A i \in 0 .. m : h[i] \in T
      BY <3>1, <3>3, <3>4
    <3>6. h \in [0 .. m -> T] /\ h[0] = base
      BY <2>4, <3>1, <3>3, <3>5
    <3>7. ASSUME NEW n \in 1 .. m PROVE h[n] = g[n][h[n - 1]]
      <4>1. CASE n = m
        <5>1. h[n] = g[m][f[m - 1]] /\ h[n - 1] = f[m - 1]
          BY <3>1, <4>1
        <5> QED BY <4>1, <5>1
      <4>2. CASE n # m
        <5>1. n \in 1 .. m - 1 /\ h[n] = f[n] /\ h[n - 1] = f[n - 1]
          BY <3>1, <4>2
        <5> QED BY <3>3, <5>1
      <4> QED BY <4>1, <4>2
    <3> HIDE DEF h
    <3>8. Good(m, h)
      BY <3>6, <3>7
    <3> QED BY <3>8
  <2> QED BY <2>3, <2>4
<1>2. N \in 0 .. N
  OBVIOUS
<1>3. N \notin Bad
  <2> HIDE DEF Bad
  <2> QED BY ONLY <1>1
<1>4. \E f : Good(N, f)
  <2> HIDE DEF Good
  <2> QED BY <1>2, <1>3
<1> QED BY <1>4

\* The function on sets of places that a fold from the left goes by exists.
FoldsBy(N, T, base, g) ==
    \E it \in [SUBSET (1 .. N) -> T] :
        \A s \in SUBSET (1 .. N) : it[s] = IF s = {} THEN base ELSE g[Max(s)][it[s \ {Max(s)}]]

\* It does: the value of a set is reached by its numbers, one after the other.
LEMMA FoldExists ==
    ASSUME NEW N \in Nat, NEW T, NEW base \in T, NEW g \in [1 .. N -> [T -> T]]
    PROVE  FoldsBy(N, T, base, g)
<1> DEFINE D  == SUBSET (1 .. N)
           TT == [D -> T]
           bb == [s \in D |-> base]
           G  == [n \in 1 .. N |-> [h \in TT |-> [s \in D |-> IF n \in s THEN g[n][h[s \ {n}]] ELSE h[s]]]]
<1>1. bb \in TT
  OBVIOUS
<1>2. G \in [1 .. N -> [TT -> TT]]
  <2>1. ASSUME NEW n \in 1 .. N, NEW h \in TT, NEW s \in D
        PROVE  (IF n \in s THEN g[n][h[s \ {n}]] ELSE h[s]) \in T
    <3>1. s \ {n} \in D
      OBVIOUS
    <3> HIDE DEF D
    <3> QED BY <3>1
  <2> HIDE DEF D
  <2> QED BY <2>1
<1> HIDE DEF G
<1>3. PICK F \in [0 .. N -> TT] : F[0] = bb /\ \A n \in 1 .. N : F[n] = G[n][F[n - 1]]
  <2>1. StepByStep(N, TT, bb, G)
    <3> HIDE DEF TT, bb
    <3> QED BY <1>1, <1>2, RecursionExists
  <2> HIDE DEF TT, bb
  <2> QED BY ONLY <2>1 DEF StepByStep
<1>4. ASSUME NEW n \in 1 .. N, NEW s \in D
      PROVE  F[n][s] = IF n \in s THEN g[n][F[n - 1][s \ {n}]] ELSE F[n - 1][s]
  <2>1. n - 1 \in 0 .. N
    OBVIOUS
  <2>2. F[n - 1] \in TT
    BY <1>3, <2>1
  <2>3. F[n] = [t \in D |-> IF n \in t THEN g[n][F[n - 1][t \ {n}]] ELSE F[n - 1][t]]
    <3> HIDE DEF D
    <3> QED BY <1>3, <2>2 DEF G
  <2> QED BY <2>3
<1> HIDE DEF D, bb
\* Numbers above those in a set leave what the set gives.
<1>5. ASSUME NEW k \in 0 .. N, NEW s \in D, \A x \in s : x <= k
      PROVE  F[N][s] = F[k][s]
  <2> DEFINE Bad == {n \in k .. N : F[n][s] # F[k][s]}
  <2>1. CASE Bad # {}
    <3>1. PICK n \in Bad : \A m \in Bad : n <= m
      <4>1. Bad \in SUBSET Nat
        OBVIOUS
      <4> HIDE DEF Bad
      <4> QED BY <2>1, <4>1, LeastExists
    <3>2. n \in k .. N /\ F[n][s] # F[k][s]
      OBVIOUS
    <3>3. n # k
      BY <3>2
    <3>4. n \in 1 .. N /\ n - 1 \in k .. N /\ ~ n <= n - 1 /\ n \notin s
      BY <1>5, <3>2, <3>3
    <3>5. F[n - 1][s] = F[k][s]
      BY <3>1, <3>4
    <3>6. F[n][s] = F[n - 1][s]
      <4>1. F[n][s] = IF n \in s THEN g[n][F[n - 1][s \ {n}]] ELSE F[n - 1][s]
        BY <1>4, <3>4
      <4> QED BY ONLY <3>4, <4>1
    <3> QED BY ONLY <3>2, <3>5, <3>6
  <2>2. CASE Bad = {}
    <3>1. N \in k .. N
      OBVIOUS
    <3> QED BY <2>2, <3>1
  <2> QED BY <2>1, <2>2
<1>6. ASSUME NEW s \in D PROVE F[N][s] = IF s = {} THEN base ELSE g[Max(s)][F[N][s \ {Max(s)}]]
  <2>1. CASE s = {}
    <3>1. F[N][s] = F[0][s]
      BY <1>5, <2>1
    <3>2. F[0][s] = base
      BY <1>3 DEF bb
    <3> QED BY <2>1, <3>1, <3>2
  <2>2. CASE s # {}
    <3> DEFINE x == Max(s)
               u == s \ {x}
    <3>1. x \in s /\ \A y \in s : y <= x
      <4>1. s \in SUBSET (0 .. N)
        BY DEF D
      <4> QED BY <2>2, <4>1, GreatestIs
    <3> HIDE DEF x
    <3>2. x \in 1 .. N /\ x \in 0 .. N /\ x - 1 \in 0 .. N /\ u \in D
      BY <3>1 DEF D
    <3>3. \A y \in u : y <= x - 1
      BY <3>1, <3>2 DEF D
    <3> HIDE DEF u
    <3>4. F[N][s] = F[x][s] /\ F[N][u] = F[x - 1][u]
      BY <1>5, <3>1, <3>2, <3>3
    <3>5. F[x][s] = g[x][F[x - 1][u]]
      BY <1>4, <3>1, <3>2 DEF u
    <3> QED BY <2>2, <3>4, <3>5 DEF u, x
  <2> QED BY <2>1, <2>2
<1>7. F[N] \in TT
  BY <1>3
<1> QED BY <1>6, <1>7 DEF D, FoldsBy

\* The numbers from 1 to n, and the greatest of them.
LEMMA Initials ==
    ASSUME NEW n \in Nat, n # 0
    PROVE  1 .. n # {} /\ Max(1 .. n) = n /\ (1 .. n) \ {Max(1 .. n)} = 1 .. n - 1
<1>1. n \in 1 .. n /\ 1 .. n \in SUBSET (0 .. n)
  OBVIOUS
<1>2. Max(1 .. n) \in 1 .. n /\ \A y \in 1 .. n : y <= Max(1 .. n)
  BY <1>1, GreatestIs
<1>3. Max(1 .. n) = n
  BY <1>1, <1>2
<1> QED BY <1>1, <1>3

\* A function on sets of places that goes by steps gives a value after each element.
GoesBySteps(N, T, base, g, C) ==
    C[{}] = base /\ \A n \in 1 .. N : C[1 .. n - 1] \in T => C[1 .. n] = g[n][C[1 .. n - 1]]
StepsTo(N, T, base, g, end) ==
    \E F \in [0 .. N -> T] : F[0] = base /\ (\A n \in 1 .. N : F[n] = g[n][F[n - 1]]) /\ F[N] = end

\* Such a function takes the values of the initials, each in the type of the values.
LEMMA FoldSteps ==
    ASSUME NEW N \in Nat, NEW T, NEW base \in T, NEW g \in [1 .. N -> [T -> T]], NEW C, GoesBySteps(N, T, base, g, C)
    PROVE  StepsTo(N, T, base, g, C[1 .. N])
<1> USE DEF GoesBySteps, StepsTo
<1> DEFINE F == [n \in 0 .. N |-> C[1 .. n]]
<1>1. F[0] = base
  <2>1. 1 .. 0 = {}
    OBVIOUS
  <2> QED BY <2>1
<1>2. \A n \in 1 .. N : F[n - 1] \in T => F[n] = g[n][F[n - 1]]
  OBVIOUS
<1>3. F[N] = C[1 .. N] /\ DOMAIN F = 0 .. N /\ F = [n \in 0 .. N |-> F[n]]
  OBVIOUS
<1> HIDE DEF F
<1>4. ASSUME NEW n \in 0 .. N PROVE F[n] \in T
  <2> DEFINE Bad == {m \in 0 .. N : F[m] \notin T}
  <2>1. CASE Bad # {}
    <3>1. PICK m \in Bad : \A k \in Bad : m <= k
      <4>1. Bad \in SUBSET Nat
        OBVIOUS
      <4> HIDE DEF Bad
      <4> QED BY <2>1, <4>1, LeastExists
    <3>2. m # 0 /\ m \in 0 .. N
      BY <1>1
    <3>3. m \in 1 .. N /\ m - 1 \in 0 .. N /\ ~ m <= m - 1
      BY <3>2
    <3>4. F[m - 1] \in T
      BY <3>1, <3>3
    <3> QED BY <1>2, <3>3, <3>4
  <2> QED BY <2>1
<1>5. F \in [0 .. N -> T]
  BY <1>3, <1>4
<1>6. \A n \in 1 .. N : F[n] = g[n][F[n - 1]]
  <2> SUFFICES ASSUME NEW n \in 1 .. N PROVE F[n] = g[n][F[n - 1]]
    OBVIOUS
  <2>1. n - 1 \in 0 .. N
    OBVIOUS
  <2> QED BY <1>2, <1>4, <2>1
<1> QED BY <1>1, <1>3, <1>5, <1>6

\* The sum of a sequence, element by element.
LEMMA SumSteps ==
    ASSUME NEW N \in Nat, NEW s \in [1 .. N -> Int]
    PROVE  \E F \in [0 .. N -> Int] : F[0] = 0 /\ (\A n \in 1 .. N : F[n] = F[n - 1] + s[n]) /\ SumOf(s) = F[N]
<1> DEFINE Is(it) == it = [t \in SUBSET DOMAIN s |-> IF t = {} THEN 0 ELSE LET x == Max(t) IN it[t \ {x}] + s[x]]
           C == CHOOSE it : Is(it)
           g == [n \in 1 .. N |-> [x \in Int |-> x + s[n]]]
<1>1. SumOf(s) = C[DOMAIN s] /\ DOMAIN s = 1 .. N
  BY Zenon DEF SumOf, FoldLeft, MapThenFoldSet
<1>2. g \in [1 .. N -> [Int -> Int]] /\ \A n \in 1 .. N, x \in Int : g[n][x] = x + s[n]
  OBVIOUS
<1> HIDE DEF g
<1>3. PICK it \in [SUBSET (1 .. N) -> Int] :
        \A t \in SUBSET (1 .. N) : it[t] = IF t = {} THEN 0 ELSE g[Max(t)][it[t \ {Max(t)}]]
  <2>1. PICK Numbers : Numbers = Int
    OBVIOUS
  <2>2. 0 \in Numbers /\ g \in [1 .. N -> [Numbers -> Numbers]]
    BY <1>2, <2>1
  <2>3. FoldsBy(N, Numbers, 0, g)
    BY <2>2, FoldExists
  <2> QED BY <2>1, <2>3 DEF FoldsBy
<1>4. \A t \in SUBSET (1 .. N) : it[t] = IF t = {} THEN 0 ELSE it[t \ {Max(t)}] + s[Max(t)]
  <2> SUFFICES ASSUME NEW t \in SUBSET (1 .. N), t # {}
               PROVE  g[Max(t)][it[t \ {Max(t)}]] = it[t \ {Max(t)}] + s[Max(t)]
    BY <1>3
  <2>1. Max(t) \in 1 .. N
    <3>1. t \in SUBSET (0 .. N)
      OBVIOUS
    <3> QED BY <3>1, GreatestIs
  <2>2. it[t \ {Max(t)}] \in Int
    OBVIOUS
  <2> QED BY <1>2, <2>1, <2>2
<1>5. \E f : Is(f)
  <2>1. Is(it)
    BY <1>1, <1>3, <1>4
  <2> QED BY <2>1
<1>6. Is(C)
  <2> HIDE DEF Is
  <2> QED BY <1>5, Zenon
<1> HIDE DEF C
<1>7. \A t \in SUBSET (1 .. N) : C[t] = IF t = {} THEN 0 ELSE C[t \ {Max(t)}] + s[Max(t)]
  BY ONLY <1>1, <1>6
<1>8. C[{}] = 0
  BY ONLY <1>7
<1>9. \A n \in 1 .. N : C[1 .. n - 1] \in Int => C[1 .. n] = g[n][C[1 .. n - 1]]
  <2> SUFFICES ASSUME NEW n \in 1 .. N, C[1 .. n - 1] \in Int PROVE C[1 .. n] = g[n][C[1 .. n - 1]]
    OBVIOUS
  <2>1. 1 .. n # {} /\ Max(1 .. n) = n /\ (1 .. n) \ {Max(1 .. n)} = 1 .. n - 1
    <3>1. n \in Nat /\ n # 0
      OBVIOUS
    <3> QED BY <3>1, Initials
  <2>2. 1 .. n \in SUBSET (1 .. N)
    OBVIOUS
  <2>3. C[1 .. n] = C[1 .. n - 1] + s[n]
    BY <1>7, <2>1, <2>2
  <2> QED BY <1>2, <2>3
<1>10. PICK F \in [0 .. N -> Int] :
         F[0] = 0 /\ (\A n \in 1 .. N : F[n] = g[n][F[n - 1]]) /\ F[N] = C[1 .. N]
  <2>1. PICK Numbers : Numbers = Int
    OBVIOUS
  <2>2. 0 \in Numbers /\ g \in [1 .. N -> [Numbers -> Numbers]]
    BY <1>2, <2>1
  <2>4. GoesBySteps(N, Numbers, 0, g, C)
    BY <1>8, <1>9, <2>1 DEF GoesBySteps
  <2>3. StepsTo(N, Numbers, 0, g, C[1 .. N])
    BY <2>2, <2>4, FoldSteps
  <2> QED BY <2>1, <2>3 DEF StepsTo
<1>11. ASSUME NEW n \in 1 .. N PROVE F[n] = F[n - 1] + s[n]
  <2>1. n - 1 \in 0 .. N
    OBVIOUS
  <2>2. F[n - 1] \in Int
    BY <1>10, <2>1
  <2> QED BY <1>2, <1>10, <2>2
<1> QED BY <1>1, <1>10, <1>11

\* A sum grows by what is appended.
LEMMA SumFacts ==
    ASSUME NEW s \in Seq(Int), NEW x \in Int
    PROVE  SumOf(s) \in Int /\ SumOf(<<>>) = 0 /\ SumOf(Append(s, x)) = SumOf(s) + x
<1>1. PICK N \in Nat : N = Len(s) /\ s \in [1 .. N -> Int]
  <2>1. Len(s) \in Nat /\ s \in [1 .. Len(s) -> Int]
    BY LenProperties
  <2> QED BY <2>1
<1>2. PICK t \in [1 .. N + 1 -> Int] : t = Append(s, x)
  <2>1. Append(s, x) \in Seq(Int) /\ Len(Append(s, x)) = N + 1
    BY <1>1, AppendProperties
  <2>2. Append(s, x) \in [1 .. Len(Append(s, x)) -> Int]
    BY <2>1, LenProperties
  <2> QED BY <2>1, <2>2
<1>3. t[N + 1] = x /\ \A n \in 1 .. N : t[n] = s[n]
  BY <1>1, <1>2
<1>4. PICK F \in [0 .. N -> Int] : F[0] = 0 /\ (\A n \in 1 .. N : F[n] = F[n - 1] + s[n]) /\ SumOf(s) = F[N]
  BY <1>1, SumSteps
<1>5. PICK G \in [0 .. N + 1 -> Int] :
        G[0] = 0 /\ (\A n \in 1 .. N + 1 : G[n] = G[n - 1] + t[n]) /\ SumOf(t) = G[N + 1]
  <2>1. PICK M \in Nat : M = N + 1
    OBVIOUS
  <2>2. t \in [1 .. M -> Int]
    BY <2>1
  <2>3. \E G \in [0 .. M -> Int] : G[0] = 0 /\ (\A n \in 1 .. M : G[n] = G[n - 1] + t[n]) /\ SumOf(t) = G[M]
    BY <2>2, SumSteps
  <2> QED BY <2>1, <2>3
<1>6. ASSUME NEW n \in 0 .. N PROVE F[n] = G[n]
  <2> DEFINE Bad == {m \in 0 .. N : F[m] # G[m]}
  <2>1. CASE Bad # {}
    <3>1. PICK m \in Bad : \A k \in Bad : m <= k
      <4>1. Bad \in SUBSET Nat
        OBVIOUS
      <4> HIDE DEF Bad
      <4> QED BY <2>1, <4>1, LeastExists
    <3>2. m # 0 /\ m \in 0 .. N
      BY <1>4, <1>5
    <3>3. m \in 1 .. N /\ m \in 1 .. N + 1 /\ m - 1 \in 0 .. N /\ ~ m <= m - 1
      BY <3>2
    <3>4. F[m - 1] = G[m - 1]
      BY <3>1, <3>3
    <3> QED BY <1>3, <1>4, <1>5, <3>3, <3>4
  <2> QED BY <2>1
<1>7. SumOf(Append(s, x)) = SumOf(s) + x
  <2>1. N + 1 \in 1 .. N + 1 /\ N \in 0 .. N /\ (N + 1) - 1 = N
    OBVIOUS
  <2>2. G[N + 1] = G[N] + t[N + 1]
    BY <1>5, <2>1
  <2> QED BY <1>2, <1>3, <1>4, <1>5, <1>6, <2>1, <2>2
<1>8. SumOf(s) \in Int
  BY <1>4
<1>9. SumOf(<<>>) = 0
  <2> DEFINE e == <<>>
  <2>1. e \in [1 .. 0 -> Int]
    OBVIOUS
  <2>2. 0 \in Nat
    OBVIOUS
  <2>3. \E E \in [0 .. 0 -> Int] : E[0] = 0 /\ (\A n \in 1 .. 0 : E[n] = E[n - 1] + e[n]) /\ SumOf(e) = E[0]
    <3> HIDE DEF e
    <3> QED BY <2>1, <2>2, SumSteps
  <2> QED BY <2>3
<1> QED BY <1>7, <1>8, <1>9

-----------------------------------------------------------------------------
(* Answering: the parts *)

Routes == {"history_only", "document_overview", "out_of_scope_reject", "rag", "none"}
QuestionTypes == {"overview", "follow_up", "out_of_scope", "single_fact", "summary", "analysis", "rag", "none"}
Hits == Nat \X Nat \X Nat
Plans == [route : Routes, type : QuestionTypes, need : Nat, reuse : Seq(Hits), fact : BOOLEAN]
Turns == [pc : {"idle", "history", "overview", "reject", "retrieve", "select", "generate"},
          plan : Plans, stream : BOOLEAN, hits : Seq(Hits), live : SUBSET Hits]
SavedAnswers == [route : Routes, type : QuestionTypes, need : Nat, live : SUBSET Hits,
                 abstained : BOOLEAN, says : {"claim", "insufficient"}, cites : Seq(Hits)]

AnsweringTypes ==
    /\ abstainEnabled \in BOOLEAN /\ hasSummary \in BOOLEAN
    /\ generation \in 1 .. MaxGenerations /\ indexed \in {generation - 1, generation}
    /\ answers \in Seq(SavedAnswers) /\ turn \in Turns

\* The chunks of a generation of the book are hits.
LEMMA ChunkTypes ==
    ASSUME NEW g \in Nat
    PROVE  ChunksIn(g) \in SUBSET Hits /\ Profile \in Hits
BY AnsweringAssumption DEF ChunksIn, Chunk, Profile, Hits

\* What a history cites was cited by an answer before.
LEMMA SourcesFacts ==
    ASSUME AnsweringTypes
    PROVE  /\ latestAssistantSources \in Seq(Hits)
           /\ latestAssistantSources # <<>> => \E j \in 1 .. Len(answers) : latestAssistantSources = answers[j].cites
<1> DEFINE n == Len(answers)
           m == IF n > HistoryLimit THEN n - HistoryLimit + 1 ELSE 1
<1>1. answers \in Seq(SavedAnswers) /\ n \in Nat /\ HistoryLimit \in Nat
  BY AnsweringAssumption, LenProperties DEF AnsweringTypes
<1>2. m \in Int /\ 1 <= m
  BY <1>1
<1>3. \A i \in m .. n : answers[i] \in SavedAnswers
  BY <1>1, <1>2, ElementOfSeq
<1>4. Recent = SubSeq(answers, m, n)
  BY DEF Recent
<1> HIDE DEF m, n
<1>5. /\ Recent \in Seq(SavedAnswers) /\ Len(Recent) = (IF m <= n THEN n - m + 1 ELSE 0)
      /\ \A i \in 1 .. n - m + 1 : Recent[i] = answers[m + i - 1]
  <2>1. n \in Int
    BY <1>1
  <2> QED BY <1>2, <1>3, <1>4, <2>1, SubSeqProperties
<1>6. DOMAIN Recent = 1 .. Len(Recent) /\ Len(Recent) \in Nat
  BY <1>5, LenProperties
<1>7. CASE Cited = {}
  BY <1>7, EmptySeq DEF latestAssistantSources
<1>8. CASE Cited # {}
  <2>1. Cited \in SUBSET (0 .. Len(Recent))
    BY <1>6 DEF Cited
  <2>2. Max(Cited) \in Cited
    BY <1>6, <1>8, <2>1, GreatestIs
  <2>3. PICK i \in DOMAIN Recent : i = Max(Cited)
    BY <2>2 DEF Cited
  <2>4. latestAssistantSources = Recent[i].cites
    BY <1>8, <2>3 DEF latestAssistantSources
  <2>5. i \in 1 .. n - m + 1 /\ m + i - 1 \in 1 .. n
    BY <1>1, <1>2, <1>5, <1>6
  <2>6. Recent[i] = answers[m + i - 1] /\ Recent[i] \in SavedAnswers
    BY <1>5, <1>6, <2>5, ElementOfSeq
  <2>7. Recent[i].cites \in Seq(Hits)
    BY <2>6 DEF SavedAnswers
  <2> QED BY <2>4, <2>5, <2>6, <2>7 DEF n
<1> QED BY <1>7, <1>8

\* The first elements of a sequence.
LEMMA LeadingFacts ==
    ASSUME NEW T, NEW s \in Seq(T), NEW n \in Nat
    PROVE  /\ Leading(s, n) \in Seq(T) /\ Len(Leading(s, n)) <= n /\ Len(Leading(s, n)) <= Len(s)
           /\ \A i \in DOMAIN Leading(s, n) : i \in DOMAIN s /\ Leading(s, n)[i] = s[i]
           /\ Len(s) > 0 /\ n > 0 => Len(Leading(s, n)) > 0
<1> DEFINE m == IF Len(s) < n THEN Len(s) ELSE n
           t == SubSeq(s, 1, m)
<1>1. Leading(s, n) = t
  BY DEF Leading
<1>2. Len(s) \in Nat /\ DOMAIN s = 1 .. Len(s) /\ \A i \in 1 .. Len(s) : s[i] \in T
  BY LenProperties, ElementOfSeq
<1>3. m \in Nat /\ m <= n /\ m <= Len(s) /\ (Len(s) > 0 /\ n > 0 => m > 0)
  BY <1>2
<1> HIDE DEF m
<1>4. /\ t \in Seq(T) /\ Len(t) = (IF 1 <= m THEN m - 1 + 1 ELSE 0)
      /\ \A i \in 1 .. m - 1 + 1 : t[i] = s[1 + i - 1]
  <2>1. 1 \in Int /\ m \in Int /\ \A i \in 1 .. m : s[i] \in T
    BY <1>2, <1>3
  <2> QED BY <2>1, SubSeqProperties
<1> HIDE DEF t
<1>5. Len(t) = m /\ DOMAIN t = 1 .. m
  BY <1>3, <1>4, LenProperties
<1>6. ASSUME NEW i \in 1 .. m PROVE i \in DOMAIN s /\ t[i] = s[i]
  BY <1>2, <1>3, <1>4
<1> QED BY <1>1, <1>2, <1>3, <1>4, <1>5, <1>6

\* What is selected was there, and has each key once.
LEMMA SelectedOnce ==
    ASSUME NEW T, NEW hits \in Seq(T), NEW s, s = selectUniqueEvidenceHits(hits)
    PROVE  /\ s \in Seq(T) /\ Len(s) <= SelectTopK
           /\ \A i, j \in DOMAIN s : EvidenceKey(s[i]) = EvidenceKey(s[j]) => i = j
<1> DEFINE I == {i \in DOMAIN hits : ~ \E j \in 1 .. i - 1 : EvidenceKey(hits[j]) = EvidenceKey(hits[i])}
           e == ElementsAt(hits, I)
           n == Cardinality(I)
<1>1. SelectTopK \in Nat /\ s = Leading(e, SelectTopK)
  BY AnsweringAssumption DEF selectUniqueEvidenceHits
<1>2. DOMAIN hits = 1 .. Len(hits) /\ Len(hits) \in Nat
  BY LenProperties
<1>3. I \in SUBSET DOMAIN hits
  OBVIOUS
<1>4. /\ n \in Nat /\ e \in Seq(T) /\ DOMAIN e = 1 .. n
      /\ \E q \in [1 .. n -> I] :
           /\ \A k \in 1 .. n : e[k] = hits[q[k]]
           /\ \A i, j \in 1 .. n : i < j => q[i] < q[j]
           /\ \A x \in I : \E k \in 1 .. n : q[k] = x
  <2>1. TakenInOrder(T, hits, I, e)
    <3> HIDE DEF I
    <3> QED BY <1>3, ElementsInOrder
  <2> HIDE DEF I, e
  <2> QED BY <2>1 DEF TakenInOrder
<1>5. PICK q \in [1 .. n -> I] :
        /\ \A k \in 1 .. n : e[k] = hits[q[k]]
        /\ \A i, j \in 1 .. n : i < j => q[i] < q[j]
  BY <1>4
<1> HIDE DEF n, e
<1>6. ASSUME NEW i \in 1 .. n, NEW j \in 1 .. n, i < j PROVE EvidenceKey(e[i]) # EvidenceKey(e[j])
  <2>1. q[i] \in I /\ q[j] \in I /\ q[i] < q[j] /\ e[i] = hits[q[i]] /\ e[j] = hits[q[j]]
    BY <1>5, <1>6
  <2>2. q[i] \in 1 .. q[j] - 1
    BY <1>2, <2>1
  <2> QED BY <2>1, <2>2
<1> HIDE DEF I
<1>7. /\ Leading(e, SelectTopK) \in Seq(T) /\ Len(Leading(e, SelectTopK)) <= SelectTopK
      /\ \A i \in DOMAIN Leading(e, SelectTopK) : i \in DOMAIN e /\ Leading(e, SelectTopK)[i] = e[i]
  BY <1>1, <1>4, LeadingFacts
<1>8. ASSUME NEW i \in DOMAIN s, NEW j \in DOMAIN s, EvidenceKey(s[i]) = EvidenceKey(s[j]) PROVE i = j
  <2>1. i \in 1 .. n /\ j \in 1 .. n /\ s[i] = e[i] /\ s[j] = e[j]
    BY <1>1, <1>4, <1>7
  <2>2. EvidenceKey(e[i]) = EvidenceKey(e[j])
    BY <1>8, <2>1
  <2>3. ~ i < j /\ ~ j < i
    BY <1>6, <2>1, <2>2
  <2> QED BY <1>4, <2>1, <2>3
<1> QED BY <1>1, <1>7, <1>8

\* As many blocks are cited as there are citations, where each has a block of its own.
LEMMA CitedBlocksCounted ==
    ASSUME NEW T, NEW a, a.cites \in Seq(T), DistinctBlocks(a.cites)
    PROVE  Cardinality(CitedBlocks(a)) = Len(a.cites)
<1> DEFINE n == Len(a.cites)
           f == [i \in 1 .. n |-> a.cites[i][2]]
<1>1. n \in Nat /\ DOMAIN a.cites = 1 .. n
  BY LenProperties
<1>2. f \in Bijection(1 .. n, CitedBlocks(a))
  <2>1. f \in [1 .. n -> CitedBlocks(a)] /\ \A b \in CitedBlocks(a) : \E i \in 1 .. n : f[i] = b
    BY <1>1 DEF CitedBlocks
  <2>2. \A i, j \in 1 .. n : f[i] = f[j] => i = j
    BY <1>1 DEF DistinctBlocks
  <2> QED BY <2>1, <2>2 DEF Bijection, Injection, Surjection, IsInjective
<1> HIDE DEF n, f
<1>3. IsFiniteSet(1 .. n) /\ Cardinality(1 .. n) = n
  <2>1. IsFiniteSet(1 .. n) /\ Cardinality(1 .. n) = IF 1 > n THEN 0 ELSE n - 1 + 1
    BY <1>1, FS_Interval
  <2> QED BY <1>1, <2>1
<1>4. ExistsBijection(1 .. n, CitedBlocks(a))
  BY <1>2 DEF ExistsBijection
<1> QED BY <1>3, <1>4, FS_Bijection DEF n

\* An overview cites chunks of the book as it is.
LEMMA OverviewCites ==
    ASSUME NEW g \in Nat
    PROVE  selectOverviewChunks(g) \in Seq(ChunksIn(g))
<1> DEFINE First(b) == CHOOSE p \in BookParts : p[1] = b /\ \A r \in BookParts : r[1] = b => p[2] <= r[2]
           blocks == Ascending(BlockNumbers)
           n == IF Len(blocks) < 4 THEN Len(blocks) ELSE 4
<1>1. selectOverviewChunks(g) = [i \in 1 .. n |-> Chunk(g, First(blocks[i]))]
  BY DEF selectOverviewChunks
<1>2. IsFiniteSet(BlockNumbers) /\ BlockNumbers \in SUBSET Int
  <2> DEFINE f == [p \in BookParts |-> p[1]]
  <2>1. f \in Surjection(BookParts, BlockNumbers)
    BY DEF Surjection, BlockNumbers
  <2> HIDE DEF f
  <2>2. IsFiniteSet(BlockNumbers)
    BY <2>1, AnsweringAssumption, FS_Surjection
  <2>3. BlockNumbers \in SUBSET Int
    BY AnsweringAssumption DEF BlockNumbers
  <2> QED BY <2>2, <2>3
<1>3. Cardinality(BlockNumbers) \in Nat /\ blocks \in [1 .. Cardinality(BlockNumbers) -> BlockNumbers]
  BY <1>2, NumbersInOrder
<1>4. ASSUME NEW b \in BlockNumbers PROVE First(b) \in BookParts
  <2> DEFINE P == {p \in BookParts : p[1] = b}
             N == {p[2] : p \in P}
  <2>1. N \in SUBSET Nat /\ N # {}
    BY AnsweringAssumption DEF BlockNumbers
  <2>2. PICK k \in N : \A m \in N : k <= m
    BY <2>1, LeastExists
  <2>3. PICK p \in BookParts : p[1] = b /\ p[2] = k
    BY <2>2
  <2>4. \A r \in BookParts : r[1] = b => p[2] <= r[2]
    BY <2>2, <2>3
  <2>5. \E z \in BookParts : z[1] = b /\ \A r \in BookParts : r[1] = b => z[2] <= r[2]
    BY <2>3, <2>4
  <2> QED BY <2>5, Zenon
<1> HIDE DEF First, blocks
<1>5. Len(blocks) = Cardinality(BlockNumbers)
  BY <1>3
<1>6. n \in Nat /\ \A i \in 1 .. n : blocks[i] \in BlockNumbers
  BY <1>3, <1>5
<1> HIDE DEF n
<1>7. \A i \in 1 .. n : Chunk(g, First(blocks[i])) \in ChunksIn(g)
  BY <1>4, <1>6 DEF ChunksIn
<1> QED BY <1>1, <1>6, <1>7

-----------------------------------------------------------------------------
(* Answering: the inductive invariant *)

\* The turn has a plan that asks for evidence, follows the route of its plan, and holds hits
\* of the book as it was since the turn began; those it goes to the model with are of
\* different blocks.
TurnGrounded ==
    /\ turn.pc # "idle" => ChunksIn(generation) \subseteq turn.live /\ turn.plan.need >= 1
    /\ turn.pc = "history" => turn.plan.route = "history_only"
    /\ turn.pc \notin {"idle", "history"} => turn.plan.route # "history_only"
    /\ turn.pc = "overview" => turn.plan.route # "rag"
    /\ turn.hits \in Seq(turn.live \cup {Profile}) /\ Len(turn.hits) <= SelectTopK
    /\ turn.pc = "generate" => DistinctBlocks(turn.hits)

AnsweringInv == AnsweringTypes /\ TurnGrounded /\ AnswersAreGrounded

\* A plan asks for evidence, and takes one of the routes.
LEMMA PlanFacts ==
    ASSUME AnsweringTypes, NEW q, NEW plan \in buildQueryPlan(q)
    PROVE  plan \in Plans /\ plan.need >= 1
<1>1. PICK s : plan = [route |-> decideQueryRoute(q),
                       type  |-> classifyQuestionType(decideQueryRoute(q), q, s),
                       need  |-> RequiredFor(decideQueryRoute(q), classifyQuestionType(decideQueryRoute(q), q, s),
                                             requiredEvidenceCount(q, s)),
                       reuse |-> latestAssistantSources, fact |-> factKeysForQuestion(q, s)]
  BY DEF buildQueryPlan
<1>2. decideQueryRoute(q) \in Routes
  BY DEF decideQueryRoute, Routes
<1>3. \A r : classifyQuestionType(r, q, s) \in QuestionTypes
  BY DEF classifyQuestionType, QuestionTypes
<1>4. \A r, t : RequiredFor(r, t, requiredEvidenceCount(q, s)) \in Nat \ {0}
  <2>1. requiredEvidenceCount(q, s) \in Nat \ {0} /\ MinEvidence \in Nat \ {0}
    BY AnsweringAssumption DEF requiredEvidenceCount
  <2> QED BY <2>1 DEF RequiredFor, AtLeast
<1>5. factKeysForQuestion(q, s) \in BOOLEAN
  BY DEF factKeysForQuestion, Has
<1>6. latestAssistantSources \in Seq(Hits)
  BY SourcesFacts
<1> QED BY <1>1, <1>2, <1>3, <1>4, <1>5, <1>6 DEF Plans

\* An answer that is saved is a message more, and ends the turn.
LEMMA SaveStep ==
    ASSUME AnsweringInv, turn.pc # "idle", NEW abstained \in BOOLEAN, NEW says \in {"claim", "insufficient"},
           NEW cites \in Seq(Hits), Save(abstained, says, cites),
           abstainEnabled /\ turn.plan.route = "rag" /\ ~ abstained /\ says = "claim"
             => DistinctBlocks(cites) /\ Len(cites) >= turn.plan.need,
           IF turn.plan.route = "history_only"
           THEN cites # <<>> => \E j \in 1 .. Len(answers) : cites = answers[j].cites
           ELSE cites \in Seq(turn.live \cup {Profile})
    PROVE  AnsweringInv'
<1> DEFINE a == [route |-> turn.plan.route, type |-> turn.plan.type, need |-> turn.plan.need,
                 live |-> turn.live, abstained |-> abstained, says |-> says, cites |-> cites]
           n == Len(answers) + 1
<1>1. /\ answers' = Append(answers, a) /\ turn' = NoTurn
      /\ UNCHANGED <<abstainEnabled, hasSummary, generation, indexed>>
  BY DEF Save
<1>2. answers \in Seq(SavedAnswers) /\ turn \in Turns /\ turn.plan \in Plans
  BY DEF AnsweringInv, AnsweringTypes, Turns
<1>3. a \in SavedAnswers
  BY <1>2 DEF SavedAnswers, Turns, Plans
<1>4. /\ a.route = turn.plan.route /\ a.need = turn.plan.need /\ a.live = turn.live
      /\ a.abstained = abstained /\ a.says = says /\ a.cites = cites
  OBVIOUS
<1> HIDE DEF a
<1>5. Len(answers) \in Nat /\ DOMAIN answers = 1 .. Len(answers)
  BY <1>2, LenProperties
<1>6. /\ answers' \in Seq(SavedAnswers) /\ DOMAIN answers' = 1 .. n /\ answers'[n] = a
      /\ \A i \in 1 .. Len(answers) : answers'[i] = answers[i]
      /\ \A i \in 1 .. n : i \in 1 .. Len(answers) \/ i = n
  BY <1>1, <1>2, <1>3, <1>5
<1>7. NoTurn \in Turns
  BY EmptySeq DEF NoTurn, NoPlan, Turns, Plans, Routes, QuestionTypes
<1>8. AnsweringTypes'
  BY <1>1, <1>6, <1>7 DEF AnsweringInv, AnsweringTypes
<1>9. TurnGrounded'
  <2>1. NoTurn.pc = "idle" /\ NoTurn.hits = <<>>
    BY DEF NoTurn
  <2>2. Len(<<>>) = 0 /\ SelectTopK \in Nat
    BY AnsweringAssumption
  <2>3. \A T : <<>> \in Seq(T)
    BY EmptySeq
  <2> QED BY <1>1, <2>1, <2>2, <2>3 DEF TurnGrounded
<1>10. ClaimsHaveEvidence'
  <2>1. ASSUME abstainEnabled, NEW i \in 1 .. n,
               answers'[i].route = "rag", ~ answers'[i].abstained, answers'[i].says = "claim"
        PROVE  Cardinality(CitedBlocks(answers'[i])) >= answers'[i].need /\ answers'[i].need >= 1
    <3>1. CASE i \in 1 .. Len(answers)
      BY <1>5, <1>6, <2>1, <3>1 DEF AnsweringInv, AnswersAreGrounded, ClaimsHaveEvidence
    <3>2. CASE i = n
      <4>1. DistinctBlocks(cites) /\ Len(cites) >= turn.plan.need
        BY <1>4, <1>6, <2>1, <3>2
      <4>2. Cardinality(CitedBlocks(a)) = Len(cites)
        BY <1>4, <4>1, CitedBlocksCounted
      <4>3. turn.plan.need >= 1
        BY DEF AnsweringInv, TurnGrounded
      <4> QED BY <1>4, <1>6, <3>2, <4>1, <4>2, <4>3
    <3> QED BY <1>6, <3>1, <3>2
  <2> QED BY <1>1, <1>6, <2>1 DEF ClaimsHaveEvidence, CitedBlocks
<1>11. CitesAreReal'
  <2>1. ASSUME NEW i \in 1 .. n
        PROVE  IF answers'[i].route = "history_only"
               THEN answers'[i].cites # <<>> => \E j \in 1 .. i - 1 : answers'[i].cites = answers'[j].cites
               ELSE \A k \in DOMAIN answers'[i].cites : answers'[i].cites[k] \in answers'[i].live \cup {Profile}
    <3>1. CASE i \in 1 .. Len(answers)
      <4>1. IF answers[i].route = "history_only"
            THEN answers[i].cites # <<>> => \E j \in 1 .. i - 1 : answers[i].cites = answers[j].cites
            ELSE \A k \in DOMAIN answers[i].cites : answers[i].cites[k] \in answers[i].live \cup {Profile}
        BY <1>5, <3>1 DEF AnsweringInv, AnswersAreGrounded, CitesAreReal
      <4>2. \A j \in 1 .. i - 1 : answers'[j] = answers[j]
        BY <1>5, <1>6, <3>1
      <4>3. answers'[i] = answers[i]
        BY <1>6, <3>1
      <4> QED BY <4>1, <4>2, <4>3
    <3>2. CASE i = n
      <4>1. answers'[i] = a /\ i - 1 = Len(answers)
        BY <1>5, <1>6, <3>2
      <4>2. CASE turn.plan.route = "history_only"
        BY <1>4, <1>6, <4>1, <4>2
      <4>3. CASE turn.plan.route # "history_only"
        <5>1. \A k \in DOMAIN cites : cites[k] \in turn.live \cup {Profile}
          BY <4>3, LenProperties, ElementOfSeq
        <5> QED BY <1>4, <4>1, <4>3, <5>1
      <4> QED BY <4>2, <4>3
    <3> QED BY <1>6, <3>1, <3>2
  <2> QED BY <1>6, <2>1 DEF CitesAreReal
<1> QED BY <1>8, <1>9, <1>10, <1>11 DEF AnsweringInv, AnswersAreGrounded

\* A conversation begins without answers.
LEMMA AnsweringInitially == AnsweringInit => AnsweringInv
<1> SUFFICES ASSUME AnsweringInit PROVE AnsweringInv
  OBVIOUS
<1>1. NoTurn \in Turns /\ NoTurn.pc = "idle" /\ NoTurn.hits = <<>>
  BY EmptySeq DEF NoTurn, NoPlan, Turns, Plans, Routes, QuestionTypes
<1>2. Len(<<>>) = 0 /\ SelectTopK \in Nat /\ MaxGenerations \in Nat \ {0} /\ \A T : <<>> \in Seq(T)
  BY AnsweringAssumption, EmptySeq
<1>3. AnsweringTypes
  BY <1>1, <1>2 DEF AnsweringInit, AnsweringTypes
<1>4. TurnGrounded
  BY <1>1, <1>2 DEF AnsweringInit, TurnGrounded
<1>5. AnswersAreGrounded
  BY DEF AnsweringInit, AnswersAreGrounded, ClaimsHaveEvidence, CitesAreReal
<1> QED BY <1>3, <1>4, <1>5 DEF AnsweringInv

\* A turn that goes on, with other hits.
LEMMA TurnGoesOn ==
    ASSUME AnsweringInv, UNCHANGED <<abstainEnabled, hasSummary, generation, indexed, answers>>,
           turn' \in Turns, TurnGrounded'
    PROVE  AnsweringInv'
BY ZenonT(30) DEF AnsweringInv, AnsweringTypes, AnswersAreGrounded, ClaimsHaveEvidence, CitesAreReal, CitedBlocks

\* A question that is routed and planned sees every chunk of the book there is then
\* (app.go askQuestion, query_plan.go buildQueryPlan).
LEMMA AskStep == AnsweringInv /\ askQuestion => AnsweringInv'
<1> SUFFICES ASSUME AnsweringInv, askQuestion PROVE AnsweringInv'
  OBVIOUS
<1>1. PICK q \in Questions, stream \in BOOLEAN :
        /\ turn = NoTurn
        /\ \E plan \in buildQueryPlan(q) :
            turn' = [NoTurn EXCEPT !.plan = plan, !.stream = stream, !.live = ChunksIn(generation),
                       !.pc = CASE plan.route = "history_only"                           -> "history"
                                [] plan.route = "document_overview"                      -> "overview"
                                [] plan.route = "out_of_scope_reject" /\ abstainEnabled  -> "reject"
                                [] OTHER                                                 -> "retrieve"]
  BY ZenonT(30) DEF askQuestion
<1>2. UNCHANGED <<abstainEnabled, hasSummary, generation, indexed, answers>>
  BY DEF askQuestion
<1>3. PICK plan \in buildQueryPlan(q) :
            turn' = [NoTurn EXCEPT !.plan = plan, !.stream = stream, !.live = ChunksIn(generation),
                       !.pc = CASE plan.route = "history_only"                           -> "history"
                                [] plan.route = "document_overview"                      -> "overview"
                                [] plan.route = "out_of_scope_reject" /\ abstainEnabled  -> "reject"
                                [] OTHER                                                 -> "retrieve"]
  BY <1>1
<1>4. plan \in Plans /\ plan.need >= 1
  BY PlanFacts DEF AnsweringInv
<1>5. /\ turn'.plan = plan /\ turn'.stream = stream /\ turn'.live = ChunksIn(generation)
      /\ turn'.hits = <<>>
      /\ turn'.pc = CASE plan.route = "history_only"                           -> "history"
                      [] plan.route = "document_overview"                      -> "overview"
                      [] plan.route = "out_of_scope_reject" /\ abstainEnabled  -> "reject"
                      [] OTHER                                                 -> "retrieve"
      /\ turn' = [pc |-> turn'.pc, plan |-> turn'.plan, stream |-> turn'.stream, hits |-> turn'.hits, live |-> turn'.live]
  BY <1>3 DEF NoTurn
<1>6. /\ turn'.pc \in {"history", "overview", "reject", "retrieve"}
      /\ turn'.pc = "history" <=> plan.route = "history_only"
      /\ turn'.pc = "overview" => plan.route = "document_overview"
  BY <1>5
<1>7. ChunksIn(generation) \in SUBSET Hits
  <2>1. generation \in Nat
    BY AnsweringAssumption DEF AnsweringInv, AnsweringTypes
  <2> QED BY <2>1, ChunkTypes
<1>8. turn' \in Turns
  BY <1>4, <1>5, <1>6, <1>7, EmptySeq DEF Turns
<1>9. TurnGrounded'
  <2>1. generation' = generation
    BY <1>2
  <2>2. Len(<<>>) = 0 /\ SelectTopK \in Nat /\ \A T : <<>> \in Seq(T)
    BY AnsweringAssumption, EmptySeq
  <2>3. ChunksIn(generation') \subseteq turn'.live
    BY <1>5, <2>1
  <2> QED BY <1>4, <1>5, <1>6, <2>2, <2>3 DEF TurnGrounded
<1> QED BY <1>2, <1>8, <1>9, TurnGoesOn

\* Retrieval returns chunks of different blocks, which the book has (app.go retrieveEvidenceForPlan).
LEMMA RetrieveStep == AnsweringInv /\ retrieveEvidenceForPlan => AnsweringInv'
<1> SUFFICES ASSUME AnsweringInv, retrieveEvidenceForPlan PROVE AnsweringInv'
  OBVIOUS
<1> DEFINE C == ChunksIn(indexed) \cap ChunksIn(generation)
<1>1. PICK hits \in HitsFrom(C) :
        /\ turn.pc = "retrieve"
        /\ turn' = [turn EXCEPT !.pc = "select", !.hits = Leading(hits, SelectTopK)]
        /\ UNCHANGED <<abstainEnabled, hasSummary, generation, indexed, answers>>
  BY DEF retrieveEvidenceForPlan
<1>2. hits \in Seq(C)
  <2>1. PICK n \in 0 .. Cardinality(BlockNumbers) : hits \in [1 .. n -> C]
    BY <1>1 DEF HitsFrom
  <2>2. IsFiniteSet(BlockNumbers)
    <3> DEFINE f == [p \in BookParts |-> p[1]]
    <3>1. f \in Surjection(BookParts, BlockNumbers)
      BY DEF Surjection, BlockNumbers
    <3> HIDE DEF f
    <3> QED BY <3>1, AnsweringAssumption, FS_Surjection
  <2>3. n \in Nat
    BY <2>1, <2>2, FS_CardinalityType
  <2> HIDE DEF C
  <2> QED BY <2>1, <2>3
<1>3. /\ turn \in Turns /\ ChunksIn(generation) \subseteq turn.live /\ turn.plan.need >= 1
      /\ turn.plan.route # "history_only"
  BY <1>1 DEF AnsweringInv, AnsweringTypes, TurnGrounded
<1>4. /\ Leading(hits, SelectTopK) \in Seq(C) /\ Len(Leading(hits, SelectTopK)) <= SelectTopK
  <2> HIDE DEF C
  <2> QED BY <1>2, AnsweringAssumption, LeadingFacts
<1>5. Leading(hits, SelectTopK) \in Seq(turn.live \cup {Profile})
  <2>1. C \subseteq turn.live \cup {Profile}
    BY <1>3
  <2> HIDE DEF C
  <2> QED BY <1>4, <2>1, SeqMonotonic
<1>6. /\ turn'.pc = "select" /\ turn'.hits = Leading(hits, SelectTopK) /\ turn'.live = turn.live
      /\ turn'.plan = turn.plan
  BY <1>1, <1>3 DEF Turns
<1>7. Leading(hits, SelectTopK) \in Seq(Hits)
  <2>1. turn.live \cup {Profile} \subseteq Hits
    BY <1>3 DEF Turns, Profile, Hits
  <2> QED BY <1>5, <2>1, SeqMonotonic
<1>8. turn' \in Turns
  BY <1>1, <1>3, <1>7 DEF Turns
<1>9. TurnGrounded'
  <2>1. ChunksIn(generation') \subseteq turn'.live
    BY <1>1, <1>3, <1>6
  <2> QED BY <1>3, <1>4, <1>5, <1>6, <2>1 DEF TurnGrounded
<1> QED BY <1>1, <1>8, <1>9, TurnGoesOn

\* The selection leaves each block once, whatever the fact, the summary, retrieval and the
\* last citations give (expert_pipeline.go selectUniqueEvidenceHits).
LEMMA SelectStep == AnsweringInv /\ selectEvidence => AnsweringInv'
<1> SUFFICES ASSUME AnsweringInv, selectEvidence PROVE AnsweringInv'
  OBVIOUS
<1> DEFINE reuse  == turn.plan.reuse
           reused == GetChunksByIDs(reuse)
           T == turn.live \cup {Profile}
<1>1. PICK facts \in FactHits(turn.plan) :
        /\ turn.pc = "select"
        /\ turn' = [turn EXCEPT !.pc = "generate",
              !.hits = selectUniqueEvidenceHits(facts \o ProfileHit(turn.plan) \o turn.hits \o reused)]
        /\ UNCHANGED <<abstainEnabled, hasSummary, generation, indexed, answers>>
  BY DEF selectEvidence
<1> DEFINE s == selectUniqueEvidenceHits(facts \o ProfileHit(turn.plan) \o turn.hits \o reused)
<1>2. /\ turn \in Turns /\ ChunksIn(generation) \subseteq turn.live /\ turn.plan.need >= 1
      /\ turn.plan.route # "history_only" /\ turn.hits \in Seq(T)
  BY <1>1 DEF AnsweringInv, AnsweringTypes, TurnGrounded
<1>3. facts \in Seq(T) /\ ProfileHit(turn.plan) \in Seq(T)
  <2>1. \A x \in T : <<x>> \in Seq(T)
    OBVIOUS
  <2>2. <<>> \in Seq(T)
    BY EmptySeq
  <2>3. ChunksIn(generation) \subseteq T /\ Profile \in T
    BY <1>2
  <2> HIDE DEF T
  <2>4. facts \in Seq(T)
    <3>1. PICK n \in Nat : facts \in [1 .. n -> ChunksIn(generation)]
      BY AnsweringAssumption DEF FactHits
    <3> QED BY <2>3, <3>1
  <2>5. ProfileHit(turn.plan) \in Seq(T)
    BY <2>1, <2>2, <2>3 DEF ProfileHit
  <2> QED BY <2>4, <2>5
<1>4. reused \in Seq(T)
  <2> DEFINE I == {i \in DOMAIN reuse : reuse[i] \in ChunksIn(generation)}
             n == Cardinality(I)
  <2>1. reuse \in Seq(Hits)
    BY <1>2 DEF Turns, Plans
  <2>2. I \in SUBSET DOMAIN reuse /\ \A i \in I : reuse[i] \in T
    BY <1>2
  <2> HIDE DEF I
  <2>3. TakenInOrder(Hits, reuse, I, reused)
    <3>1. reused = ElementsAt(reuse, I)
      BY DEF I, GetChunksByIDs
    <3> HIDE DEF reused, reuse
    <3> QED BY <2>1, <2>2, <3>1, ElementsInOrder
  <2> HIDE DEF T, n, reused
  <2>4. PICK q \in [1 .. n -> I] : \A k \in 1 .. n : reused[k] = reuse[q[k]]
    BY <2>3 DEF TakenInOrder, n
  <2>5. \A k \in 1 .. n : reused[k] \in T
    BY <2>2, <2>4
  <2>6. n \in Nat /\ reused \in Seq(Hits) /\ Len(reused) = n
    BY <2>3 DEF TakenInOrder, n
  <2> QED BY <2>5, <2>6
<1> HIDE DEF reused, T
<1>5. (facts \o ProfileHit(turn.plan) \o turn.hits \o reused) \in Seq(T)
  <2>1. facts \o ProfileHit(turn.plan) \in Seq(T)
    BY <1>3, ConcatProperties
  <2>2. (facts \o ProfileHit(turn.plan)) \o turn.hits \in Seq(T)
    BY <1>2, <2>1, ConcatProperties
  <2> QED BY <1>4, <2>2, ConcatProperties
<1>6. /\ s \in Seq(T) /\ Len(s) <= SelectTopK
      /\ \A i, j \in DOMAIN s : EvidenceKey(s[i]) = EvidenceKey(s[j]) => i = j
  <2>1. PICK all \in Seq(T) : all = facts \o ProfileHit(turn.plan) \o turn.hits \o reused
    BY <1>5
  <2>2. s = selectUniqueEvidenceHits(all)
    BY <2>1
  <2> HIDE DEF s
  <2> QED BY <2>2, SelectedOnce
<1>7. DistinctBlocks(s)
  BY <1>6 DEF DistinctBlocks, EvidenceKey
<1> HIDE DEF s
<1>8. turn' = [turn EXCEPT !.pc = "generate", !.hits = s]
  BY <1>1 DEF s
<1>9. /\ turn'.pc = "generate" /\ turn'.hits = s /\ turn'.live = turn.live /\ turn'.plan = turn.plan
  BY <1>2, <1>8 DEF Turns
<1>10. s \in Seq(Hits)
  <2>1. T \subseteq Hits
    BY <1>2 DEF Turns, Profile, Hits, T
  <2> QED BY <1>6, <2>1, SeqMonotonic
<1>11. turn' \in Turns
  BY <1>2, <1>8, <1>10 DEF Turns
<1>12. TurnGrounded'
  <2>1. ChunksIn(generation') \subseteq turn'.live
    BY <1>1, <1>2, <1>9
  <2>2. s \in Seq(turn'.live \cup {Profile})
    BY <1>6, <1>9 DEF T
  <2> QED BY <1>2, <1>6, <1>7, <1>9, <2>1, <2>2 DEF TurnGrounded
<1> QED BY <1>1, <1>11, <1>12, TurnGoesOn

\* The answers.
LEMMA AnswerStep ==
    AnsweringInv /\ (RejectOutOfScope \/ answerFromHistoryWithChunk \/ answerDocumentOverview
                     \/ AbstainEarly \/ generateAnswerText)
    => AnsweringInv'
<1>0. /\ TRUE \in BOOLEAN /\ FALSE \in BOOLEAN /\ \A T : <<>> \in Seq(T)
      /\ "claim" \in {"claim", "insufficient"} /\ "insufficient" \in {"claim", "insufficient"}
  BY EmptySeq
<1>1. ASSUME AnsweringInv, RejectOutOfScope PROVE AnsweringInv'
  <2>1. turn.pc = "reject" /\ Save(TRUE, "insufficient", <<>>)
    BY <1>1 DEF RejectOutOfScope
  <2> QED BY <1>0, <1>1, <2>1, SaveStep
<1>2. ASSUME AnsweringInv, answerFromHistoryWithChunk PROVE AnsweringInv'
  <2>1. PICK out \in Outcomes :
        /\ turn.pc = "history"
        /\ IF out = "empty" \/ (abstainEnabled /\ out \in {"insufficient", "error"})
           THEN Save(TRUE, "insufficient", <<>>)
           ELSE Save(FALSE, IF out = "claim" THEN "claim" ELSE "insufficient", latestAssistantSources)
    BY <1>2 DEF answerFromHistoryWithChunk
  <2>2. turn.plan.route = "history_only"
    BY <1>2, <2>1 DEF AnsweringInv, TurnGrounded
  <2>3. /\ latestAssistantSources \in Seq(Hits)
        /\ latestAssistantSources # <<>> => \E j \in 1 .. Len(answers) : latestAssistantSources = answers[j].cites
    BY <1>2, SourcesFacts DEF AnsweringInv
  <2> DEFINE says == IF out = "claim" THEN "claim" ELSE "insufficient"
  <2>4. says \in {"claim", "insufficient"}
    OBVIOUS
  <2> HIDE DEF says
  <2>5. CASE Save(TRUE, "insufficient", <<>>)
    BY <1>0, <1>2, <2>1, <2>2, <2>5, SaveStep
  <2>6. CASE Save(FALSE, says, latestAssistantSources)
    BY <1>0, <1>2, <2>1, <2>2, <2>3, <2>4, <2>6, SaveStep
  <2> QED BY <2>1, <2>5, <2>6 DEF says
<1>3. ASSUME AnsweringInv, answerDocumentOverview PROVE AnsweringInv'
  <2>1. PICK citations \in buildOverviewSources : turn.pc = "overview" /\ Save(FALSE, "claim", citations)
    BY <1>3 DEF answerDocumentOverview
  <2>2. /\ generation \in Nat /\ ChunksIn(generation) \subseteq turn.live
        /\ turn.plan.route # "rag" /\ turn.plan.route # "history_only"
    BY <1>3, <2>1, AnsweringAssumption DEF AnsweringInv, AnsweringTypes, TurnGrounded
  <2>3. selectOverviewChunks(generation) \in Seq(ChunksIn(generation))
    BY <2>2, OverviewCites
  <2>4. citations \in Seq(ChunksIn(generation) \cup {Profile})
    <3>1. CASE citations \in {Leading(selectOverviewChunks(generation), n) : n \in 1 .. 4}
      <4>1. PICK n \in 1 .. 4 : citations = Leading(selectOverviewChunks(generation), n)
        BY <3>1
      <4>2. citations \in Seq(ChunksIn(generation))
        BY <2>3, <4>1, LeadingFacts
      <4> QED BY <4>2, SeqMonotonic
    <3>2. CASE citations = <<Profile>> \/ citations = <<>>
      <4>1. PICK T : T = ChunksIn(generation) \cup {Profile}
        OBVIOUS
      <4>2. \A x \in T : <<x>> \in Seq(T)
        OBVIOUS
      <4> QED BY <1>0, <3>2, <4>1, <4>2
    <3> QED BY <2>1, <3>1, <3>2 DEF buildOverviewSources
  <2>5. /\ ChunksIn(generation) \cup {Profile} \subseteq turn.live \cup {Profile}
        /\ ChunksIn(generation) \cup {Profile} \subseteq Hits
    <3>1. ChunksIn(generation) \in SUBSET Hits /\ Profile \in Hits
      BY <2>2, ChunkTypes
    <3> QED BY <2>2, <3>1
  <2>6. citations \in Seq(turn.live \cup {Profile}) /\ citations \in Seq(Hits)
    BY <2>4, <2>5, SeqMonotonic
  <2> QED BY <1>0, <1>3, <2>1, <2>2, <2>6, SaveStep
\* The answers of the model, on the hits.
<1>4. ASSUME AnsweringInv, turn.pc = "generate"
      PROVE  /\ turn.hits \in Seq(Hits) /\ turn.hits \in Seq(turn.live \cup {Profile})
             /\ DistinctBlocks(turn.hits) /\ turn.plan.route # "history_only"
  BY <1>4 DEF AnsweringInv, AnsweringTypes, Turns, TurnGrounded
<1>5. ASSUME AnsweringInv, AbstainEarly PROVE AnsweringInv'
  <2>1. turn.pc = "generate" /\ Save(TRUE, "insufficient", turn.hits)
    BY <1>5 DEF AbstainEarly
  <2> QED BY <1>0, <1>4, <1>5, <2>1, SaveStep
<1>6. ASSUME AnsweringInv, generateAnswerText PROVE AnsweringInv'
  <2>1. PICK out \in Outcomes :
        LET says == IF out = "claim" THEN "claim" ELSE "insufficient"
        IN  /\ turn.pc = "generate" /\ validateEvidenceSelection
            /\ IF out = "empty" THEN Save(TRUE, says, turn.hits)
               ELSE \E valid \in IF abstainEnabled THEN Validate(says, turn.hits) ELSE {TRUE} :
                        IF valid THEN Save(FALSE, says, turn.hits) ELSE Save(TRUE, "insufficient", <<>>)
    BY <1>6 DEF generateAnswerText
  <2> DEFINE says == IF out = "claim" THEN "claim" ELSE "insufficient"
  <2>2. says \in {"claim", "insufficient"}
    OBVIOUS
  <2>3. /\ turn.pc = "generate" /\ (~ abstainEnabled \/ Len(turn.hits) >= turn.plan.need)
        /\ \/ Save(TRUE, says, turn.hits) \/ Save(FALSE, says, turn.hits)
           \/ Save(TRUE, "insufficient", <<>>)
    BY <2>1 DEF validateEvidenceSelection
  <2> HIDE DEF says
  <2>4. /\ turn.hits \in Seq(Hits) /\ turn.hits \in Seq(turn.live \cup {Profile})
        /\ DistinctBlocks(turn.hits) /\ turn.plan.route # "history_only" /\ turn.pc # "idle"
    BY <1>4, <1>6, <2>3
  <2>5. CASE Save(TRUE, says, turn.hits)
    BY <1>0, <1>6, <2>2, <2>4, <2>5, SaveStep
  <2>6. CASE Save(FALSE, says, turn.hits)
    BY <1>0, <1>6, <2>2, <2>3, <2>4, <2>6, SaveStep
  <2>7. CASE Save(TRUE, "insufficient", <<>>)
    BY <1>0, <1>6, <2>4, <2>7, SaveStep
  <2> QED BY <2>3, <2>5, <2>6, <2>7
<1> QED BY <1>1, <1>2, <1>3, <1>5, <1>6

\* Every step of a conversation keeps its invariant, and so does processing the book again.
LEMMA AnsweringStep == AnsweringInv /\ [AnsweringNext]_answeringVars => AnsweringInv'
<1> SUFFICES ASSUME AnsweringInv, [AnsweringNext]_answeringVars PROVE AnsweringInv'
  OBVIOUS
<1>1. CASE TurnFails
  <2>1. turn' = NoTurn /\ UNCHANGED <<abstainEnabled, hasSummary, generation, indexed, answers>>
    BY <1>1 DEF TurnFails
  <2>2. NoTurn \in Turns /\ NoTurn.pc = "idle" /\ NoTurn.hits = <<>>
    BY EmptySeq DEF NoTurn, NoPlan, Turns, Plans, Routes, QuestionTypes
  <2>3. Len(<<>>) = 0 /\ SelectTopK \in Nat /\ \A T : <<>> \in Seq(T)
    BY AnsweringAssumption, EmptySeq
  <2>4. TurnGrounded'
    BY <2>1, <2>2, <2>3 DEF TurnGrounded
  <2> QED BY <2>1, <2>2, <2>4, TurnGoesOn
<1>2. CASE ReplaceChunkRows
  <2>1. /\ generation = indexed /\ generation < MaxGenerations /\ generation' = generation + 1
        /\ turn' = IF turn = NoTurn THEN turn ELSE [turn EXCEPT !.live = @ \cup ChunksIn(generation + 1)]
        /\ UNCHANGED <<abstainEnabled, hasSummary, indexed, answers>>
    BY <1>2 DEF ReplaceChunkRows
  <2>2. generation \in 1 .. MaxGenerations /\ MaxGenerations \in Nat /\ turn \in Turns /\ TurnGrounded
    BY AnsweringAssumption DEF AnsweringInv, AnsweringTypes
  <2>3. ChunksIn(generation + 1) \in SUBSET Hits
    <3>1. generation + 1 \in Nat
      BY <2>2
    <3> QED BY <3>1, ChunkTypes
  <2>4. /\ turn' \in Turns /\ turn'.pc = turn.pc /\ turn'.plan = turn.plan /\ turn'.hits = turn.hits
        /\ turn.live \subseteq turn'.live
        /\ turn # NoTurn => turn'.live = turn.live \cup ChunksIn(generation + 1)
    BY <2>1, <2>2, <2>3 DEF Turns
  <2>5. AnsweringTypes'
    BY <2>1, <2>2, <2>4 DEF AnsweringInv, AnsweringTypes
  <2>6. TurnGrounded'
    <3>1. turn'.pc # "idle" => ChunksIn(generation') \subseteq turn'.live
      BY <2>1, <2>4 DEF NoTurn
    <3>2. turn'.hits \in Seq(turn'.live \cup {Profile})
      <4>1. turn.hits \in Seq(turn.live \cup {Profile}) /\ turn.live \cup {Profile} \subseteq turn'.live \cup {Profile}
        BY <2>2, <2>4 DEF TurnGrounded
      <4> QED BY <2>4, <4>1, SeqMonotonic
    <3> QED BY <2>2, <2>4, <3>1, <3>2 DEF TurnGrounded
  <2>7. AnswersAreGrounded'
    BY <2>1 DEF AnsweringInv, AnswersAreGrounded, ClaimsHaveEvidence, CitesAreReal, CitedBlocks
  <2> QED BY <2>5, <2>6, <2>7 DEF AnsweringInv
<1>3. CASE Reindex
  <2>1. indexed' = generation /\ UNCHANGED <<abstainEnabled, hasSummary, generation, answers, turn>>
    BY <1>3 DEF Reindex
  <2>2. AnsweringTypes' /\ TurnGrounded'
    BY <2>1 DEF AnsweringInv, AnsweringTypes, TurnGrounded
  <2> QED BY <2>1, <2>2 DEF AnsweringInv, AnswersAreGrounded, ClaimsHaveEvidence, CitesAreReal, CitedBlocks
<1>4. CASE UNCHANGED answeringVars
  <2>1. UNCHANGED <<abstainEnabled, hasSummary, generation, indexed, answers, turn>>
    BY <1>4 DEF answeringVars
  <2>2. turn' \in Turns /\ TurnGrounded'
    BY <2>1 DEF AnsweringInv, AnsweringTypes, TurnGrounded
  <2> QED BY <2>1, <2>2, TurnGoesOn
<1> QED BY <1>1, <1>2, <1>3, <1>4, AskStep, RetrieveStep, SelectStep, AnswerStep DEF AnsweringNext

\* The state of a conversation is of its types, with no more evidence than is selected.
THEOREM AnsweringTypeCorrect == AnsweringSpec => []AnsweringTypeOK
<1>1. AnsweringInv => AnsweringTypeOK
  <2> SUFFICES ASSUME AnsweringInv PROVE AnsweringTypeOK
    OBVIOUS
  <2>1. \A i \in DOMAIN answers : answers[i].says \in {"claim", "insufficient"}
    <3>1. \A i \in DOMAIN answers : answers[i] \in SavedAnswers
      BY LenProperties, ElementOfSeq DEF AnsweringInv, AnsweringTypes
    <3> QED BY <3>1 DEF SavedAnswers
  <2>2. Len(turn.hits) <= AtLeast(SelectTopK, 1)
    <3>1. SelectTopK \in Nat \ {0} /\ Len(turn.hits) <= SelectTopK
      BY AnsweringAssumption DEF AnsweringInv, TurnGrounded
    <3> QED BY <3>1 DEF AtLeast
  <2> QED BY <2>1, <2>2 DEF AnsweringInv, AnsweringTypes, Turns, AnsweringTypeOK
<1> QED BY AnsweringInitially, AnsweringStep, <1>1, PTL DEF AnsweringSpec

\* An answer that claims something cites as many blocks as its question requires, and
\* cites what the book had or an answer before it cited, for any questions, chunks and
\* limits and over any number of turns and generations (app.go askQuestion to SaveExchange).
THEOREM AnswersAreGroundedCorrect == AnsweringSpec => []AnswersAreGrounded
<1>1. AnsweringInv => AnswersAreGrounded
  BY DEF AnsweringInv
<1> QED BY AnsweringInitially, AnsweringStep, <1>1, PTL DEF AnsweringSpec

-----------------------------------------------------------------------------
(* Retrieval: the searches *)

HitRecords == [chunk : Nat, score : Nat]

\* What is kept of a block after a search: its best rank there, and a hit with the score of it.
HitKept(hit, r, weight, b, chunks) ==
    IF r = NoRank THEN hit = NoHit
    ELSE /\ r \in 1 .. RecallTopK /\ hit \in HitRecords /\ hit.chunk \in chunks
         /\ BlockOf[hit.chunk] = b /\ hit.score = reciprocalRank(r) * weight

AllKept(hits, ranks, weight, chunks) ==
    \A b \in Blocks : HitKept(hits[b], ranks[b], weight, b, chunks)

RetrievalTypes ==
    /\ mode \in Modes /\ stage \in {"search", "load", "rerank", "pack", "done"} /\ queries \in 0 .. MaxQueries
    /\ denseHits \in [Blocks -> HitRecords] /\ lexicalHits \in [Blocks -> HitRecords]
    /\ ranked \in Seq(HitRecords) /\ loaded \subseteq IndexedChunks
    /\ rank \in [{"dense", "lexical"} -> [Blocks -> 1 .. NoRank]]

HitsRanked ==
    /\ AllKept(denseHits, rank["dense"], Weights.dense, DenseChunks)
    /\ AllKept(lexicalHits, rank["lexical"], Weights.lexical, LexicalChunks)
    /\ mode = "dense_only" => \A b \in Blocks : rank["lexical"][b] = NoRank
    /\ mode = "lexical_only" => \A b \in Blocks : rank["dense"][b] = NoRank

FoundBlocks == Found(denseHits) \cup Found(lexicalHits)

\* From the fusion to the packing: one hit of each of some of the blocks.
RankedFused ==
    stage \in {"load", "rerank", "pack"} =>
        /\ ranked # <<>>
        /\ \A i \in DOMAIN ranked : \E b \in FoundBlocks : ranked[i] = Fused(b)
        /\ \A i, j \in DOMAIN ranked : BlockAt(i) = BlockAt(j) => i = j

RetrievalInv == RetrievalTypes /\ HitsRanked /\ RankedFused /\ RanksRespected /\ PackedOnce

\* Of two quotients of one number the one with the greater divisor is less.
LEMMA SmallerQuotient ==
    ASSUME NEW a \in Nat, NEW b \in Nat, NEW c \in Nat \ {0}, NEW d \in Nat \ {0},
           a * c = b * d, a > 0, c < d
    PROVE  b < a
<1>1. SUFFICES ASSUME b >= a PROVE FALSE
  OBVIOUS
<1>2. a * c < a * d
  OBVIOUS
<1>3. a * d <= b * d
  BY <1>1
<1> QED BY <1>2, <1>3

\* What divides a number, times its quotient, is the number.
LEMMA QuotientIs ==
    ASSUME NEW s \in Nat \ {0}, NEW d \in Nat \ {0}, s % d = 0
    PROVE  s \div d \in Nat /\ (s \div d) * d = s /\ s \div d > 0
<1>1. s \div d \in Nat /\ (s \div d) * d = s
  OBVIOUS
<1>2. PICK a \in Nat : a = s \div d
  BY <1>1
<1>3. a * d > 0
  BY <1>1, <1>2
<1>4. a > 0
  BY <1>3
<1> QED BY <1>1, <1>2, <1>4

\* A greater factor gives a greater product.
LEMMA ProductsInOrder ==
    ASSUME NEW a \in Nat, NEW b \in Nat, NEW w \in Nat, a < b
    PROVE  a * w <= b * w /\ (w > 0 => a * w < b * w)
OBVIOUS

\* The reciprocals of the ranks fall (pipeline.go reciprocalRank).
LEMMA ReciprocalFacts ==
    ASSUME NEW r \in 1 .. RecallTopK, NEW q \in 1 .. RecallTopK
    PROVE  /\ reciprocalRank(r) \in Nat /\ reciprocalRank(q) \in Nat
           /\ reciprocalRank(r) > 0
           /\ q < r => reciprocalRank(r) < reciprocalRank(q)
<1>1. PICK s \in Nat \ {0} : s = ScoreScale
  BY RetrievalAssumption
<1>2. RecallTopK \in Nat
  BY RetrievalAssumption
<1>3. PICK c \in Nat \ {0}, d \in Nat \ {0} : c = 60 + q /\ d = 60 + r
  BY <1>2
<1>4. s % c = 0 /\ s % d = 0
  BY <1>1, <1>3, RetrievalAssumption
<1>5. PICK a \in Nat : a = s \div c /\ a * c = s /\ a > 0
  BY <1>4, QuotientIs
<1>6. PICK b \in Nat : b = s \div d /\ b * d = s /\ b > 0
  BY <1>4, QuotientIs
<1>7. reciprocalRank(q) = a /\ reciprocalRank(r) = b
  BY <1>1, <1>3, <1>5, <1>6 DEF reciprocalRank
<1>8. q < r => c < d
  BY <1>2, <1>3
<1>9. c < d => b < a
  BY <1>5, <1>6, SmallerQuotient
<1> QED BY <1>5, <1>6, <1>7, <1>8, <1>9

\* A better rank is a higher score.
LEMMA ScoreFacts ==
    ASSUME NEW w \in Nat, NEW r \in 1 .. RecallTopK
    PROVE  /\ reciprocalRank(r) * w \in Nat
           /\ w > 0 => reciprocalRank(r) * w > 0
           /\ \A q \in 1 .. RecallTopK : q < r => reciprocalRank(r) * w <= reciprocalRank(q) * w
           /\ \A q \in 1 .. RecallTopK : q < r /\ w > 0 => reciprocalRank(r) * w < reciprocalRank(q) * w
<1>1. PICK b \in Nat : b = reciprocalRank(r) /\ b > 0
  BY ReciprocalFacts
<1>2. b * w \in Nat /\ (w > 0 => b * w > 0)
  BY <1>1
<1>3. ASSUME NEW q \in 1 .. RecallTopK, q < r
      PROVE  b * w <= reciprocalRank(q) * w /\ (w > 0 => b * w < reciprocalRank(q) * w)
  <2>1. PICK a \in Nat : a = reciprocalRank(q) /\ b < a
    BY <1>1, <1>3, ReciprocalFacts
  <2> QED BY <1>1, <2>1, ProductsInOrder
<1> QED BY <1>1, <1>2, <1>3

\* The weights are not negative, whatever is configured (pipeline.go normalizedFusionWeights).
LEMMA WeightTypes == Weights.dense \in Nat /\ Weights.lexical \in Nat
BY RetrievalAssumption DEF Weights

\* A search gives a block the hit of its first rank.
ListRank(list, b) == IF Ranks(list, b) = {} THEN NoRank ELSE FirstRank(list, b)

\* It is kept with the score of that rank.
LEMMA HitForFacts ==
    ASSUME NEW chunks \in SUBSET (Nat \ {0}), NEW n \in 0 .. RecallTopK, NEW list \in [1 .. n -> chunks],
           NEW b, NEW w \in Nat
    PROVE  /\ HitKept(HitFor(list, b, w), ListRank(list, b), w, b, chunks)
           /\ ListRank(list, b) \in 1 .. NoRank
<1>2. RecallTopK \in Nat /\ NoRank = RecallTopK + 1
  BY RetrievalAssumption DEF NoRank
<1>3. CASE Ranks(list, b) = {}
  BY <1>2, <1>3 DEF HitFor, ListRank, HitKept
<1>4. CASE Ranks(list, b) # {}
  <2> DEFINE r == FirstRank(list, b)
  <2>1. Ranks(list, b) \in SUBSET Nat
    BY DEF Ranks
  <2>2. \E x \in Ranks(list, b) : \A y \in Ranks(list, b) : x <= y
    BY <1>4, <2>1, LeastExists
  <2>3. r \in Ranks(list, b)
    BY <2>2, Zenon DEF FirstRank
  <2>4. HitFor(list, b, w) = [chunk |-> list[r], score |-> reciprocalRank(r) * w] /\ ListRank(list, b) = r
    BY <1>4 DEF HitFor, ListRank
  <2> HIDE DEF r
  <2>5. r \in 1 .. n /\ r \in 1 .. RecallTopK /\ list[r] \in chunks /\ BlockOf[list[r]] = b
    BY <1>2, <2>3 DEF Ranks
  <2>6. reciprocalRank(r) * w \in Nat /\ r # NoRank
    BY <1>2, <2>5, ScoreFacts
  <2>7. PICK h : h = HitFor(list, b, w)
    OBVIOUS
  <2>8. h.chunk = list[r] /\ h.score = reciprocalRank(r) * w /\ h \in HitRecords
    <3>1. PICK x \in Nat : x = reciprocalRank(r) * w
      BY <2>6
    <3>2. h = [chunk |-> list[r], score |-> x] /\ list[r] \in Nat
      BY <2>4, <2>5, <2>7, <3>1
    <3> QED BY <3>1, <3>2 DEF HitRecords
  <2>9. HitKept(h, r, w, b, chunks)
    BY <2>5, <2>6, <2>8 DEF HitKept
  <2> QED BY <1>2, <2>4, <2>5, <2>7, <2>9
<1> QED BY <1>3, <1>4

\* Of two hits of a block the one with the better rank is kept.
LEMMA MergeFacts ==
    ASSUME NEW chunks \in SUBSET (Nat \ {0}), NEW b, NEW w \in Nat, NEW old, NEW new,
           NEW r \in 1 .. NoRank, NEW q \in 1 .. NoRank,
           HitKept(old, r, w, b, chunks), HitKept(new, q, w, b, chunks)
    PROVE  HitKept(mergeStageHit(old, new), IF q < r THEN q ELSE r, w, b, chunks)
<1>1. RecallTopK \in Nat /\ NoRank = RecallTopK + 1
  BY RetrievalAssumption DEF NoRank
<1>2. (old = NoHit <=> r = NoRank) /\ (new = NoHit <=> q = NoRank)
  BY DEF HitKept, NoHit
<1>3. CASE r = NoRank
  <2>1. mergeStageHit(old, new) = new /\ (IF q < r THEN q ELSE r) = q
    BY <1>1, <1>2, <1>3 DEF mergeStageHit
  <2> QED BY <2>1
<1>4. CASE r # NoRank /\ q = NoRank
  <2>1. mergeStageHit(old, new) = old /\ (IF q < r THEN q ELSE r) = r
    BY <1>1, <1>2, <1>4 DEF mergeStageHit
  <2> QED BY <2>1
<1>5. CASE r # NoRank /\ q # NoRank
  <2>1. r \in 1 .. RecallTopK /\ q \in 1 .. RecallTopK
        /\ old.score = reciprocalRank(r) * w /\ new.score = reciprocalRank(q) * w
    BY <1>5 DEF HitKept
  <2>2. PICK x \in Nat, y \in Nat : x = reciprocalRank(r) * w /\ y = reciprocalRank(q) * w
    BY <2>1, ScoreFacts
  <2>3. /\ q < r => x <= y /\ (w > 0 => x < y)
        /\ r < q => y <= x
    BY <2>1, <2>2, ScoreFacts
  <2>4. w = 0 => x = 0 /\ y = 0
    <3>1. reciprocalRank(r) \in Int /\ reciprocalRank(q) \in Int
      BY <2>1, ReciprocalFacts
    <3>2. \A z \in Int : z * 0 = 0
      OBVIOUS
    <3> QED BY <2>2, <3>1, <3>2
  <2>5. mergeStageHit(old, new) = IF y > x THEN new ELSE old
    BY <1>2, <1>5, <2>1, <2>2 DEF mergeStageHit
  <2>6. CASE q < r /\ w > 0
    BY <2>2, <2>3, <2>5, <2>6
  <2>7. CASE q < r /\ w = 0
    <3>1. mergeStageHit(old, new) = old
      BY <2>4, <2>5, <2>7
    <3> QED BY <1>5, <2>1, <2>2, <2>4, <2>7, <3>1 DEF HitKept
  <2>8. CASE ~ q < r
    <3>1. ~ y > x
      <4>1. q = r \/ r < q
        BY <2>1, <2>8
      <4> QED BY <2>2, <2>3, <4>1
    <3> QED BY <2>5, <2>8, <3>1
  <2> QED BY <2>6, <2>7, <2>8
<1> QED BY <1>3, <1>4, <1>5

ListOf(list, chunks) == \E n \in 0 .. RecallTopK : list \in [1 .. n -> chunks]
StillKept(hits, ranks, w, chunks, list) ==
    /\ BestRanks(ranks, list) \in [Blocks -> 1 .. NoRank]
    /\ AllKept(accumulateStageHits(hits, list, w), BestRanks(ranks, list), w, chunks)
    /\ accumulateStageHits(hits, list, w) \in [Blocks -> HitRecords]
    /\ list = <<>> => BestRanks(ranks, list) = ranks

\* A search adds to what is kept of each block.
LEMMA SearchedFacts ==
    ASSUME NEW chunks \in SUBSET (Nat \ {0}), NEW list, ListOf(list, chunks), NEW w \in Nat, NEW hits,
           NEW ranks \in [Blocks -> 1 .. NoRank], AllKept(hits, ranks, w, chunks)
    PROVE  StillKept(hits, ranks, w, chunks, list)
<1> USE DEF AllKept, StillKept
<1>1. NoRank \in Nat
  BY RetrievalAssumption DEF NoRank
<1>2. ASSUME NEW b \in Blocks
      PROVE  /\ BestRanks(ranks, list)[b] = IF ListRank(list, b) < ranks[b] THEN ListRank(list, b) ELSE ranks[b]
             /\ BestRanks(ranks, list)[b] \in 1 .. NoRank
             /\ HitKept(accumulateStageHits(hits, list, w)[b], BestRanks(ranks, list)[b], w, b, chunks)
  <2>1. HitKept(HitFor(list, b, w), ListRank(list, b), w, b, chunks) /\ ListRank(list, b) \in 1 .. NoRank
    BY HitForFacts DEF ListOf
  <2>2. BestRanks(ranks, list)[b] = IF ListRank(list, b) < ranks[b] THEN ListRank(list, b) ELSE ranks[b]
    BY <1>1, <2>1 DEF BestRanks, ListRank
  <2>3. accumulateStageHits(hits, list, w)[b] = mergeStageHit(hits[b], HitFor(list, b, w))
    BY DEF accumulateStageHits
  <2>4. HitKept(mergeStageHit(hits[b], HitFor(list, b, w)),
                IF ListRank(list, b) < ranks[b] THEN ListRank(list, b) ELSE ranks[b], w, b, chunks)
    BY <2>1, MergeFacts
  <2> QED BY <1>1, <2>1, <2>2, <2>3, <2>4
<1>3. ASSUME NEW b \in Blocks PROVE accumulateStageHits(hits, list, w)[b] \in HitRecords
  BY <1>2 DEF HitKept, NoHit, HitRecords
<1>4. ASSUME list = <<>> PROVE BestRanks(ranks, list) = ranks
  <2>1. \A b \in Blocks : Ranks(list, b) = {}
    BY <1>4 DEF Ranks
  <2> QED BY <2>1 DEF BestRanks
<1>5. /\ BestRanks(ranks, list) = [b \in Blocks |-> BestRanks(ranks, list)[b]]
      /\ accumulateStageHits(hits, list, w) = [b \in Blocks |-> accumulateStageHits(hits, list, w)[b]]
  BY DEF BestRanks, accumulateStageHits
<1> QED BY <1>2, <1>3, <1>4, <1>5

\* A chunk is a number from 1.
LEMMA ChunkNumbers ==
    DenseChunks \in SUBSET (Nat \ {0}) /\ LexicalChunks \in SUBSET (Nat \ {0})
BY RetrievalAssumption DEF IndexedChunks

\* Nothing is found before the first query.
LEMMA RetrievalInitially == RetrievalInit => RetrievalInv
<1> SUFFICES ASSUME RetrievalInit PROVE RetrievalInv
  OBVIOUS
<1>1. NoRank \in Nat \ {0} /\ NoHit \in HitRecords /\ 0 \in 0 .. MaxQueries
  BY RetrievalAssumption DEF NoRank, NoHit, HitRecords
<1>2. rank["dense"] = [b \in Blocks |-> NoRank] /\ rank["lexical"] = [b \in Blocks |-> NoRank]
  BY DEF RetrievalInit
<1>3. RetrievalTypes
  <2>1. rank \in [{"dense", "lexical"} -> [Blocks -> 1 .. NoRank]]
    BY <1>1 DEF RetrievalInit
  <2>2. ranked \in Seq(HitRecords)
    BY DEF RetrievalInit
  <2> QED BY <1>1, <2>1, <2>2 DEF RetrievalInit, RetrievalTypes
<1>4. HitsRanked
  BY <1>2 DEF RetrievalInit, HitsRanked, AllKept, HitKept
<1>5. RankedFused /\ RanksRespected /\ PackedOnce
  BY DEF RetrievalInit, RankedFused, RanksRespected, PackedOnce
<1> QED BY <1>3, <1>4, <1>5 DEF RetrievalInv

\* One list of a search, or none when its mode leaves it out.
LEMMA AnswersFacts ==
    ASSUME NEW chunks, NEW list \in Answers(chunks) \cup {<<>>}
    PROVE  ListOf(list, chunks)
<1> USE DEF ListOf
<1>1. CASE list = <<>>
  <2>1. 0 \in 0 .. RecallTopK /\ <<>> \in [1 .. 0 -> chunks]
    BY RetrievalAssumption
  <2> QED BY <1>1, <2>1
<1>2. CASE list \in Answers(chunks)
  BY <1>2 DEF Answers
<1> QED BY <1>1, <1>2

\* A query improves the hits and the ranks of the blocks together (pipeline.go accumulateStageHits).
LEMMA SearchStep == RetrievalInv /\ SearchQuery => RetrievalInv'
<1> SUFFICES ASSUME RetrievalInv, SearchQuery PROVE RetrievalInv'
  OBVIOUS
<1>1. RetrievalTypes /\ HitsRanked
  BY DEF RetrievalInv
<1>2. PICK dense \in DenseAnswers, lexical \in LexicalAnswers :
        /\ stage = "search" /\ queries < MaxQueries
        /\ queries' = queries + 1
        /\ denseHits' = accumulateStageHits(denseHits, dense, Weights.dense)
        /\ lexicalHits' = accumulateStageHits(lexicalHits, lexical, Weights.lexical)
        /\ rank' = [dense |-> BestRanks(rank["dense"], dense), lexical |-> BestRanks(rank["lexical"], lexical)]
        /\ UNCHANGED <<mode, stage, ranked, loaded>>
  BY DEF SearchQuery
<1>3. ListOf(dense, DenseChunks)
  BY AnswersFacts DEF DenseAnswers
<1>4. ListOf(lexical, LexicalChunks)
  BY AnswersFacts DEF LexicalAnswers
<1>5. (mode = "lexical_only" => dense = <<>>) /\ (mode = "dense_only" => lexical = <<>>)
  BY DEF DenseAnswers, LexicalAnswers
<1>6. rank["dense"] \in [Blocks -> 1 .. NoRank] /\ rank["lexical"] \in [Blocks -> 1 .. NoRank]
  BY <1>1 DEF RetrievalTypes
<1>7. /\ rank'["dense"] \in [Blocks -> 1 .. NoRank]
      /\ AllKept(denseHits', rank'["dense"], Weights.dense, DenseChunks)
      /\ denseHits' \in [Blocks -> HitRecords]
      /\ dense = <<>> => rank'["dense"] = rank["dense"]
  <2>1. rank'["dense"] = BestRanks(rank["dense"], dense)
    BY <1>2
  <2>2. AllKept(denseHits, rank["dense"], Weights.dense, DenseChunks)
    BY <1>1 DEF HitsRanked
  <2>3. PICK w \in Nat : w = Weights.dense
    BY WeightTypes
  <2>4. PICK ranks \in [Blocks -> 1 .. NoRank] : ranks = rank["dense"]
    BY <1>6
  <2>5. DenseChunks \in SUBSET (Nat \ {0}) /\ AllKept(denseHits, ranks, w, DenseChunks)
    BY <2>2, <2>3, <2>4, ChunkNumbers
  <2>6. StillKept(denseHits, ranks, w, DenseChunks, dense)
    BY <1>3, <2>5, SearchedFacts
  <2> QED BY <1>2, <2>1, <2>3, <2>4, <2>6 DEF StillKept
<1>8. /\ rank'["lexical"] \in [Blocks -> 1 .. NoRank]
      /\ AllKept(lexicalHits', rank'["lexical"], Weights.lexical, LexicalChunks)
      /\ lexicalHits' \in [Blocks -> HitRecords]
      /\ lexical = <<>> => rank'["lexical"] = rank["lexical"]
  <2>1. rank'["lexical"] = BestRanks(rank["lexical"], lexical)
    BY <1>2
  <2>2. AllKept(lexicalHits, rank["lexical"], Weights.lexical, LexicalChunks)
    BY <1>1 DEF HitsRanked
  <2>3. PICK w \in Nat : w = Weights.lexical
    BY WeightTypes
  <2>4. PICK ranks \in [Blocks -> 1 .. NoRank] : ranks = rank["lexical"]
    BY <1>6
  <2>5. LexicalChunks \in SUBSET (Nat \ {0}) /\ AllKept(lexicalHits, ranks, w, LexicalChunks)
    BY <2>2, <2>3, <2>4, ChunkNumbers
  <2>6. StillKept(lexicalHits, ranks, w, LexicalChunks, lexical)
    BY <1>4, <2>5, SearchedFacts
  <2> QED BY <1>2, <2>1, <2>3, <2>4, <2>6 DEF StillKept
<1>9. rank' \in [{"dense", "lexical"} -> [Blocks -> 1 .. NoRank]]
  <2>1. DOMAIN rank' = {"dense", "lexical"} /\ rank' = [f \in {"dense", "lexical"} |-> rank'[f]]
    BY <1>2
  <2> QED BY <1>7, <1>8, <2>1
<1>10. RetrievalTypes'
  <2>1. queries' \in 0 .. MaxQueries
    BY <1>1, <1>2, RetrievalAssumption DEF RetrievalTypes
  <2> QED BY <1>1, <1>2, <1>7, <1>8, <1>9, <2>1 DEF RetrievalTypes
<1>11. HitsRanked'
  <2>1. mode' = "dense_only" => \A b \in Blocks : rank'["lexical"][b] = NoRank
    BY <1>1, <1>2, <1>5, <1>8 DEF HitsRanked
  <2>2. mode' = "lexical_only" => \A b \in Blocks : rank'["dense"][b] = NoRank
    BY <1>1, <1>2, <1>5, <1>7 DEF HitsRanked
  <2> QED BY <1>7, <1>8, <2>1, <2>2 DEF HitsRanked
<1>12. RankedFused' /\ RanksRespected' /\ PackedOnce'
  <2>1. stage' = "search"
    BY <1>2
  <2> QED BY <2>1 DEF RankedFused, RanksRespected, PackedOnce
<1> QED BY <1>10, <1>11, <1>12 DEF RetrievalInv

-----------------------------------------------------------------------------
(* Retrieval: the fusion *)

\* Of two blocks in a search, the one with the better rank has no lower score.
LEMMA KeptScores ==
    ASSUME NEW chunks, NEW b, NEW d, NEW w \in Nat, NEW g, NEW h,
           NEW r \in 1 .. NoRank, NEW q \in 1 .. NoRank,
           HitKept(g, r, w, b, chunks), HitKept(h, q, w, d, chunks), r <= q
    PROVE  g.score \in Nat /\ h.score \in Nat /\ h.score <= g.score /\ (w > 0 /\ r < q => h.score < g.score)
<1>1. RecallTopK \in Nat /\ NoRank = RecallTopK + 1
  BY RetrievalAssumption DEF NoRank
<1>2. NoHit.score = 0
  BY DEF NoHit
<1>3. CASE r = NoRank
  <2>1. q = NoRank
    BY <1>1, <1>3
  <2> QED BY <1>1, <1>2, <1>3, <2>1 DEF HitKept
<1>4. CASE r # NoRank /\ q = NoRank
  <2>1. r \in 1 .. RecallTopK /\ g.score = reciprocalRank(r) * w /\ h.score = 0
    BY <1>2, <1>4 DEF HitKept
  <2>2. PICK x \in Nat : x = reciprocalRank(r) * w
    BY <2>1, ScoreFacts
  <2>3. w > 0 => x > 0
    BY <2>1, <2>2, ScoreFacts
  <2> QED BY <2>1, <2>2, <2>3
<1>5. CASE r # NoRank /\ q # NoRank
  <2>1. r \in 1 .. RecallTopK /\ q \in 1 .. RecallTopK
        /\ g.score = reciprocalRank(r) * w /\ h.score = reciprocalRank(q) * w
    BY <1>5 DEF HitKept
  <2>2. PICK x \in Nat, y \in Nat : x = reciprocalRank(r) * w /\ y = reciprocalRank(q) * w
    BY <2>1, ScoreFacts
  <2>3. r < q => y <= x /\ (w > 0 => y < x)
    BY <2>1, <2>2, ScoreFacts
  <2>4. r = q => x = y
    BY <2>2
  <2>5. r = q \/ r < q
    BY <2>1
  <2> QED BY <2>1, <2>2, <2>3, <2>4, <2>5
<1> QED BY <1>3, <1>4, <1>5

\* The hit of a block in both searches.
LEMMA FusedFacts ==
    ASSUME RetrievalTypes, HitsRanked, NEW b \in Blocks
    PROVE  /\ Fused(b) \in HitRecords
           /\ Fused(b).score = denseHits[b].score + lexicalHits[b].score
           /\ b \in FoundBlocks => Fused(b).chunk \in IndexedChunks /\ BlockOf[Fused(b).chunk] = b
           /\ b \in FoundBlocks <=> Fused(b) # NoHit
<1> DEFINE g == denseHits[b]
           h == lexicalHits[b]
<1>1. g \in HitRecords /\ h \in HitRecords
  BY DEF RetrievalTypes
<1>2. /\ g # NoHit => g.chunk \in DenseChunks /\ BlockOf[g.chunk] = b
      /\ h # NoHit => h.chunk \in LexicalChunks /\ BlockOf[h.chunk] = b
  BY DEF HitsRanked, AllKept, HitKept
<1>3. b \in FoundBlocks <=> g # NoHit \/ h # NoHit
  BY DEF FoundBlocks, Found
<1>4. \A c \in IndexedChunks : c # 0
  BY RetrievalAssumption
<1>5. g.score \in Nat /\ h.score \in Nat /\ NoHit.score = 0 /\ NoHit.chunk = 0
  BY <1>1 DEF HitRecords, NoHit
<1> HIDE DEF g, h
<1>6. CASE g = NoHit
  <2>1. Fused(b) = h
    BY <1>6 DEF Fused, g, h
  <2> QED BY <1>1, <1>2, <1>3, <1>5, <1>6, <2>1 DEF IndexedChunks, g, h
<1>7. CASE g # NoHit /\ h = NoHit
  <2>1. Fused(b) = g
    BY <1>7 DEF Fused, g, h
  <2> QED BY <1>1, <1>2, <1>3, <1>5, <1>7, <2>1 DEF IndexedChunks, g, h
<1>8. CASE g # NoHit /\ h # NoHit
  <2>1. Fused(b) = [g EXCEPT !.score = @ + h.score]
    BY <1>8 DEF Fused, g, h
  <2>2. Fused(b) \in HitRecords /\ Fused(b).chunk = g.chunk /\ Fused(b).score = g.score + h.score
    BY <1>1, <1>5, <2>1 DEF HitRecords
  <2>3. g.chunk \in IndexedChunks
    BY <1>2, <1>8 DEF IndexedChunks
  <2>4. Fused(b) # NoHit
    BY <1>4, <1>5, <2>2, <2>3
  <2> QED BY <1>2, <1>3, <1>8, <2>2, <2>3, <2>4 DEF g, h
<1> QED BY <1>6, <1>7, <1>8

\* A block that outranks another has the higher score.
LEMMA OutrankingScores ==
    ASSUME RetrievalTypes, HitsRanked, NEW b \in Blocks, NEW d \in Blocks, Outranks(b, d)
    PROVE  Fused(d).score < Fused(b).score
<1>1. /\ denseHits[b].score \in Nat /\ denseHits[d].score \in Nat
      /\ denseHits[d].score <= denseHits[b].score
      /\ Weights.dense > 0 /\ rank["dense"][b] < rank["dense"][d] => denseHits[d].score < denseHits[b].score
  <2>1. PICK w \in Nat : w = Weights.dense
    BY WeightTypes
  <2>2. HitKept(denseHits[b], rank["dense"][b], w, b, DenseChunks) /\ HitKept(denseHits[d], rank["dense"][d], w, d, DenseChunks)
    BY <2>1 DEF HitsRanked, AllKept
  <2>3. rank["dense"][b] \in 1 .. NoRank /\ rank["dense"][d] \in 1 .. NoRank /\ rank["dense"][b] <= rank["dense"][d]
    BY DEF RetrievalTypes, Outranks
  <2> QED BY <2>1, <2>2, <2>3, KeptScores
<1>2. /\ lexicalHits[b].score \in Nat /\ lexicalHits[d].score \in Nat
      /\ lexicalHits[d].score <= lexicalHits[b].score
      /\ Weights.lexical > 0 /\ rank["lexical"][b] < rank["lexical"][d] => lexicalHits[d].score < lexicalHits[b].score
  <2>1. PICK w \in Nat : w = Weights.lexical
    BY WeightTypes
  <2>2. HitKept(lexicalHits[b], rank["lexical"][b], w, b, LexicalChunks)
        /\ HitKept(lexicalHits[d], rank["lexical"][d], w, d, LexicalChunks)
    BY <2>1 DEF HitsRanked, AllKept
  <2>3. rank["lexical"][b] \in 1 .. NoRank /\ rank["lexical"][d] \in 1 .. NoRank
        /\ rank["lexical"][b] <= rank["lexical"][d]
    BY DEF RetrievalTypes, Outranks
  <2> QED BY <2>1, <2>2, <2>3, KeptScores
<1>3. /\ Fused(b).score = denseHits[b].score + lexicalHits[b].score
      /\ Fused(d).score = denseHits[d].score + lexicalHits[d].score
  BY FusedFacts
<1>4. \/ Weights.dense > 0 /\ rank["dense"][b] < rank["dense"][d]
      \/ Weights.lexical > 0 /\ rank["lexical"][b] < rank["lexical"][d]
  BY DEF Outranks
<1>5. \/ denseHits[d].score < denseHits[b].score
      \/ lexicalHits[d].score < lexicalHits[b].score
  BY <1>1, <1>2, <1>4
<1> QED BY <1>1, <1>2, <1>3, <1>5

\* Hits in order: each once, none before one with a higher score.
InRank(S, q) ==
    /\ Cardinality(S) \in Nat /\ q \in [1 .. Cardinality(S) -> S]
    /\ \A i, j \in 1 .. Cardinality(S) : i # j => q[i] # q[j]
    /\ \A i, j \in 1 .. Cardinality(S) : q[j].score < q[i].score => i < j
    /\ \A x \in S : \E k \in 1 .. Cardinality(S) : q[k] = x

\* Hits of different chunks have one order, by score (pipeline.go orderedStageHits).
LEMMA RankedInOrder ==
    ASSUME NEW S \in SUBSET HitRecords, IsFiniteSet(S), \A g, h \in S : g.chunk = h.chunk => g = h
    PROVE  InRank(S, Ranked(S))
<1> DEFINE below == [x \in S |-> {y \in S : Before(y, x)}]
           n == Cardinality(S)
<1>1. /\ below \in [S -> SUBSET S]
      /\ \A x, y \in S : y \in below[x] <=> Before(y, x)
      /\ \A x \in S : below[x] = {y \in S : Before(y, x)}
  OBVIOUS
<1> HIDE DEF below
<1>2. \A x \in S : x.chunk \in Nat /\ x.score \in Nat
  BY DEF HitRecords
<1>3. LinearBelow(S, below)
  <2>1. \A x \in S : x \notin below[x]
    BY <1>1, <1>2 DEF Before
  <2>2. ASSUME NEW x \in S, NEW y \in S PROVE x = y \/ x \in below[y] \/ y \in below[x]
    <3>1. x.chunk = y.chunk => x = y
      OBVIOUS
    <3> QED BY <1>1, <1>2, <3>1 DEF Before
  <2>3. ASSUME NEW x \in S, NEW y \in S, NEW z \in S, x \in below[y], y \in below[z] PROVE x \in below[z]
    <3>1. Before(x, y) /\ Before(y, z)
      BY <1>1, <2>3
    <3>2. Before(x, z)
      BY <1>2, <3>1 DEF Before
    <3> QED BY <1>1, <3>2
  <2> QED BY <1>1, <2>1, <2>2, <2>3 DEF LinearBelow
<1> PICK q : q = Ranked(S)
  OBVIOUS
<1>4. q = [k \in 1 .. n |-> CHOOSE x \in S : Cardinality({y \in S : Before(y, x)}) = k - 1]
  BY DEF Ranked, InOrder
<1>5. ASSUME NEW k \in 1 .. n PROVE q[k] \in S /\ Cardinality(below[q[k]]) = k - 1
  <2>1. \E x \in S : Cardinality(below[x]) = k - 1
    BY <1>3, PlaceTaken
  <2>2. \E x \in S : Cardinality({y \in S : Before(y, x)}) = k - 1
    BY <1>1, <2>1
  <2>3. q[k] = CHOOSE x \in S : Cardinality({y \in S : Before(y, x)}) = k - 1
    BY <1>4
  <2>4. q[k] \in S /\ Cardinality({y \in S : Before(y, q[k])}) = k - 1
    BY <2>2, <2>3, Zenon
  <2> QED BY <1>1, <2>4
<1>6. PlacedBy(S, below, q)
  <2> HIDE DEF n
  <2>1. q = [k \in 1 .. n |-> q[k]]
    BY <1>4
  <2> QED BY <1>5, <2>1 DEF n, PlacedBy
<1>7. /\ n \in Nat /\ q \in [1 .. n -> S]
      /\ \A i, j \in 1 .. n : i < j => q[i] \in below[q[j]]
      /\ \A x \in S : \E k \in 1 .. n : q[k] = x
  BY <1>3, <1>6, PlacesInOrder
<1> HIDE DEF n
<1>8. ASSUME NEW i \in 1 .. n, NEW j \in 1 .. n, i < j PROVE q[i] # q[j] /\ q[j].score <= q[i].score
  <2>1. q[i] \in S /\ q[j] \in S /\ Before(q[i], q[j])
    BY <1>1, <1>7, <1>8
  <2> QED BY <1>2, <2>1 DEF Before
<1>9. ASSUME NEW i \in 1 .. n, NEW j \in 1 .. n PROVE (i # j => q[i] # q[j]) /\ (q[j].score < q[i].score => i < j)
  <2>1. i < j \/ i = j \/ j < i
    BY <1>7
  <2>2. q[i].score \in Nat /\ q[j].score \in Nat
    BY <1>2, <1>7
  <2> QED BY <1>8, <2>1, <2>2
<1> QED BY <1>7, <1>9 DEF InRank, n

\* What the fusion puts in order, in every mode: the hit of each block that was found.
FusedHits == {Fused(b) : b \in FoundBlocks}

\* They are finitely many, no two of one chunk.
LEMMA FusedHitsFacts ==
    ASSUME RetrievalTypes, HitsRanked
    PROVE  /\ FusedHits \in SUBSET HitRecords /\ IsFiniteSet(FusedHits)
           /\ \A g, h \in FusedHits : g.chunk = h.chunk => g = h
           /\ FusedHits = {} <=> FoundBlocks = {}
<1>1. FoundBlocks \in SUBSET Blocks
  BY DEF FoundBlocks, Found
<1>2. IsFiniteSet(Blocks)
  <2> DEFINE f == [c \in IndexedChunks |-> BlockOf[c]]
  <2>1. f \in Surjection(IndexedChunks, Blocks)
    BY DEF Surjection, Blocks
  <2> HIDE DEF f
  <2> QED BY <2>1, RetrievalAssumption, FS_Surjection
<1>3. IsFiniteSet(FusedHits)
  <2> DEFINE f == [b \in FoundBlocks |-> Fused(b)]
  <2>1. f \in Surjection(FoundBlocks, FusedHits)
    BY DEF Surjection, FusedHits
  <2> HIDE DEF f
  <2>2. IsFiniteSet(FoundBlocks)
    BY <1>1, <1>2, FS_Subset
  <2> QED BY <2>1, <2>2, FS_Surjection
<1>4. \A b \in FoundBlocks : Fused(b) \in HitRecords /\ BlockOf[Fused(b).chunk] = b
  BY <1>1, FusedFacts
<1>5. ASSUME NEW g \in FusedHits, NEW h \in FusedHits, g.chunk = h.chunk PROVE g = h
  <2>1. PICK b \in FoundBlocks, d \in FoundBlocks : g = Fused(b) /\ h = Fused(d)
    BY DEF FusedHits
  <2>2. b = d
    BY <1>4, <1>5, <2>1
  <2> QED BY <2>1, <2>2
<1>6. FusedHits \in SUBSET HitRecords /\ (FusedHits = {} <=> FoundBlocks = {})
  BY <1>4 DEF FusedHits
<1> QED BY <1>3, <1>5, <1>6

\* The fusion leaves the leading ones in order, in every mode (pipeline.go fuseStageHits).
LEMMA FuseRanks ==
    ASSUME RetrievalTypes, HitsRanked, Fuse
    PROVE  \E K \in Nat \ {0} : ranked' = Leading(Ranked(FusedHits), K)
<1>1. RecallTopK \in Nat \ {0} /\ FusionTopK \in Nat \ {0}
  BY RetrievalAssumption
<1>2. ranked' = CASE mode = "dense_only"   -> orderedStageHits(HitsOf(denseHits), RecallTopK)
                  [] mode = "lexical_only" -> orderedStageHits(HitsOf(lexicalHits), RecallTopK)
                  [] OTHER                 -> fuseStageHits
  BY DEF Fuse
<1>3. CASE mode = "dense_only"
  <2>1. \A b \in Blocks : lexicalHits[b] = NoHit
    BY <1>3 DEF HitsRanked, AllKept, HitKept
  <2>2. FoundBlocks = Found(denseHits) /\ \A b \in FoundBlocks : Fused(b) = denseHits[b]
    BY <2>1 DEF FoundBlocks, Found, Fused
  <2>3. HitsOf(denseHits) = FusedHits
    BY <2>2 DEF HitsOf, FusedHits
  <2> QED BY <1>1, <1>2, <1>3, <2>3 DEF orderedStageHits
<1>4. CASE mode = "lexical_only"
  <2>1. \A b \in Blocks : denseHits[b] = NoHit
    BY <1>4 DEF HitsRanked, AllKept, HitKept
  <2>2. FoundBlocks = Found(lexicalHits) /\ \A b \in FoundBlocks : Fused(b) = lexicalHits[b]
    BY <2>1 DEF FoundBlocks, Found, Fused
  <2>3. HitsOf(lexicalHits) = FusedHits
    BY <2>2 DEF HitsOf, FusedHits
  <2> QED BY <1>1, <1>2, <1>4, <2>3 DEF orderedStageHits
<1>5. CASE mode # "dense_only" /\ mode # "lexical_only"
  BY <1>1, <1>2, <1>5 DEF orderedStageHits, fuseStageHits, FusedHits, FoundBlocks
<1> QED BY <1>3, <1>4, <1>5

\* Fusing puts one hit of each block in an order that respects the ranks (pipeline.go fuseStageHits).
LEMMA FuseStep == RetrievalInv /\ Fuse => RetrievalInv'
<1> SUFFICES ASSUME RetrievalInv, Fuse PROVE RetrievalInv'
  OBVIOUS
<1>1. RetrievalTypes /\ HitsRanked
  BY DEF RetrievalInv
<1>2. /\ stage' = IF ranked' = <<>> THEN "done" ELSE "load"
      /\ UNCHANGED <<mode, queries, denseHits, lexicalHits, loaded, rank>>
  BY DEF Fuse
<1>3. PICK K \in Nat \ {0} : ranked' = Leading(Ranked(FusedHits), K)
  BY <1>1, FuseRanks
<1> PICK q : q = Ranked(FusedHits)
  OBVIOUS
<1> PICK n : n = Cardinality(FusedHits)
  OBVIOUS
<1>4. n \in Nat /\ q \in [1 .. n -> FusedHits] /\ InRank(FusedHits, q) /\ n = Cardinality(FusedHits)
  <2>1. /\ FusedHits \in SUBSET HitRecords /\ IsFiniteSet(FusedHits)
        /\ \A g, h \in FusedHits : g.chunk = h.chunk => g = h
    BY <1>1, FusedHitsFacts
  <2>2. PICK S : S = FusedHits
    OBVIOUS
  <2>3. InRank(S, Ranked(S))
    BY <2>1, <2>2, RankedInOrder
  <2>4. Cardinality(S) \in Nat /\ Ranked(S) \in [1 .. Cardinality(S) -> S]
    BY <2>3 DEF InRank
  <2> QED BY <2>2, <2>3, <2>4
<1>5. /\ q \in Seq(HitRecords) /\ DOMAIN q = 1 .. n /\ Len(q) = n
      /\ \A i \in 1 .. n : \E b \in FoundBlocks : q[i] = Fused(b)
  <2>1. FusedHits \in SUBSET HitRecords
    BY <1>1, FusedHitsFacts
  <2>2. q \in Seq(HitRecords) /\ Len(q) = n
    BY <1>4, <2>1
  <2> QED BY <1>4, <2>2 DEF FusedHits
<1>6. /\ ranked' \in Seq(HitRecords)
      /\ \A i \in DOMAIN ranked' : i \in 1 .. n /\ ranked'[i] = q[i]
      /\ n > 0 => Len(ranked') > 0
  <2>1. PICK r \in Seq(HitRecords) : r = Leading(q, K)
    BY <1>5, LeadingFacts
  <2>2. /\ \A i \in DOMAIN r : i \in DOMAIN q /\ r[i] = q[i]
        /\ Len(q) > 0 /\ K > 0 => Len(r) > 0
    BY <1>5, <2>1, LeadingFacts
  <2> QED BY <1>3, <1>5, <2>1, <2>2
<1>7. DOMAIN ranked' = 1 .. Len(ranked') /\ Len(ranked') \in Nat
  BY <1>6, LenProperties
<1>8. FoundBlocks' = FoundBlocks /\ \A b : Fused(b)' = Fused(b)
  BY <1>2 DEF FoundBlocks, Found, Fused
<1>9. FoundBlocks \in SUBSET Blocks /\ \A b \in FoundBlocks : BlockOf[Fused(b).chunk] = b /\ Fused(b) \in HitRecords
  <2>1. FoundBlocks \in SUBSET Blocks
    BY DEF FoundBlocks, Found
  <2> QED BY <1>1, <2>1, FusedFacts
<1>10. RetrievalTypes'
  <2>1. stage' \in {"search", "load", "rerank", "pack", "done"}
    BY <1>2
  <2> QED BY <1>1, <1>2, <1>6, <2>1 DEF RetrievalTypes
<1>11. HitsRanked'
  BY <1>1, <1>2 DEF HitsRanked, AllKept
<1>12. RankedFused'
  <2>1. stage' \in {"load", "rerank", "pack"} => ranked' # <<>>
    BY <1>2
  <2>2. ASSUME NEW i \in DOMAIN ranked' PROVE \E b \in FoundBlocks' : ranked'[i] = Fused(b)'
    <3>1. PICK b \in FoundBlocks : q[i] = Fused(b)
      BY <1>5, <1>6
    <3> QED BY <1>6, <1>8, <3>1
  <2>3. ASSUME NEW i \in DOMAIN ranked', NEW j \in DOMAIN ranked', BlockAt(i)' = BlockAt(j)' PROVE i = j
    <3>1. PICK b \in FoundBlocks, d \in FoundBlocks : q[i] = Fused(b) /\ q[j] = Fused(d)
      BY <1>5, <1>6
    <3>2. BlockAt(i)' = b /\ BlockAt(j)' = d
      BY <1>6, <1>9, <3>1 DEF BlockAt
    <3>3. q[i] = q[j]
      BY <2>3, <3>1, <3>2
    <3> QED BY <1>4, <1>6, <3>3 DEF InRank
  <2> QED BY <2>1, <2>2, <2>3 DEF RankedFused
<1>13. RanksRespected'
  <2> SUFFICES ASSUME NEW i \in DOMAIN ranked', NEW b \in Blocks, Outranks(b, BlockAt(i))'
               PROVE  \E j \in 1 .. i - 1 : BlockAt(j)' = b
    BY DEF RanksRespected
  <2>1. PICK d \in FoundBlocks : q[i] = Fused(d)
    BY <1>5, <1>6
  <2>2. BlockAt(i)' = d
    BY <1>6, <1>9, <2>1 DEF BlockAt
  <2>3. Outranks(b, d)
    BY <1>2, <2>2 DEF Outranks
  <2>4. Fused(d).score < Fused(b).score /\ Fused(b) \in HitRecords /\ Fused(d) \in HitRecords
    BY <1>1, <1>9, <2>3, OutrankingScores, FusedFacts
  <2>5. b \in FoundBlocks
    <3>1. Fused(b) # NoHit
      BY <2>4 DEF HitRecords, NoHit
    <3> QED BY <1>1, <3>1, FusedFacts
  <2>6. PICK j \in 1 .. n : q[j] = Fused(b)
    BY <1>4, <2>5 DEF InRank, FusedHits
  <2>7. j < i
    BY <1>4, <1>6, <2>1, <2>4, <2>6 DEF InRank
  <2>8. j \in DOMAIN ranked' /\ j \in 1 .. i - 1
    BY <1>7, <2>7
  <2>9. BlockAt(j)' = b
    BY <1>6, <1>9, <2>5, <2>6, <2>8 DEF BlockAt
  <2> QED BY <2>8, <2>9
<1>14. PackedOnce'
  <2> SUFFICES ASSUME stage' = "done", FoundBlocks' # {} PROVE FALSE
    BY DEF PackedOnce, FoundBlocks
  <2>1. ranked' = <<>>
    BY <1>2
  <2>2. n = 0
    BY <1>4, <1>6, <2>1
  <2>3. FusedHits # {} /\ FusedHits \in SUBSET HitRecords
    BY <1>1, <1>8, FusedHitsFacts
  <2> QED BY <1>4, <2>2, <2>3 DEF InRank
<1> QED BY <1>10, <1>11, <1>12, <1>13, <1>14 DEF RetrievalInv

-----------------------------------------------------------------------------
(* Retrieval: loading, ranking again and packing *)

\* Loading leaves the order as it is (pipeline.go hydrateStageHits).
LEMMA hydrateStep == RetrievalInv /\ hydrateStageHits => RetrievalInv'
<1> SUFFICES ASSUME RetrievalInv, hydrateStageHits PROVE RetrievalInv'
  OBVIOUS
<1>1. /\ stage = "load" /\ stage' \in {"rerank", "pack"}
      /\ loaded' \subseteq ChunksOf(ranked)
      /\ UNCHANGED <<mode, queries, denseHits, lexicalHits, ranked, rank>>
  BY DEF hydrateStageHits
<1>2. FoundBlocks' = FoundBlocks /\ \A b : Fused(b)' = Fused(b)
  BY <1>1 DEF FoundBlocks, Found, Fused
<1>3. RankedFused
  BY DEF RetrievalInv
<1>4. ChunksOf(ranked) \subseteq IndexedChunks
  <2>1. \A b \in FoundBlocks : Fused(b).chunk \in IndexedChunks
    BY FusedFacts DEF RetrievalInv, FoundBlocks, Found
  <2> QED BY <1>1, <1>3, <2>1 DEF RankedFused, ChunksOf
<1>5. RetrievalTypes'
  BY <1>1, <1>4 DEF RetrievalInv, RetrievalTypes
<1>6. HitsRanked'
  BY <1>1 DEF RetrievalInv, HitsRanked, AllKept
<1>7. RankedFused'
  BY <1>1, <1>2, <1>3 DEF RankedFused, BlockAt
<1>8. RanksRespected' /\ PackedOnce'
  BY <1>1 DEF RanksRespected, PackedOnce
<1> QED BY <1>5, <1>6, <1>7, <1>8 DEF RetrievalInv

\* The orders of a reranker: some of the places, each once.
LEMMA OrdersFacts ==
    ASSUME RetrievalTypes, NEW order \in ServiceOrders \cup FallbackOrders
    PROVE  /\ order \in Seq(DOMAIN ranked)
           /\ \A i, j \in DOMAIN order : order[i] = order[j] => i = j
           /\ ranked # <<>> => order # <<>>
<1>1. DOMAIN ranked = 1 .. Len(ranked) /\ Len(ranked) \in Nat
  BY LenProperties DEF RetrievalTypes
<1>2. CASE order \in ServiceOrders
  <2> DEFINE texts == {i \in DOMAIN ranked : ranked[i].chunk \in loaded}
             most  == IF Cardinality(texts) < RerankTopN THEN Cardinality(texts) ELSE RerankTopN
  <2>1. PICK n \in 1 .. most : order \in [1 .. n -> texts] /\ IsInjective(order)
    BY <1>2 DEF ServiceOrders
  <2>2. most \in Nat
    <3>1. IsFiniteSet(1 .. Len(ranked)) /\ texts \in SUBSET (1 .. Len(ranked))
      BY <1>1, FS_Interval
    <3>2. Cardinality(texts) \in Nat
      <4> HIDE DEF texts
      <4> QED BY <3>1, FS_Subset, FS_CardinalityType
    <3> QED BY <3>2, RetrievalAssumption
  <2>3. texts \in SUBSET DOMAIN ranked
    OBVIOUS
  <2> HIDE DEF texts, most
  <2>4. n \in Nat /\ n >= 1 /\ order \in Seq(DOMAIN ranked) /\ Len(order) = n
    BY <2>1, <2>2, <2>3
  <2>5. \A i, j \in DOMAIN order : order[i] = order[j] => i = j
    BY <2>1 DEF IsInjective
  <2> QED BY <2>4, <2>5
<1>3. CASE order \in FallbackOrders
  <2>1. PICK t \in [DOMAIN ranked -> DOMAIN ranked] : IsInjective(t) /\ order = Leading(t, RerankTopN)
    BY <1>3 DEF FallbackOrders
  <2>2. t \in Seq(DOMAIN ranked) /\ Len(t) = Len(ranked) /\ RerankTopN \in Nat /\ RerankTopN > 0
    <3>1. PICK n \in Nat : n = Len(ranked) /\ DOMAIN ranked = 1 .. n
      BY <1>1
    <3>2. t \in [1 .. n -> 1 .. n]
      BY <2>1, <3>1
    <3>3. t \in Seq(1 .. n) /\ Len(t) = n
      BY <3>1, <3>2
    <3>4. RerankTopN \in Nat /\ RerankTopN > 0
      BY RetrievalAssumption
    <3> QED BY <3>1, <3>3, <3>4
  <2>3. /\ order \in Seq(DOMAIN ranked)
        /\ \A i \in DOMAIN order : i \in DOMAIN t /\ order[i] = t[i]
        /\ Len(t) > 0 /\ RerankTopN > 0 => Len(order) > 0
    <3>1. PICK D : D = DOMAIN ranked
      OBVIOUS
    <3>2. t \in Seq(D)
      BY <2>2, <3>1
    <3>3. PICK k : k = RerankTopN
      OBVIOUS
    <3>4. order = Leading(t, k) /\ k \in Nat
      BY <2>1, <2>2, <3>3
    <3>5. /\ Leading(t, k) \in Seq(D)
          /\ \A i \in DOMAIN Leading(t, k) : i \in DOMAIN t /\ Leading(t, k)[i] = t[i]
          /\ Len(t) > 0 /\ k > 0 => Len(Leading(t, k)) > 0
      BY <3>2, <3>4, LeadingFacts
    <3> QED BY <3>1, <3>3, <3>4, <3>5, Zenon
  <2>4. \A i, j \in DOMAIN order : order[i] = order[j] => i = j
    BY <2>1, <2>3 DEF IsInjective
  <2>5. ranked # <<>> => Len(ranked) > 0
    BY <1>1, EmptySeq DEF RetrievalTypes
  <2> QED BY <2>2, <2>3, <2>4, <2>5
<1> QED BY <1>2, <1>3

\* Ranking again leaves hits of the fusion, each once (pipeline.go Rerank, reranker.go).
LEMMA RerankStep == RetrievalInv /\ Rerank => RetrievalInv'
<1> SUFFICES ASSUME RetrievalInv, Rerank PROVE RetrievalInv'
  OBVIOUS
<1>1. /\ stage = "rerank" /\ stage' = "pack"
      /\ UNCHANGED <<mode, queries, denseHits, lexicalHits, loaded, rank>>
  BY DEF Rerank
<1>2. PICK order \in ServiceOrders \cup FallbackOrders : ranked' = [i \in DOMAIN order |-> ranked[order[i]]]
  BY DEF Rerank
<1>3. RetrievalTypes /\ RankedFused
  BY DEF RetrievalInv
<1>4. /\ order \in Seq(DOMAIN ranked)
      /\ \A i, j \in DOMAIN order : order[i] = order[j] => i = j
      /\ ranked # <<>> => order # <<>>
  BY <1>3, OrdersFacts
<1>5. DOMAIN order = 1 .. Len(order) /\ Len(order) \in Nat /\ \A i \in DOMAIN order : order[i] \in DOMAIN ranked
  BY <1>4, LenProperties, ElementOfSeq
<1>6. \A i \in DOMAIN ranked : ranked[i] \in HitRecords
  BY <1>3, LenProperties, ElementOfSeq DEF RetrievalTypes
<1>7. ranked' \in Seq(HitRecords) /\ DOMAIN ranked' = DOMAIN order
      /\ \A i \in DOMAIN ranked' : ranked'[i] = ranked[order[i]] /\ order[i] \in DOMAIN ranked
  BY <1>2, <1>5, <1>6
<1>8. RetrievalTypes'
  BY <1>1, <1>3, <1>7 DEF RetrievalTypes
<1>9. HitsRanked'
  BY <1>1 DEF RetrievalInv, HitsRanked, AllKept
<1>10. FoundBlocks' = FoundBlocks /\ \A b : Fused(b)' = Fused(b)
  BY <1>1 DEF FoundBlocks, Found, Fused
<1>11. RankedFused'
  <2>1. ranked' # <<>>
    <3>1. ranked # <<>> /\ order # <<>>
      BY <1>1, <1>3, <1>4 DEF RankedFused
    <3>2. DOMAIN order # {}
      BY <1>4, <1>5, <3>1, EmptySeq
    <3> QED BY <1>7, <3>2
  <2>2. ASSUME NEW i \in DOMAIN ranked' PROVE \E b \in FoundBlocks' : ranked'[i] = Fused(b)'
    <3>1. \E b \in FoundBlocks : ranked[order[i]] = Fused(b)
      BY <1>1, <1>3, <1>7 DEF RankedFused
    <3> QED BY <1>7, <1>10, <3>1
  <2>3. ASSUME NEW i \in DOMAIN ranked', NEW j \in DOMAIN ranked', BlockAt(i)' = BlockAt(j)' PROVE i = j
    <3>1. BlockAt(order[i]) = BlockAt(order[j])
      BY <1>7, <2>3 DEF BlockAt
    <3>2. order[i] = order[j]
      BY <1>1, <1>3, <1>7, <3>1 DEF RankedFused
    <3> QED BY <1>4, <1>7, <3>2
  <2> QED BY <2>1, <2>2, <2>3 DEF RankedFused
<1>12. RanksRespected' /\ PackedOnce'
  BY <1>1 DEF RanksRespected, PackedOnce
<1> QED BY <1>8, <1>9, <1>11, <1>12 DEF RetrievalInv

\* What is packed of a sequence, hit by hit.
LEMMA PackedSteps ==
    ASSUME NEW N \in Nat, NEW hits \in [1 .. N -> HitRecords]
    PROVE  \E F \in [0 .. N -> Seq(HitRecords)] :
             /\ F[0] = <<>> /\ Packed(hits) = F[N]
             /\ \A n \in 1 .. N : F[n] = IF Fits(F[n - 1], hits[n]) THEN Append(F[n - 1], hits[n]) ELSE F[n - 1]
<1> DEFINE Is(it) == it = [t \in SUBSET DOMAIN hits |->
                             IF t = {} THEN <<>>
                             ELSE LET x == Max(t)
                                  IN  IF Fits(it[t \ {x}], hits[x]) THEN Append(it[t \ {x}], hits[x]) ELSE it[t \ {x}]]
           C == CHOOSE it : Is(it)
           T == Seq(HitRecords)
           g == [n \in 1 .. N |-> [out \in T |-> IF Fits(out, hits[n]) THEN Append(out, hits[n]) ELSE out]]
<1>1. Packed(hits) = C[DOMAIN hits] /\ DOMAIN hits = 1 .. N
  BY Zenon DEF Packed, FoldLeft, MapThenFoldSet
<1>2. /\ g \in [1 .. N -> [T -> T]] /\ <<>> \in T
      /\ \A n \in 1 .. N, out \in T : g[n][out] = IF Fits(out, hits[n]) THEN Append(out, hits[n]) ELSE out
  <2>1. ASSUME NEW n \in 1 .. N, NEW out \in T
        PROVE  (IF Fits(out, hits[n]) THEN Append(out, hits[n]) ELSE out) \in T
    OBVIOUS
  <2>2. <<>> \in T
    OBVIOUS
  <2> HIDE DEF T
  <2> QED BY <2>1, <2>2
<1> HIDE DEF g, T
<1>3. PICK it \in [SUBSET (1 .. N) -> T] :
        \A t \in SUBSET (1 .. N) : it[t] = IF t = {} THEN <<>> ELSE g[Max(t)][it[t \ {Max(t)}]]
  <2>1. FoldsBy(N, T, <<>>, g)
    BY <1>2, FoldExists
  <2> QED BY <2>1 DEF FoldsBy
<1>4. \A t \in SUBSET (1 .. N) :
        it[t] = IF t = {} THEN <<>>
                ELSE IF Fits(it[t \ {Max(t)}], hits[Max(t)]) THEN Append(it[t \ {Max(t)}], hits[Max(t)])
                ELSE it[t \ {Max(t)}]
  <2> SUFFICES ASSUME NEW t \in SUBSET (1 .. N), t # {}
               PROVE  g[Max(t)][it[t \ {Max(t)}]] =
                        IF Fits(it[t \ {Max(t)}], hits[Max(t)]) THEN Append(it[t \ {Max(t)}], hits[Max(t)])
                        ELSE it[t \ {Max(t)}]
    BY <1>3
  <2>1. Max(t) \in 1 .. N
    <3>1. t \in SUBSET (0 .. N)
      OBVIOUS
    <3> QED BY <3>1, GreatestIs
  <2>2. it[t \ {Max(t)}] \in T
    OBVIOUS
  <2> QED BY <1>2, <2>1, <2>2
<1>5. \E f : Is(f)
  <2>1. Is(it)
    BY <1>1, <1>3, <1>4
  <2> QED BY <2>1
<1>6. Is(C)
  <2> HIDE DEF Is
  <2> QED BY <1>5, Zenon
<1> HIDE DEF C
<1>7. \A t \in SUBSET (1 .. N) :
        C[t] = IF t = {} THEN <<>>
               ELSE IF Fits(C[t \ {Max(t)}], hits[Max(t)]) THEN Append(C[t \ {Max(t)}], hits[Max(t)])
               ELSE C[t \ {Max(t)}]
  BY ONLY <1>1, <1>6
<1>8. C[{}] = <<>>
  BY ONLY <1>7
<1>9. \A n \in 1 .. N : C[1 .. n - 1] \in T => C[1 .. n] = g[n][C[1 .. n - 1]]
  <2> SUFFICES ASSUME NEW n \in 1 .. N, C[1 .. n - 1] \in T PROVE C[1 .. n] = g[n][C[1 .. n - 1]]
    OBVIOUS
  <2>1. 1 .. n # {} /\ Max(1 .. n) = n /\ (1 .. n) \ {Max(1 .. n)} = 1 .. n - 1
    <3>1. n \in Nat /\ n # 0
      OBVIOUS
    <3> QED BY <3>1, Initials
  <2>2. 1 .. n \in SUBSET (1 .. N)
    OBVIOUS
  <2>3. C[1 .. n] = IF Fits(C[1 .. n - 1], hits[n]) THEN Append(C[1 .. n - 1], hits[n]) ELSE C[1 .. n - 1]
    BY <1>7, <2>1, <2>2
  <2> QED BY <1>2, <2>3
<1>10. PICK F \in [0 .. N -> T] :
         F[0] = <<>> /\ (\A n \in 1 .. N : F[n] = g[n][F[n - 1]]) /\ F[N] = C[1 .. N]
  <2>1. GoesBySteps(N, T, <<>>, g, C)
    BY <1>8, <1>9 DEF GoesBySteps
  <2>2. StepsTo(N, T, <<>>, g, C[1 .. N])
    BY <1>2, <2>1, FoldSteps
  <2> QED BY <2>2 DEF StepsTo
<1>11. ASSUME NEW n \in 1 .. N
       PROVE  F[n] = IF Fits(F[n - 1], hits[n]) THEN Append(F[n - 1], hits[n]) ELSE F[n - 1]
  <2>1. n - 1 \in 0 .. N
    OBVIOUS
  <2>2. F[n - 1] \in T
    BY <1>10, <2>1
  <2> QED BY <1>2, <1>10, <2>2
<1> QED BY <1>1, <1>10, <1>11 DEF T

\* Nothing has no length.
LEMMA NothingTotals == TotalLength(<<>>) = 0
<1>1. SumOf(<<>>) = 0
  <2>1. <<>> \in Seq(Int) /\ 0 \in Int
    OBVIOUS
  <2> QED BY <2>1, SumFacts
<1>2. [k \in DOMAIN <<>> |-> LengthOf[<<>>[k].chunk]] = <<>>
  OBVIOUS
<1> QED BY <1>1, <1>2 DEF TotalLength

\* The length of the packed text grows by that of the hit.
LEMMA TotalFacts ==
    ASSUME NEW out \in Seq(HitRecords), \A k \in DOMAIN out : out[k].chunk \in IndexedChunks,
           NEW h \in HitRecords, h.chunk \in IndexedChunks
    PROVE  /\ TotalLength(out) \in Int
           /\ TotalLength(Append(out, h)) = TotalLength(out) + LengthOf[h.chunk]
<1> DEFINE s == [k \in DOMAIN out |-> LengthOf[out[k].chunk]]
           x == LengthOf[h.chunk]
           t == Append(out, h)
<1>1. DOMAIN out = 1 .. Len(out) /\ Len(out) \in Nat
  BY LenProperties
<1>2. x \in Int /\ \A k \in DOMAIN out : LengthOf[out[k].chunk] \in Int
  <2>1. \A c \in IndexedChunks : LengthOf[c] \in Int
    BY RetrievalAssumption
  <2> QED BY <2>1
<1>3. s \in Seq(Int) /\ Len(s) = Len(out)
  <2>1. PICK M \in Nat : M = Len(out)
    BY <1>1
  <2>2. s \in [1 .. M -> Int]
    BY <1>1, <1>2, <2>1
  <2> HIDE DEF s
  <2>3. s \in Seq(Int) /\ Len(s) = M
    BY <2>2
  <2> QED BY <2>1, <2>3
<1>4. /\ Len(t) = Len(out) + 1 /\ DOMAIN t = 1 .. Len(out) + 1
      /\ \A k \in 1 .. Len(out) : t[k] = out[k]
      /\ t[Len(out) + 1] = h
  <2>1. t \in Seq(HitRecords) /\ Len(t) = Len(out) + 1
    BY AppendProperties
  <2>2. DOMAIN t = 1 .. Len(t)
    BY <2>1, LenProperties
  <2> QED BY <2>1, <2>2, AppendProperties
<1>5. [k \in DOMAIN t |-> LengthOf[t[k].chunk]] = Append(s, x)
  <2>1. /\ Append(s, x) \in Seq(Int) /\ Len(Append(s, x)) = Len(out) + 1
        /\ \A k \in 1 .. Len(out) : Append(s, x)[k] = s[k]
        /\ Append(s, x)[Len(out) + 1] = x
    BY <1>2, <1>3, AppendProperties
  <2>2. Append(s, x) = [k \in 1 .. Len(out) + 1 |-> Append(s, x)[k]]
    BY <2>1, LenProperties
  <2>3. ASSUME NEW k \in 1 .. Len(out) + 1 PROVE LengthOf[t[k].chunk] = Append(s, x)[k]
    <3>1. CASE k = Len(out) + 1
      BY <1>4, <2>1, <3>1
    <3>2. CASE k \in 1 .. Len(out)
      BY <1>1, <1>4, <2>1, <3>2
    <3> QED BY <1>1, <3>1, <3>2
  <2> HIDE DEF s, x, t
  <2> QED BY <1>4, <2>2, <2>3
<1>6. SumOf(s) \in Int /\ SumOf(<<>>) = 0 /\ SumOf(Append(s, x)) = SumOf(s) + x
  <2> HIDE DEF s, x
  <2> QED BY <1>2, <1>3, SumFacts
<1>7. TotalLength(out) = SumOf(s) /\ TotalLength(t) = SumOf(Append(s, x))
  <2>1. TotalLength(t) = SumOf([k \in DOMAIN t |-> LengthOf[t[k].chunk]])
    BY DEF TotalLength
  <2> QED BY <1>5, <2>1 DEF TotalLength
<1> QED BY <1>6, <1>7

\* What holds of the hits packed of the first n.
PackedSoFar(n, out) ==
    /\ out \in Seq(HitRecords)
    /\ \A k \in DOMAIN out : \E i \in 1 .. n : out[k] = ranked[i]
    /\ \A k \in DOMAIN out : out[k].chunk \in loaded
    /\ \A i, j \in DOMAIN out : TextOf[out[i].chunk] = TextOf[out[j].chunk] => i = j
    /\ TotalLength(out) <= ContextBudget \/ Len(out) = 1
    /\ n >= 1 /\ out = <<>> => ranked[1].chunk \notin loaded

\* One hit, packed or passed over, keeps what the packed hits are.
LEMMA PackOne ==
    ASSUME RetrievalTypes, NEW n \in DOMAIN ranked, NEW out, PackedSoFar(n - 1, out)
    PROVE  PackedSoFar(n, IF Fits(out, ranked[n]) THEN Append(out, ranked[n]) ELSE out)
<1> DEFINE h == ranked[n]
           t == Append(out, h)
<1>1. n \in Nat /\ n >= 1 /\ n - 1 \in Nat /\ h \in HitRecords /\ out \in Seq(HitRecords)
  <2>1. DOMAIN ranked = 1 .. Len(ranked) /\ Len(ranked) \in Nat /\ h \in HitRecords
    BY LenProperties, ElementOfSeq DEF RetrievalTypes
  <2> QED BY <2>1 DEF PackedSoFar
<1>2. DOMAIN out = 1 .. Len(out) /\ Len(out) \in Nat
  BY <1>1, LenProperties
<1>3. \A k \in DOMAIN out : \E i \in 1 .. n : out[k] = ranked[i]
  <2>1. \A i \in 1 .. n - 1 : i \in 1 .. n
    BY <1>1
  <2> QED BY <2>1 DEF PackedSoFar
<1>4. CASE Fits(out, h)
  <2>1. /\ t \in Seq(HitRecords) /\ Len(t) = Len(out) + 1 /\ t # <<>>
        /\ \A k \in 1 .. Len(out) : t[k] = out[k]
        /\ t[Len(out) + 1] = h
    BY <1>1, AppendProperties
  <2>2. DOMAIN t = 1 .. Len(out) + 1
    BY <2>1, LenProperties
  <2> HIDE DEF t
  <2>3. \A k \in DOMAIN t : (k \in DOMAIN out /\ t[k] = out[k]) \/ (k = Len(out) + 1 /\ t[k] = h)
    BY <1>2, <2>1, <2>2
  <2>4. \A k \in DOMAIN t : \E i \in 1 .. n : t[k] = ranked[i]
    BY <1>1, <1>3, <2>3
  <2>5. \A k \in DOMAIN t : t[k].chunk \in loaded
    BY <1>4, <2>3 DEF PackedSoFar, Fits
  <2>6. ASSUME NEW i \in DOMAIN t, NEW j \in DOMAIN t, TextOf[t[i].chunk] = TextOf[t[j].chunk] PROVE i = j
    <3>1. \A k \in DOMAIN out : TextOf[out[k].chunk] # TextOf[h.chunk]
      BY <1>4 DEF Fits, ChunksOf
    <3>2. \A k, l \in DOMAIN out : TextOf[out[k].chunk] = TextOf[out[l].chunk] => k = l
      BY DEF PackedSoFar
    <3> QED BY <2>3, <2>6, <3>1, <3>2
  <2>7. TotalLength(t) <= ContextBudget \/ Len(t) = 1
    <3>1. CASE out = <<>>
      BY <2>1, <3>1
    <3>2. CASE out # <<>>
      <4>1. TotalLength(out) + LengthOf[h.chunk] <= ContextBudget
        BY <1>4, <3>2 DEF Fits
      <4>2. h.chunk \in IndexedChunks /\ \A k \in DOMAIN out : out[k].chunk \in IndexedChunks
        BY <1>4 DEF Fits, PackedSoFar, RetrievalTypes
      <4>3. TotalLength(t) = TotalLength(out) + LengthOf[h.chunk]
        BY <1>1, <4>2, TotalFacts DEF t
      <4> QED BY <4>1, <4>3
    <3> QED BY <3>1, <3>2
  <2>8. PackedSoFar(n, t)
    BY <2>1, <2>4, <2>5, <2>6, <2>7 DEF PackedSoFar
  <2> QED BY <1>4, <2>8 DEF t
<1>5. CASE ~ Fits(out, h)
  <2>1. ASSUME out = <<>> PROVE ranked[1].chunk \notin loaded
    <3>1. CASE n = 1
      <4>1. ChunksOf(out) = {} /\ Len(out) < EvidenceTopK
        BY <2>1, RetrievalAssumption DEF ChunksOf
      <4> QED BY <1>5, <2>1, <3>1, <4>1 DEF Fits
    <3>2. CASE n # 1
      <4>1. n - 1 >= 1
        BY <1>1, <3>2
      <4> QED BY <2>1, <4>1 DEF PackedSoFar
    <3> QED BY <3>1, <3>2
  <2>2. PackedSoFar(n, out)
    BY <1>1, <1>3, <2>1 DEF PackedSoFar
  <2> QED BY <1>5, <2>2
<1> QED BY <1>4, <1>5

\* What is packed of all hits is what one hit after the other leaves.
LEMMA PackedFacts ==
    ASSUME RetrievalTypes
    PROVE  PackedSoFar(Len(ranked), Packed(ranked))
<1>1. PICK N \in Nat : N = Len(ranked) /\ ranked \in [1 .. N -> HitRecords]
  <2>1. Len(ranked) \in Nat /\ ranked \in [1 .. Len(ranked) -> HitRecords]
    BY LenProperties DEF RetrievalTypes
  <2> QED BY <2>1
<1>2. PICK F \in [0 .. N -> Seq(HitRecords)] :
        /\ F[0] = <<>> /\ Packed(ranked) = F[N]
        /\ \A n \in 1 .. N : F[n] = IF Fits(F[n - 1], ranked[n]) THEN Append(F[n - 1], ranked[n]) ELSE F[n - 1]
  BY <1>1, PackedSteps
<1>3. PackedSoFar(0, F[0])
  <2>1. TotalLength(<<>>) = 0
    BY NothingTotals
  <2>2. 0 <= ContextBudget
    BY RetrievalAssumption
  <2>3. <<>> \in Seq(HitRecords) /\ DOMAIN <<>> = {}
    OBVIOUS
  <2> QED BY <1>2, <2>1, <2>2, <2>3 DEF PackedSoFar
<1>4. ASSUME NEW n \in 0 .. N PROVE PackedSoFar(n, F[n])
  <2> DEFINE Bad == {m \in 0 .. N : ~ PackedSoFar(m, F[m])}
  <2>1. CASE Bad # {}
    <3>1. PICK m \in Bad : \A k \in Bad : m <= k
      <4>1. Bad \in SUBSET Nat
        OBVIOUS
      <4> HIDE DEF Bad
      <4> QED BY <2>1, <4>1, LeastExists
    <3>2. m # 0 /\ m \in 0 .. N
      BY <1>3
    <3>3. m \in 1 .. N /\ m - 1 \in 0 .. N /\ ~ m <= m - 1
      BY <3>2
    <3>4. PackedSoFar(m - 1, F[m - 1])
      BY <3>1, <3>3
    <3>5. m \in DOMAIN ranked
      BY <1>1, <3>3
    <3>6. PackedSoFar(m, IF Fits(F[m - 1], ranked[m]) THEN Append(F[m - 1], ranked[m]) ELSE F[m - 1])
      BY <3>4, <3>5, PackOne
    <3>7. PackedSoFar(m, F[m])
      BY <1>2, <3>3, <3>6
    <3> QED BY <3>7
  <2> QED BY <2>1
<1> QED BY <1>1, <1>2, <1>4

\* The packed hits are of different blocks and texts, loaded, and fit; one at least is
\* packed when any was loaded (pipeline.go packStageHits).
LEMMA packStep == RetrievalInv /\ packStageHits => RetrievalInv'
<1> SUFFICES ASSUME RetrievalInv, packStageHits PROVE RetrievalInv'
  OBVIOUS
<1>1. /\ stage = "pack" /\ stage' = "done" /\ ranked' = Packed(ranked)
      /\ UNCHANGED <<mode, queries, denseHits, lexicalHits, loaded, rank>>
  BY DEF packStageHits
<1>2. RetrievalTypes /\ RankedFused
  BY DEF RetrievalInv
<1>3. PackedSoFar(Len(ranked), ranked')
  BY <1>1, <1>2, PackedFacts
<1>4. DOMAIN ranked = 1 .. Len(ranked) /\ Len(ranked) \in Nat
  BY <1>2, LenProperties DEF RetrievalTypes
<1>5. RetrievalTypes'
  BY <1>1, <1>2, <1>3 DEF RetrievalTypes, PackedSoFar
<1>6. HitsRanked'
  BY <1>1 DEF RetrievalInv, HitsRanked, AllKept
<1>7. RankedFused' /\ RanksRespected'
  BY <1>1 DEF RankedFused, RanksRespected
<1>8. /\ ranked # <<>>
      /\ \A i \in DOMAIN ranked : \E b \in FoundBlocks : ranked[i] = Fused(b)
      /\ \A i, j \in DOMAIN ranked : BlockAt(i) = BlockAt(j) => i = j
  BY <1>1, <1>2 DEF RankedFused
<1>9. PackedOnce'
  <2>1. ASSUME NEW i \in DOMAIN ranked', NEW j \in DOMAIN ranked',
               BlockAt(i)' = BlockAt(j)' \/ TextOf[ranked'[i].chunk] = TextOf[ranked'[j].chunk]
        PROVE  i = j
    <3>1. PICK k \in DOMAIN ranked, l \in DOMAIN ranked : ranked'[i] = ranked[k] /\ ranked'[j] = ranked[l]
      BY <1>3, <1>4 DEF PackedSoFar
    <3>2. BlockAt(i)' = BlockAt(j)' => k = l
      BY <1>8, <3>1 DEF BlockAt
    <3>3. TextOf[ranked'[i].chunk] = TextOf[ranked'[j].chunk]
      BY <2>1, <3>1, <3>2
    <3> QED BY <1>3, <3>3 DEF PackedSoFar
  <2>2. ChunksOf(ranked') \subseteq loaded
    BY <1>3 DEF PackedSoFar, ChunksOf
  <2>3. TotalLength(ranked') <= ContextBudget \/ Len(ranked') = 1
    BY <1>3 DEF PackedSoFar
  <2>4. ASSUME ranked' = <<>> PROVE \E b \in Blocks : Fused(b) # NoHit /\ Fused(b).chunk \notin loaded
    <3>1. 1 \in DOMAIN ranked /\ Len(ranked) >= 1
      BY <1>2, <1>4, <1>8, EmptySeq DEF RetrievalTypes
    <3>2. ranked[1].chunk \notin loaded
      BY <1>3, <2>4, <3>1 DEF PackedSoFar
    <3>3. PICK b \in FoundBlocks : ranked[1] = Fused(b)
      BY <1>8, <3>1
    <3>4. b \in Blocks /\ Fused(b) # NoHit
      BY <1>2, <3>3, FusedFacts DEF RetrievalInv, FoundBlocks, Found
    <3> QED BY <3>2, <3>3, <3>4
  <2>5. \A b : Fused(b)' = Fused(b)
    BY <1>1 DEF Fused
  <2> QED BY <1>1, <2>1, <2>2, <2>3, <2>4, <2>5 DEF PackedOnce
<1> QED BY <1>5, <1>6, <1>7, <1>9 DEF RetrievalInv

\* Every stage of the pipeline keeps its invariant.
LEMMA RetrievalStep == RetrievalInv /\ [RetrievalNext]_retrievalVars => RetrievalInv'
<1> SUFFICES ASSUME RetrievalInv, [RetrievalNext]_retrievalVars PROVE RetrievalInv'
  OBVIOUS
<1>1. CASE UNCHANGED retrievalVars
  <2>1. UNCHANGED <<mode, stage, queries, denseHits, lexicalHits, ranked, loaded, rank>>
    BY <1>1 DEF retrievalVars
  <2>2. FoundBlocks' = FoundBlocks /\ \A b : Fused(b)' = Fused(b)
    BY <2>1 DEF FoundBlocks, Found, Fused
  <2>3. RetrievalTypes' /\ HitsRanked'
    BY <2>1 DEF RetrievalInv, RetrievalTypes, HitsRanked, AllKept
  <2>4. RankedFused'
    BY <2>1, <2>2 DEF RetrievalInv, RankedFused, BlockAt
  <2>5. RanksRespected'
    BY <2>1 DEF RetrievalInv, RanksRespected, Outranks, BlockAt
  <2>6. PackedOnce'
    BY <2>1, <2>2 DEF RetrievalInv, PackedOnce, BlockAt
  <2> QED BY <2>3, <2>4, <2>5, <2>6 DEF RetrievalInv
<1> QED BY <1>1, SearchStep, FuseStep, hydrateStep, RerankStep, packStep DEF RetrievalNext

\* The hits of the searches and of the result are chunks of the index, one of a block.
THEOREM RetrievalTypeCorrect == RetrievalSpec => []RetrievalTypeOK
<1>1. RetrievalInv => RetrievalTypeOK
  <2> SUFFICES ASSUME RetrievalInv PROVE RetrievalTypeOK
    OBVIOUS
  <2>1. \A b \in Blocks : denseHits[b].chunk \in DenseChunks \cup {0} /\ lexicalHits[b].chunk \in LexicalChunks \cup {0}
    BY DEF RetrievalInv, HitsRanked, AllKept, HitKept, NoHit
  <2> QED BY <2>1 DEF RetrievalInv, RetrievalTypes, RetrievalTypeOK
<1> QED BY RetrievalInitially, RetrievalStep, <1>1, PTL DEF RetrievalSpec

\* The evidence is the best there is and none of it counts twice, whatever the searches
\* find, the database has lost and the reranker returns.
THEOREM BestEvidenceCorrect == RetrievalSpec => []BestEvidence
<1>1. RetrievalInv => BestEvidence
  BY DEF RetrievalInv, BestEvidence
<1> QED BY RetrievalInitially, RetrievalStep, <1>1, PTL DEF RetrievalSpec

-----------------------------------------------------------------------------
(* Exchanges: what the proofs rest on *)

\* The shapes of the variables: a request has the locals its place relies on.
ChatHashes == (ChatBooks \X ({0} \cup Conversations)) \cup {"none"}
ChatRecords == [state : RecordStates, hash : ChatHashes, result : Conversations \cup {"none"}]
ConversationRows == [book : ChatBooks \cup {"none"}, title : Titles \cup {"none"}]
Recording == {"look", "insert"}
Placed == {"answer", "save"}
ChatLocals ==
    {l \in [pc : Recording \cup Placed \cup {"idle", "ensure"}, key : ChatKeys \cup {"none"},
            conv : Conversations \cup {0}, book : ChatBooks \cup {"none"}, title : Titles \cup {"none"},
            create : BOOLEAN] :
        /\ l.pc \in Recording => l.key \in ChatKeys
        /\ l.pc # "idle" => l.book \in ChatBooks
        /\ l.pc \in Placed => l.conv \in Conversations
        /\ l.pc \notin Placed /\ l.create => l.conv = 0
        /\ l.pc # "idle" /\ ~ l.create => l.conv \in Conversations
        /\ l.pc = "idle" => l.conv = 0}
ChatTypes ==
    /\ chatRecord \in [ChatKeys -> ChatRecords]
    /\ conversation \in [Conversations -> ConversationRows]
    /\ exchange \subseteq [conv : Conversations, book : ChatBooks, n : Nat]
    /\ bookRow \in [ChatBooks -> {"ready", "deleted", "gone"}]
    /\ chatCall \in [ChatCalls -> ChatLocals]
    /\ removing \in ChatBooks \cup {"none"} /\ late \subseteq Conversations
    /\ saves \in Seq(ChatKeys \cup {"none"})

\* A request past its record is the only one of its key, the record says so, and no exchange
\* was saved for the key.
Asks(c, k) == chatCall[c].pc \in {"ensure", "answer", "save"} /\ chatCall[c].key = k
Unsaved(k) == \A i \in DOMAIN saves : saves[i] # k
OneExchange(k) ==
    /\ \A c \in ChatCalls : Asks(c, k) => /\ chatRecord[k].state = "processing" /\ Unsaved(k)
                                          /\ \A d \in ChatCalls : Asks(d, k) => d = c
    /\ chatRecord[k].state = "none" => Unsaved(k)
OneExchanges == \A k \in ChatKeys : OneExchange(k)

\* The conversation a request makes is its own, and new; a request about a conversation has
\* its book, as long as the conversation is there.
Makes(c) == chatCall[c].create /\ chatCall[c].pc \in Placed
Placing(c) ==
    LET v == chatCall[c].conv
    IN  /\ Makes(c) => /\ ~ Exists(v) /\ \A e \in exchange : e.conv # v
                       /\ \A d \in ChatCalls : chatCall[d].conv = v => d = c
        /\ ~ chatCall[c].create /\ chatCall[c].pc # "idle" /\ Exists(v) => conversation[v].book = chatCall[c].book
Placings == \A c \in ChatCalls : Placing(c)

\* While a book is being removed, only late conversations are about it.
Removals == \A v \in Conversations \ late : Exists(v) => conversation[v].book # removing

-----------------------------------------------------------------------------
(* Exchanges: the operators of the model *)

\* A request goes on with its locals.
LEMMA ChatGoFacts ==
    ASSUME ChatTypes, NEW c \in ChatCalls, NEW pc, ChatGo(c, pc)
    PROVE  /\ chatCall'[c].pc = pc /\ chatCall'[c].key = chatCall[c].key /\ chatCall'[c].conv = chatCall[c].conv
           /\ chatCall'[c].book = chatCall[c].book /\ chatCall'[c].create = chatCall[c].create
           /\ \A d \in ChatCalls : d # c => chatCall'[d] = chatCall[d]
           /\ chatCall[c].pc \in Recording /\ pc \in {"insert", "ensure"} => chatCall' \in [ChatCalls -> ChatLocals]
           /\ chatCall[c].pc \in Placed /\ pc \in Placed => chatCall' \in [ChatCalls -> ChatLocals]
<1>1. PICK l : l = [chatCall[c] EXCEPT !.pc = pc]
  OBVIOUS
<1>2. chatCall' = [chatCall EXCEPT ![c] = l] /\ chatCall[c] \in ChatLocals
  BY <1>1 DEF ChatTypes, ChatGo
<1>3. /\ l.pc = pc /\ l.key = chatCall[c].key /\ l.conv = chatCall[c].conv
      /\ l.book = chatCall[c].book /\ l.create = chatCall[c].create
  BY <1>1, <1>2 DEF ChatLocals
<1>4. /\ chatCall[c].pc \in Recording /\ pc \in {"insert", "ensure"} => l \in ChatLocals
      /\ chatCall[c].pc \in Placed /\ pc \in Placed => l \in ChatLocals
  BY <1>1, <1>2 DEF ChatLocals, Recording, Placed
<1> QED BY <1>2, <1>3, <1>4 DEF ChatTypes

\* A request ends.
LEMMA ChatReturnFacts ==
    ASSUME ChatTypes, NEW c \in ChatCalls, ChatReturn(c)
    PROVE  /\ chatCall' \in [ChatCalls -> ChatLocals] /\ chatCall'[c].pc = "idle" /\ chatCall'[c].conv = 0
           /\ \A d \in ChatCalls : d # c => chatCall'[d] = chatCall[d]
BY DEF ChatTypes, ChatLocals, ChatReturn, NoChatCall, Recording, Placed

\* A request starts.
LEMMA ChatStartFacts ==
    ASSUME ChatTypes, NEW c \in ChatCalls, handleChats(c)
    PROVE  /\ chatCall' \in [ChatCalls -> ChatLocals]
           /\ chatCall'[c].pc \in {"look", "ensure"} /\ (chatCall'[c].pc = "ensure" => chatCall'[c].key = "none")
           /\ \/ chatCall'[c].create /\ chatCall'[c].conv = 0
              \/ /\ ~ chatCall'[c].create /\ chatCall'[c].conv \in Conversations /\ Exists(chatCall'[c].conv)
                 /\ chatCall'[c].book = conversation[chatCall'[c].conv].book
           /\ \A d \in ChatCalls : d # c => chatCall'[d] = chatCall[d]
<1>1. PICK k \in ChatKeys \cup {"none"}, b \in ChatBooks, v \in {0} \cup {w \in Conversations : Exists(w)} :
        /\ ChatAt(c, "idle") /\ Total < MaxExchanges
        /\ bookRow[ResolvedBook(v, b)] = "ready"
        /\ chatCall' = [chatCall EXCEPT ![c] =
                          [pc |-> IF k = "none" THEN "ensure" ELSE "look", key |-> k, conv |-> v,
                           book |-> ResolvedBook(v, b), title |-> "none", create |-> v = 0]]
        /\ UNCHANGED <<chatRecord, conversation, exchange, bookRow, removing, saves, late>>
  BY Zenon DEF handleChats
<1>2. PICK l : l = [pc |-> IF k = "none" THEN "ensure" ELSE "look", key |-> k, conv |-> v,
                    book |-> ResolvedBook(v, b), title |-> "none", create |-> v = 0]
  OBVIOUS
<1>3. chatCall' = [chatCall EXCEPT ![c] = l]
  BY <1>1, <1>2
<1>4. /\ l.pc = (IF k = "none" THEN "ensure" ELSE "look") /\ l.key = k /\ l.conv = v
      /\ l.book = ResolvedBook(v, b) /\ l.create = (v = 0)
  BY <1>2, Zenon
<1>5. ResolvedBook(v, b) \in ChatBooks /\ (v # 0 => ResolvedBook(v, b) = conversation[v].book)
  BY <1>1 DEF ResolvedBook, Exists, ChatTypes, ConversationRows
<1>6. l \in ChatLocals
  <2>1. (v = 0) \in BOOLEAN
    BY Zenon
  <2>2. PICK book \in ChatBooks, create \in BOOLEAN : book = ResolvedBook(v, b) /\ create = (v = 0)
    BY <1>5, <2>1
  <2>3. l = [pc |-> IF k = "none" THEN "ensure" ELSE "look", key |-> k, conv |-> v,
             book |-> book, title |-> "none", create |-> create]
    BY <1>2, <2>2
  <2>4. create => v = 0
    BY <2>2, Zenon
  <2>5. ~ create => v \in Conversations
    BY <1>1, <2>2
  <2> QED BY <2>3, <2>4, <2>5 DEF ChatLocals, Recording, Placed
<1>7. 0 \notin Conversations
  BY ChatExchangeAssumption
<1>8. chatCall'[c] = l /\ chatCall' \in [ChatCalls -> ChatLocals] /\ \A d \in ChatCalls : d # c => chatCall'[d] = chatCall[d]
  BY <1>3, <1>6 DEF ChatTypes
<1> QED BY <1>1, <1>4, <1>5, <1>7, <1>8

\* A request finds its conversation, or takes an id that no row, exchange or request has.
LEMMA EnsureFacts ==
    ASSUME ChatTypes, NEW c \in ChatCalls, ensureConversation(c)
    PROVE  \/ ChatReturn(c)
           \/ /\ chatCall' \in [ChatCalls -> ChatLocals]
              /\ chatCall'[c].pc = "answer" /\ chatCall'[c].key = chatCall[c].key
              /\ chatCall'[c].book = chatCall[c].book /\ chatCall'[c].create = chatCall[c].create
              /\ \A d \in ChatCalls : d # c => chatCall'[d] = chatCall[d]
              /\ \/ ~ chatCall[c].create /\ chatCall'[c].conv = chatCall[c].conv
                 \/ chatCall[c].create /\ chatCall'[c].conv \in UnusedConversation
<1>1. chatCall[c].pc = "ensure" /\ chatCall[c] \in ChatLocals
  BY DEF ensureConversation, ChatAt, ChatTypes
<1>2. CASE ~ chatCall[c].create /\ Exists(chatCall[c].conv)
           /\ chatCall' = [chatCall EXCEPT ![c].pc = "answer", ![c].title = conversation[chatCall[c].conv].title]
  <2>1. chatCall[c].conv \in Conversations
    BY <1>1, <1>2 DEF ChatLocals
  <2>2. PICK t \in Titles \cup {"none"} : t = conversation[chatCall[c].conv].title
    BY <2>1 DEF ChatTypes, ConversationRows
  <2>3. PICK l : l = [chatCall[c] EXCEPT !.pc = "answer", !.title = t]
    OBVIOUS
  <2>4. chatCall' = [chatCall EXCEPT ![c] = l]
    BY <1>2, <2>2, <2>3 DEF ChatTypes
  <2>5. /\ l \in ChatLocals /\ l.pc = "answer" /\ l.key = chatCall[c].key /\ l.book = chatCall[c].book
        /\ l.create = chatCall[c].create /\ l.conv = chatCall[c].conv
    BY <1>1, <1>2, <2>1, <2>3 DEF ChatLocals, Recording, Placed
  <2> QED BY <1>2, <2>4, <2>5 DEF ChatTypes
<1>3. CASE chatCall[c].create /\ UnusedConversation # {}
           /\ LET w == CHOOSE w \in UnusedConversation : \A u \in UnusedConversation : w <= u
              IN  chatCall' = [chatCall EXCEPT ![c].pc = "answer", ![c].conv = w, ![c].title = "first"]
  <2> DEFINE First(w) == \A u \in UnusedConversation : w <= u
             w0 == CHOOSE w \in UnusedConversation : First(w)
  <2>1. UnusedConversation \in SUBSET Nat /\ UnusedConversation \subseteq Conversations
    BY ChatExchangeAssumption DEF UnusedConversation
  <2>2. \E w \in UnusedConversation : First(w)
    BY <1>3, <2>1, LeastExists
  <2>3. chatCall' = [chatCall EXCEPT ![c].pc = "answer", ![c].conv = w0, ![c].title = "first"]
    BY <1>3
  <2>4. w0 \in UnusedConversation
    <3> HIDE DEF First
    <3> QED BY <2>2
  <2> HIDE DEF First, w0
  <2>5. PICK v \in Conversations : v = w0
    BY <2>1, <2>4
  <2>6. PICK l : l = [chatCall[c] EXCEPT !.pc = "answer", !.conv = v, !.title = "first"]
    OBVIOUS
  <2>7. chatCall' = [chatCall EXCEPT ![c] = l]
    BY <2>3, <2>5, <2>6 DEF ChatTypes
  <2>8. /\ l \in ChatLocals /\ l.pc = "answer" /\ l.key = chatCall[c].key /\ l.book = chatCall[c].book
        /\ l.create = chatCall[c].create /\ l.conv = v
    BY <1>1, <1>3, <2>6 DEF ChatLocals, Recording, Placed, Titles
  <2>9. chatCall \in [ChatCalls -> ChatLocals]
    BY DEF ChatTypes
  <2>10. /\ chatCall' \in [ChatCalls -> ChatLocals] /\ chatCall'[c] = l
         /\ \A d \in ChatCalls : d # c => chatCall'[d] = chatCall[d]
    BY <2>7, <2>8, <2>9
  <2>11. l.conv \in UnusedConversation
    BY <2>4, <2>5, <2>8
  <2> QED BY <1>3, <2>8, <2>10, <2>11, Zenon
<1> QED BY <1>2, <1>3 DEF ensureConversation

\* An exchange is saved: its conversation has its book.
LEMMA SaveExchangeFacts ==
    ASSUME ChatTypes, NEW c \in ChatCalls, SaveConversationExchange(c)
    PROVE  LET v == chatCall[c].conv IN
           /\ chatCall[c].pc = "save" /\ v \in Conversations /\ chatCall[c].book \in ChatBooks
           /\ conversation' \in [Conversations -> ConversationRows]
           /\ \A w \in Conversations : w # v => conversation'[w] = conversation[w]
           /\ conversation'[v].book = IF chatCall[c].create THEN chatCall[c].book ELSE conversation[v].book
<1>1. chatCall[c].pc = "save" /\ chatCall[c] \in ChatLocals
  BY DEF SaveConversationExchange, ChatAt, ChatTypes
<1>2. PICK v \in Conversations, b \in ChatBooks, t \in Titles \cup {"none"}, new \in BOOLEAN :
        v = chatCall[c].conv /\ b = chatCall[c].book /\ t = chatCall[c].title /\ new = chatCall[c].create
  BY <1>1 DEF ChatLocals, Placed
<1>3. PICK row : row = [conversation[v] EXCEPT !.book = IF new THEN b ELSE conversation[v].book, !.title = t]
  OBVIOUS
<1>4. conversation' = [conversation EXCEPT ![v] = row]
  BY <1>2, <1>3 DEF SaveConversationExchange, ChatTypes
<1>5. row \in ConversationRows /\ row.book = IF new THEN b ELSE conversation[v].book
  BY <1>2, <1>3, ZenonT(30) DEF ChatTypes, ConversationRows
<1> QED BY <1>1, <1>2, <1>4, <1>5 DEF ChatTypes

\* A conversation is renamed.
LEMMA RenameFacts ==
    ASSUME ChatTypes, NEW v \in Conversations, conversation' = [conversation EXCEPT ![v].title = "renamed"]
    PROVE  /\ conversation' \in [Conversations -> ConversationRows]
           /\ \A w \in Conversations : conversation'[w].book = conversation[w].book
BY DEF ChatTypes, ConversationRows, Titles

-----------------------------------------------------------------------------
(* Exchanges: the steps *)

\* Every step keeps the shapes.
LEMMA ChatTypesStep ==
    ASSUME ChatTypes, [ChatExchangeNext]_chatVars
    PROVE  ChatTypes'
<1>1. /\ chatRecord \in [ChatKeys -> ChatRecords] /\ conversation \in [Conversations -> ConversationRows]
      /\ exchange \subseteq [conv : Conversations, book : ChatBooks, n : Nat]
      /\ bookRow \in [ChatBooks -> {"ready", "deleted", "gone"}] /\ chatCall \in [ChatCalls -> ChatLocals]
      /\ removing \in ChatBooks \cup {"none"} /\ late \subseteq Conversations
      /\ saves \in Seq(ChatKeys \cup {"none"})
      /\ \A c \in ChatCalls : chatCall[c] \in ChatLocals
  BY DEF ChatTypes
<1>h. ASSUME NEW c \in ChatCalls, chatCall[c].pc # "idle"
      PROVE  RequestHash(c) \in ChatHashes
  <2>1. PICK b \in ChatBooks, v \in {0} \cup Conversations : b = chatCall[c].book /\ v = chatCall[c].conv
    BY <1>1, <1>h DEF ChatLocals
  <2>2. RequestHash(c) = <<b, IF chatCall[c].create THEN 0 ELSE v>>
    BY <2>1 DEF RequestHash
  <2> QED BY <2>2 DEF ChatHashes
<1>c. ASSUME chatCall' \in [ChatCalls -> ChatLocals],
             UNCHANGED <<chatRecord, conversation, exchange, bookRow, removing, saves, late>>
      PROVE  ChatTypes'
  BY <1>1, <1>c DEF ChatTypes
<1>2. ASSUME NEW c \in ChatCalls, handleChats(c) PROVE ChatTypes'
  BY <1>2, <1>c, ChatStartFacts DEF handleChats
<1>3. ASSUME NEW c \in ChatCalls, beginChatIdempotency(c) PROVE ChatTypes'
  BY <1>3, <1>c, ChatGoFacts, ChatReturnFacts DEF beginChatIdempotency, ChatAt, Recording
<1>4. ASSUME NEW c \in ChatCalls, SaveChatIdempotencyRecord(c) PROVE ChatTypes'
  <2>1. chatCall[c].pc = "insert" /\ UNCHANGED <<conversation, exchange, bookRow, removing, saves, late>>
    BY <1>4 DEF SaveChatIdempotencyRecord, ChatAt
  <2>2. Processing(RequestHash(c)) \in ChatRecords
    BY <1>h, <2>1 DEF Processing, ChatRecords, RecordStates
  <2>3. chatRecord' \in [ChatKeys -> ChatRecords]
    BY <1>1, <1>4, <2>2 DEF SaveChatIdempotencyRecord
  <2>4. chatCall' \in [ChatCalls -> ChatLocals]
    BY <1>4, <2>1, ChatGoFacts, ChatReturnFacts DEF SaveChatIdempotencyRecord, Recording
  <2> QED BY <1>1, <2>1, <2>3, <2>4 DEF ChatTypes
<1>5. ASSUME NEW c \in ChatCalls, ensureConversation(c) PROVE ChatTypes'
  BY <1>5, <1>c, EnsureFacts, ChatReturnFacts DEF ensureConversation
<1>6. ASSUME NEW c \in ChatCalls, AnswerQuestion(c) PROVE ChatTypes'
  BY <1>6, <1>c, ChatGoFacts DEF AnswerQuestion, ChatAt, Placed
<1>7. ASSUME NEW c \in ChatCalls, ChatFails(c) PROVE ChatTypes'
  BY <1>7, <1>c, ChatReturnFacts DEF ChatFails
<1>8. ASSUME NEW c \in ChatCalls, SaveConversationExchange(c) PROVE ChatTypes'
  <2>1. /\ chatCall[c].pc = "save" /\ chatCall[c].conv \in Conversations /\ chatCall[c].book \in ChatBooks
        /\ conversation' \in [Conversations -> ConversationRows]
    BY <1>8, SaveExchangeFacts
  <2>2. /\ ChatReturn(c) /\ UNCHANGED <<bookRow, removing>> /\ saves' = Append(saves, chatCall[c].key)
        /\ exchange' = exchange \cup {[conv |-> chatCall[c].conv, book |-> chatCall[c].book, n |-> Len(saves)]}
        /\ chatRecord' = IF chatCall[c].key = "none" THEN chatRecord
                         ELSE [chatRecord EXCEPT ![chatCall[c].key] = Completed(RequestHash(c), chatCall[c].conv)]
        /\ late' = IF removing = chatCall[c].book THEN late \cup {chatCall[c].conv} ELSE late
    BY <1>8 DEF SaveConversationExchange, Total
  <2>3. chatCall[c].key \in ChatKeys \cup {"none"}
    BY <1>1 DEF ChatLocals
  <2>4. saves' \in Seq(ChatKeys \cup {"none"}) /\ Len(saves) \in Nat
    BY <1>1, <2>2, <2>3
  <2>5. exchange' \subseteq [conv : Conversations, book : ChatBooks, n : Nat]
    BY <1>1, <2>1, <2>2, <2>4
  <2>6. Completed(RequestHash(c), chatCall[c].conv) \in ChatRecords
    BY <1>h, <2>1 DEF Completed, ChatRecords, RecordStates
  <2>7. chatRecord' \in [ChatKeys -> ChatRecords]
    BY <1>1, <2>2, <2>3, <2>6
  <2>8. late' \subseteq Conversations
    BY <1>1, <2>1, <2>2
  <2>9. chatCall' \in [ChatCalls -> ChatLocals]
    BY <2>2, ChatReturnFacts
  <2> QED BY <1>1, <2>1, <2>2, <2>4, <2>5, <2>7, <2>8, <2>9 DEF ChatTypes
<1>9. ASSUME NEW c \in ChatCalls, RenameConversation(c) PROVE ChatTypes'
  <2>1. conversation' \in [Conversations -> ConversationRows]
    BY <1>9, RenameFacts DEF RenameConversation
  <2> QED BY <1>1, <1>9, <2>1 DEF RenameConversation, ChatTypes
<1>10. ASSUME NEW c \in ChatCalls, DeleteConversation(c) PROVE ChatTypes'
  <2>1. NoConversation \in ConversationRows
    BY DEF NoConversation, ConversationRows
  <2> QED BY <1>1, <1>10, <2>1 DEF DeleteConversation, ChatTypes
<1>11. ASSUME NEW b \in ChatBooks, MarkBookRowDeleted(b) \/ RemoveBook(b) PROVE ChatTypes'
  BY <1>1, <1>11 DEF MarkBookRowDeleted, RemoveBook, ChatTypes
<1>12. ASSUME NEW b \in ChatBooks, RemoveConversations(b) PROVE ChatTypes'
  <2>1. NoConversation \in ConversationRows
    BY DEF NoConversation, ConversationRows
  <2>2. conversation' \in [Conversations -> ConversationRows]
    BY <1>1, <1>12, <2>1 DEF RemoveConversations
  <2> QED BY <1>1, <1>12, <2>2 DEF RemoveConversations, ChatTypes
<1>13. CASE UNCHANGED chatVars
  BY <1>1, <1>13 DEF chatVars, ChatTypes
<1> QED
  BY <1>2, <1>3, <1>4, <1>5, <1>6, <1>7, <1>8, <1>9, <1>10, <1>11, <1>12, <1>13 DEF ChatExchangeNext

\* A key saves one exchange.
LEMMA OneExchangesStep ==
    ASSUME ChatTypes, OneExchanges, OneAnswerPerKey, [ChatExchangeNext]_chatVars
    PROVE  OneExchanges' /\ OneAnswerPerKey'
<1>1. chatRecord \in [ChatKeys -> ChatRecords] /\ saves \in Seq(ChatKeys \cup {"none"})
      /\ \A c \in ChatCalls : chatCall[c] \in ChatLocals
  BY DEF ChatTypes
<1>2. \A k \in ChatKeys : OneExchange(k)
  BY DEF OneExchanges
<1>q. ASSUME NEW k \in ChatKeys, chatRecord'[k] = chatRecord[k], Unsaved(k) => Unsaved(k)',
             \A d \in ChatCalls : Asks(d, k)' => Asks(d, k)
      PROVE  OneExchange(k)'
  BY <1>2, <1>q DEF OneExchange
<1>o. ASSUME NEW c \in ChatCalls, NEW k, \A d \in ChatCalls : d # c => chatCall'[d] = chatCall[d],
             \/ chatCall'[c].pc \notin {"ensure", "answer", "save"}
             \/ chatCall'[c].key # k
             \/ chatCall'[c].key = chatCall[c].key /\ chatCall[c].pc \in {"ensure", "answer", "save"}
      PROVE  \A d \in ChatCalls : Asks(d, k)' => Asks(d, k)
  BY <1>o DEF Asks
\* A step that saves no exchange and writes no record.
<1>n. ASSUME UNCHANGED <<chatRecord, saves>>, \A k \in ChatKeys : \A d \in ChatCalls : Asks(d, k)' => Asks(d, k)
      PROVE  OneExchanges' /\ OneAnswerPerKey'
  <2>1. OneAnswerPerKey'
    BY <1>n DEF OneAnswerPerKey
  <2>2. \A k \in ChatKeys : OneExchange(k)'
    BY <1>n, <1>q DEF Unsaved
  <2> QED BY <2>1, <2>2 DEF OneExchanges
<1>c. ASSUME UNCHANGED <<chatRecord, saves>>, NEW c \in ChatCalls, \A d \in ChatCalls : d # c => chatCall'[d] = chatCall[d],
             \/ chatCall'[c].pc \notin {"ensure", "answer", "save"}
             \/ chatCall'[c].key \notin ChatKeys
             \/ chatCall'[c].key = chatCall[c].key /\ chatCall[c].pc \in {"ensure", "answer", "save"}
      PROVE  OneExchanges' /\ OneAnswerPerKey'
  <2>1. ASSUME NEW k \in ChatKeys PROVE \A d \in ChatCalls : Asks(d, k)' => Asks(d, k)
    BY <1>c, <1>o
  <2> QED BY <1>c, <1>n, <2>1
<1>3. ASSUME NEW c \in ChatCalls, handleChats(c) PROVE OneExchanges' /\ OneAnswerPerKey'
  <2>1. UNCHANGED <<chatRecord, saves>>
    BY <1>3 DEF handleChats
  <2>2. "none" \notin ChatKeys
    BY ChatExchangeAssumption
  <2> QED BY <1>3, <1>c, <2>1, <2>2, ChatStartFacts
<1>4. ASSUME NEW c \in ChatCalls, beginChatIdempotency(c) PROVE OneExchanges' /\ OneAnswerPerKey'
  <2>1. UNCHANGED <<chatRecord, saves>> /\ (ChatGo(c, "insert") \/ ChatReturn(c))
    BY <1>4 DEF beginChatIdempotency
  <2> QED BY <1>c, <2>1, ChatGoFacts, ChatReturnFacts
\* The record of a key is inserted once, before anything is saved for it.
<1>5. ASSUME NEW c \in ChatCalls, SaveChatIdempotencyRecord(c) PROVE OneExchanges' /\ OneAnswerPerKey'
  <2> DEFINE k0 == chatCall[c].key
  <2>1. chatCall[c].pc = "insert" /\ k0 \in ChatKeys /\ UNCHANGED saves
    BY <1>1, <1>5 DEF SaveChatIdempotencyRecord, ChatAt, ChatLocals, Recording
  <2>2. CASE UNCHANGED chatRecord /\ ChatReturn(c)
    BY <1>c, <2>1, <2>2, ChatReturnFacts
  <2>3. CASE /\ chatRecord[k0].state = "none" /\ ChatGo(c, "ensure")
             /\ chatRecord' = [chatRecord EXCEPT ![k0] = Processing(RequestHash(c))]
    <3>1. chatCall'[c].pc = "ensure" /\ chatCall'[c].key = k0 /\ \A d \in ChatCalls : d # c => chatCall'[d] = chatCall[d]
      BY <2>3, ChatGoFacts
    <3>2. chatRecord'[k0].state = "processing" /\ \A k \in ChatKeys : k # k0 => chatRecord'[k] = chatRecord[k]
      BY <1>1, <2>1, <2>3 DEF Processing
    <3>3. \A k \in ChatKeys : Unsaved(k) => Unsaved(k)'
      BY <2>1 DEF Unsaved
    <3>4. ASSUME NEW k \in ChatKeys PROVE OneExchange(k)'
      <4>1. CASE k # k0
        <5>1. \A d \in ChatCalls : Asks(d, k)' => Asks(d, k)
          BY <1>o, <3>1, <4>1
        <5> QED BY <1>q, <3>2, <3>3, <4>1, <5>1
      <4>2. CASE k = k0
        <5>1. Unsaved(k) /\ \A d \in ChatCalls : ~ Asks(d, k)
          BY <1>2, <2>3, <4>2 DEF OneExchange
        <5>2. \A d \in ChatCalls : Asks(d, k)' => d = c
          BY <3>1, <5>1 DEF Asks
        <5> QED BY <3>2, <3>3, <4>2, <5>1, <5>2 DEF OneExchange
      <4> QED BY <4>1, <4>2
    <3>5. OneAnswerPerKey'
      BY <2>1 DEF OneAnswerPerKey
    <3> QED BY <3>4, <3>5 DEF OneExchanges
  <2> QED BY <1>5, <2>2, <2>3 DEF SaveChatIdempotencyRecord
<1>6. ASSUME NEW c \in ChatCalls, ensureConversation(c) PROVE OneExchanges' /\ OneAnswerPerKey'
  <2>1. UNCHANGED <<chatRecord, saves>> /\ chatCall[c].pc = "ensure"
    BY <1>6 DEF ensureConversation, ChatAt
  <2>2. CASE ChatReturn(c)
    BY <1>c, <2>1, <2>2, ChatReturnFacts
  <2>3. CASE chatCall'[c].key = chatCall[c].key /\ \A d \in ChatCalls : d # c => chatCall'[d] = chatCall[d]
    BY <1>c, <2>1, <2>3
  <2> QED BY <1>6, <2>2, <2>3, EnsureFacts
<1>7. ASSUME NEW c \in ChatCalls, AnswerQuestion(c) PROVE OneExchanges' /\ OneAnswerPerKey'
  <2>1. UNCHANGED <<chatRecord, saves>> /\ chatCall[c].pc = "answer" /\ ChatGo(c, "save")
    BY <1>7 DEF AnswerQuestion, ChatAt
  <2> QED BY <1>c, <2>1, ChatGoFacts
<1>8. ASSUME NEW c \in ChatCalls, ChatFails(c) PROVE OneExchanges' /\ OneAnswerPerKey'
  <2>1. UNCHANGED <<chatRecord, saves>> /\ ChatReturn(c)
    BY <1>8 DEF ChatFails
  <2> QED BY <1>c, <2>1, ChatReturnFacts
\* The exchange of a key is saved by its only request, and is the first.
<1>9. ASSUME NEW c \in ChatCalls, SaveConversationExchange(c) PROVE OneExchanges' /\ OneAnswerPerKey'
  <2> DEFINE k0 == chatCall[c].key
  <2>1. /\ chatCall[c].pc = "save" /\ ChatReturn(c) /\ saves' = Append(saves, k0)
        /\ chatRecord' = IF k0 = "none" THEN chatRecord
                         ELSE [chatRecord EXCEPT ![k0] = Completed(RequestHash(c), chatCall[c].conv)]
    BY <1>9 DEF SaveConversationExchange, ChatAt
  <2>2. k0 \in ChatKeys \cup {"none"} /\ "none" \notin ChatKeys
    BY <1>1, ChatExchangeAssumption DEF ChatLocals
  <2>3. k0 \in ChatKeys => Unsaved(k0) /\ \A d \in ChatCalls : Asks(d, k0) => d = c
    BY <1>2, <2>1 DEF OneExchange, Asks
  <2>4. /\ Len(saves) \in Nat /\ DOMAIN saves = 1 .. Len(saves) /\ DOMAIN saves' = 1 .. Len(saves) + 1
        /\ saves'[Len(saves) + 1] = k0 /\ \A i \in DOMAIN saves : saves'[i] = saves[i]
    BY <1>1, <2>1, <2>2
  <2>5. OneAnswerPerKey'
    <3> SUFFICES ASSUME NEW i \in DOMAIN saves', NEW j \in DOMAIN saves', saves'[i] = saves'[j], saves'[i] # "none"
                 PROVE  i = j
      BY DEF OneAnswerPerKey
    <3>1. CASE i \in DOMAIN saves /\ j \in DOMAIN saves
      BY <2>4, <3>1 DEF OneAnswerPerKey
    <3>2. ASSUME NEW m \in DOMAIN saves, saves[m] = k0, k0 # "none" PROVE FALSE
      BY <2>2, <2>3, <3>2 DEF Unsaved
    <3>3. CASE i \notin DOMAIN saves \/ j \notin DOMAIN saves
      <4>1. (i \in DOMAIN saves \/ i = Len(saves) + 1) /\ (j \in DOMAIN saves \/ j = Len(saves) + 1)
        BY <2>4
      <4> QED BY <2>4, <3>2, <3>3, <4>1
    <3> QED BY <3>1, <3>3
  <2>6. chatCall'[c].pc = "idle" /\ \A d \in ChatCalls : d # c => chatCall'[d] = chatCall[d]
    BY <2>1, ChatReturnFacts
  <2>7. \A k : \A d \in ChatCalls : Asks(d, k)' => Asks(d, k)
    BY <1>o, <2>6
  <2>8. \A k \in ChatKeys : k # k0 => chatRecord'[k] = chatRecord[k] /\ (Unsaved(k) => Unsaved(k)')
    <3>1. ASSUME NEW k \in ChatKeys, k # k0, Unsaved(k) PROVE Unsaved(k)'
      <4>1. ASSUME NEW i \in DOMAIN saves' PROVE saves'[i] # k
        <5>1. i \in DOMAIN saves \/ i = Len(saves) + 1
          BY <2>4
        <5> QED BY <2>4, <3>1, <5>1 DEF Unsaved
      <4> QED BY <4>1 DEF Unsaved
    <3>2. \A k \in ChatKeys : k # k0 => chatRecord'[k] = chatRecord[k]
      BY <1>1, <2>1
    <3> QED BY <3>1, <3>2
  <2>9. ASSUME NEW k \in ChatKeys PROVE OneExchange(k)'
    <3>1. CASE k # k0
      BY <1>q, <2>7, <2>8, <3>1
    <3>2. CASE k = k0
      <4>1. chatRecord'[k].state = "completed"
        BY <1>1, <2>1, <2>2, <3>2 DEF Completed
      <4>2. \A d \in ChatCalls : ~ Asks(d, k)'
        BY <2>3, <2>6, <2>7, <3>2 DEF Asks
      <4> QED BY <4>1, <4>2 DEF OneExchange
    <3> QED BY <3>1, <3>2
  <2> QED BY <2>5, <2>9 DEF OneExchanges
<1>10. ASSUME UNCHANGED <<chatRecord, saves, chatCall>> PROVE OneExchanges' /\ OneAnswerPerKey'
  <2>1. \A k \in ChatKeys : \A d \in ChatCalls : Asks(d, k)' => Asks(d, k)
    BY <1>10 DEF Asks
  <2> QED BY <1>10, <1>n, <2>1
<1>11. ASSUME NEW c \in ChatCalls, RenameConversation(c) \/ DeleteConversation(c) PROVE UNCHANGED <<chatRecord, saves, chatCall>>
  BY <1>11 DEF RenameConversation, DeleteConversation
<1>12. ASSUME NEW b \in ChatBooks, MarkBookRowDeleted(b) \/ RemoveConversations(b) \/ RemoveBook(b)
       PROVE  UNCHANGED <<chatRecord, saves, chatCall>>
  BY <1>12 DEF MarkBookRowDeleted, RemoveConversations, RemoveBook
<1>13. ASSUME UNCHANGED chatVars PROVE UNCHANGED <<chatRecord, saves, chatCall>>
  BY <1>13 DEF chatVars
<1> QED
  BY <1>3, <1>4, <1>5, <1>6, <1>7, <1>8, <1>9, <1>10, <1>11, <1>12, <1>13 DEF ChatExchangeNext

\* What a step does to the conversations and the exchanges: only the exchange of a new
\* conversation gives a row its book, and only a saved exchange adds one.
LEMMA ChatWrites ==
    ASSUME ChatTypes, [ChatExchangeNext]_chatVars
    PROVE  /\ \A v \in Conversations :
                \/ conversation'[v].book \in {conversation[v].book, "none"}
                \/ \E c \in ChatCalls : SaveConversationExchange(c) /\ chatCall[c].conv = v /\ chatCall[c].create
           /\ \A e \in exchange' \ exchange :
                \E c \in ChatCalls : SaveConversationExchange(c) /\ e.conv = chatCall[c].conv
<1> DEFINE Goal ==
      /\ \A v \in Conversations :
           \/ conversation'[v].book \in {conversation[v].book, "none"}
           \/ \E c \in ChatCalls : SaveConversationExchange(c) /\ chatCall[c].conv = v /\ chatCall[c].create
      /\ \A e \in exchange' \ exchange :
           \E c \in ChatCalls : SaveConversationExchange(c) /\ e.conv = chatCall[c].conv
<1>1. ASSUME exchange' \subseteq exchange, \A v \in Conversations : conversation'[v].book \in {conversation[v].book, "none"}
      PROVE  Goal
  BY <1>1
<1>2. ASSUME NEW c \in ChatCalls, SaveConversationExchange(c) PROVE Goal
  <2>1. \A v \in Conversations : \/ conversation'[v].book \in {conversation[v].book, "none"}
                                 \/ chatCall[c].conv = v /\ chatCall[c].create
    BY <1>2, SaveExchangeFacts
  <2>2. \A e \in exchange' \ exchange : e.conv = chatCall[c].conv
    BY <1>2 DEF SaveConversationExchange
  <2> QED BY <1>2, <2>1, <2>2
<1>3. ASSUME NEW c \in ChatCalls, RenameConversation(c) PROVE Goal
  <2>1. \A v \in Conversations : conversation'[v].book = conversation[v].book
    BY <1>3, RenameFacts DEF RenameConversation
  <2> QED BY <1>1, <1>3, <2>1 DEF RenameConversation
<1>4. ASSUME NEW c \in ChatCalls, DeleteConversation(c) PROVE Goal
  <2>1. PICK v \in Conversations : conversation' = [conversation EXCEPT ![v] = NoConversation]
    BY <1>4 DEF DeleteConversation
  <2>2. \A w \in Conversations : conversation'[w].book \in {conversation[w].book, "none"}
    BY <2>1 DEF ChatTypes, NoConversation
  <2>3. exchange' \subseteq exchange
    BY <1>4 DEF DeleteConversation
  <2> QED BY <1>1, <2>2, <2>3
<1>5. ASSUME NEW b \in ChatBooks, RemoveConversations(b) PROVE Goal
  <2>1. \A w \in Conversations : conversation'[w].book \in {conversation[w].book, "none"}
    BY <1>5 DEF RemoveConversations, NoConversation
  <2> QED BY <1>1, <1>5, <2>1 DEF RemoveConversations
<1>6. ASSUME NEW b \in ChatBooks, MarkBookRowDeleted(b) \/ RemoveBook(b) PROVE Goal
  BY <1>1, <1>6 DEF MarkBookRowDeleted, RemoveBook
<1>7. ASSUME UNCHANGED <<conversation, exchange>> PROVE Goal
  BY <1>1, <1>7
<1>8. ASSUME NEW c \in ChatCalls,
             \/ handleChats(c) \/ beginChatIdempotency(c) \/ SaveChatIdempotencyRecord(c)
             \/ ensureConversation(c) \/ AnswerQuestion(c) \/ ChatFails(c)
      PROVE  UNCHANGED <<conversation, exchange>>
  BY <1>8 DEF handleChats, beginChatIdempotency, SaveChatIdempotencyRecord, ensureConversation, AnswerQuestion, ChatFails
<1>9. ASSUME UNCHANGED chatVars PROVE UNCHANGED <<conversation, exchange>>
  BY <1>9 DEF chatVars
<1>10. Goal
  BY <1>2, <1>3, <1>4, <1>5, <1>6, <1>7, <1>8, <1>9 DEF ChatExchangeNext
<1> QED BY <1>10

\* A request keeps its conversation to itself while it makes it, and its book.
LEMMA PlacingsStep ==
    ASSUME ChatTypes, Placings, [ChatExchangeNext]_chatVars
    PROVE  Placings'
<1>1. \A c \in ChatCalls : chatCall[c] \in ChatLocals /\ Placing(c)
  BY DEF ChatTypes, Placings
<1>2. /\ \A v \in Conversations :
           \/ conversation'[v].book \in {conversation[v].book, "none"}
           \/ \E c \in ChatCalls : SaveConversationExchange(c) /\ chatCall[c].conv = v /\ chatCall[c].create
      /\ \A e \in exchange' \ exchange :
           \E c \in ChatCalls : SaveConversationExchange(c) /\ e.conv = chatCall[c].conv
  BY ChatWrites
<1>3. ASSUME NEW c \in ChatCalls, SaveConversationExchange(c)
      PROVE  chatCall[c].pc = "save" /\ chatCall'[c].pc = "idle" /\ (chatCall[c].create => Makes(c))
  BY <1>3, ChatReturnFacts DEF SaveConversationExchange, ChatAt, Makes, Placed
<1>v. ASSUME NEW c \in ChatCalls, Makes(c)
      PROVE  chatCall[c].conv \in Conversations /\ chatCall[c].conv # 0
  BY <1>1, <1>v, ChatExchangeAssumption DEF Makes, ChatLocals
\* A request that takes no step.
<1>4. ASSUME NEW d \in ChatCalls, chatCall'[d] = chatCall[d],
             Makes(d) => \A e \in ChatCalls : chatCall'[e].conv = chatCall[d].conv => chatCall[e].conv = chatCall[d].conv
      PROVE  Placing(d)'
  <2> DEFINE v == chatCall[d].conv
  <2>1. CASE Makes(d)
    <3>1. v \in Conversations /\ ~ Exists(v) /\ (\A e \in exchange : e.conv # v)
          /\ \A e \in ChatCalls : chatCall[e].conv = v => e = d
      BY <1>1, <1>v, <2>1 DEF Placing
    <3>2. ASSUME NEW c \in ChatCalls, SaveConversationExchange(c), chatCall[c].conv = v PROVE FALSE
      <4>1. c = d
        BY <3>1, <3>2
      <4> QED BY <1>3, <1>4, <3>2, <4>1
    <3>3. conversation'[v].book = "none"
      BY <1>2, <3>1, <3>2 DEF Exists
    <3>4. \A e \in exchange' : e.conv # v
      BY <1>2, <3>1, <3>2
    <3>5. \A e \in ChatCalls : chatCall'[e].conv = v => e = d
      BY <1>4, <2>1, <3>1
    <3> QED BY <1>4, <2>1, <3>3, <3>4, <3>5 DEF Placing, Makes, Exists
  <2>2. CASE ~ chatCall[d].create /\ chatCall[d].pc # "idle"
    <3>1. v \in Conversations
      BY <1>1, <2>2 DEF ChatLocals
    <3>2. ASSUME NEW c \in ChatCalls, SaveConversationExchange(c), chatCall[c].conv = v, chatCall[c].create PROVE FALSE
      <4>1. d = c
        BY <1>1, <1>3, <3>2 DEF Placing
      <4> QED BY <2>2, <3>2, <4>1
    <3>3. conversation'[v].book \in {conversation[v].book, "none"}
      BY <1>2, <3>1, <3>2
    <3>4. Exists(v) => conversation[v].book = chatCall[d].book
      BY <1>1, <2>2 DEF Placing
    <3> QED BY <1>4, <2>2, <3>3, <3>4 DEF Placing, Makes, Exists
  <2>3. CASE ~ Makes(d) /\ (chatCall[d].create \/ chatCall[d].pc = "idle")
    BY <1>4, <2>3 DEF Placing, Makes
  <2> QED BY <2>1, <2>2, <2>3
\* No request takes a step.
<1>5. ASSUME UNCHANGED chatCall PROVE Placings'
  BY <1>4, <1>5 DEF Placings
\* One takes a step: its conversation is the one it had, none, one that is there, or new.
<1>6. ASSUME NEW c \in ChatCalls, \A d \in ChatCalls : d # c => chatCall'[d] = chatCall[d],
             \/ chatCall'[c].conv \in {chatCall[c].conv, 0}
             \/ Exists(chatCall'[c].conv)
             \/ \A d \in ChatCalls : chatCall[d].conv # chatCall'[c].conv,
             Placing(c)'
      PROVE  Placings'
  <2>1. ASSUME NEW d \in ChatCalls, d # c PROVE Placing(d)'
    <3>1. ASSUME Makes(d), NEW e \in ChatCalls, chatCall'[e].conv = chatCall[d].conv PROVE chatCall[e].conv = chatCall[d].conv
      <4>1. CASE e # c
        BY <1>6, <3>1, <4>1
      <4>2. CASE e = c
        <5>1. chatCall[d].conv # 0 /\ ~ Exists(chatCall[d].conv)
          BY <1>1, <1>v, <3>1 DEF Placing
        <5> QED BY <1>6, <3>1, <4>2, <5>1
      <4> QED BY <4>1, <4>2
    <3> QED BY <1>4, <1>6, <2>1, <3>1
  <2> QED BY <1>6, <2>1 DEF Placings
<1>7. ASSUME NEW c \in ChatCalls, ChatReturn(c) PROVE Placings'
  <2>1. chatCall'[c].pc = "idle" /\ chatCall'[c].conv = 0 /\ \A d \in ChatCalls : d # c => chatCall'[d] = chatCall[d]
    BY <1>7, ChatReturnFacts
  <2>2. Placing(c)'
    BY <2>1 DEF Placing, Makes, Placed
  <2> QED BY <1>6, <2>1, <2>2
<1>8. ASSUME NEW c \in ChatCalls, NEW pc, ChatGo(c, pc), chatCall[c].pc # "idle", UNCHANGED <<conversation, exchange>>,
             pc \in Placed => chatCall[c].pc \in Placed
      PROVE  Placings'
  <2>1. /\ chatCall'[c].pc = pc /\ chatCall'[c].conv = chatCall[c].conv
        /\ chatCall'[c].book = chatCall[c].book /\ chatCall'[c].create = chatCall[c].create
        /\ \A d \in ChatCalls : d # c => chatCall'[d] = chatCall[d]
    BY <1>8, ChatGoFacts
  <2>2. Makes(c)' => Makes(c)
    BY <1>8, <2>1 DEF Makes
  <2>3. \A d \in ChatCalls : chatCall'[d].conv = chatCall[d].conv
    BY <2>1
  <2>4. Placing(c)'
    BY <1>1, <1>8, <2>1, <2>2, <2>3 DEF Placing, Exists
  <2> QED BY <1>6, <2>1, <2>4
<1>9. ASSUME NEW c \in ChatCalls, handleChats(c) PROVE Placings'
  <2>1. UNCHANGED <<conversation, exchange>>
    BY <1>9 DEF handleChats
  <2>2. /\ chatCall'[c].pc \in {"look", "ensure"} /\ \A d \in ChatCalls : d # c => chatCall'[d] = chatCall[d]
        /\ \/ chatCall'[c].create /\ chatCall'[c].conv = 0
           \/ /\ ~ chatCall'[c].create /\ Exists(chatCall'[c].conv)
              /\ chatCall'[c].book = conversation[chatCall'[c].conv].book
    BY <1>9, ChatStartFacts
  <2>3. Placing(c)'
    BY <2>1, <2>2 DEF Placing, Makes, Placed, Exists
  <2> QED BY <1>6, <2>2, <2>3
<1>10. ASSUME NEW c \in ChatCalls, beginChatIdempotency(c) \/ SaveChatIdempotencyRecord(c) PROVE Placings'
  <2>1. /\ chatCall[c].pc \in {"look", "insert"} /\ UNCHANGED <<conversation, exchange>>
        /\ ChatReturn(c) \/ ChatGo(c, "insert") \/ ChatGo(c, "ensure")
    BY <1>10 DEF beginChatIdempotency, SaveChatIdempotencyRecord, ChatAt
  <2> QED BY <1>7, <1>8, <2>1 DEF Placed
<1>11. ASSUME NEW c \in ChatCalls, ensureConversation(c) PROVE Placings'
  <2>1. UNCHANGED <<conversation, exchange>> /\ chatCall[c].pc = "ensure"
    BY <1>11 DEF ensureConversation, ChatAt
  <2>2. CASE /\ chatCall'[c].pc = "answer"
             /\ chatCall'[c].book = chatCall[c].book /\ chatCall'[c].create = chatCall[c].create
             /\ \A d \in ChatCalls : d # c => chatCall'[d] = chatCall[d]
             /\ \/ ~ chatCall[c].create /\ chatCall'[c].conv = chatCall[c].conv
                \/ chatCall[c].create /\ chatCall'[c].conv \in UnusedConversation
    <3>1. CASE ~ chatCall[c].create /\ chatCall'[c].conv = chatCall[c].conv
      <4>1. Placing(c)'
        BY <1>1, <2>1, <2>2, <3>1 DEF Placing, Makes, Exists
      <4> QED BY <1>6, <2>2, <3>1, <4>1
    <3>2. CASE chatCall[c].create /\ chatCall'[c].conv \in UnusedConversation
      <4>1. PICK v : v = chatCall'[c].conv
        OBVIOUS
      <4>2. ~ Exists(v) /\ (\A e \in exchange : e.conv # v) /\ \A d \in ChatCalls : chatCall[d].conv # v
        BY <3>2, <4>1 DEF UnusedConversation
      <4>3. \A d \in ChatCalls : chatCall'[d].conv = v => d = c
        BY <2>2, <4>2
      <4>4. Placing(c)'
        BY <2>1, <2>2, <3>2, <4>1, <4>2, <4>3 DEF Placing, Makes, Exists
      <4> QED BY <1>6, <2>2, <4>1, <4>2, <4>4
    <3> QED BY <2>2, <3>1, <3>2
  <2> QED BY <1>7, <1>11, <2>2, EnsureFacts
<1>12. ASSUME NEW c \in ChatCalls, AnswerQuestion(c) PROVE Placings'
  BY <1>8, <1>12 DEF AnswerQuestion, ChatAt, Placed
<1>13. ASSUME NEW c \in ChatCalls, ChatFails(c) \/ SaveConversationExchange(c) PROVE Placings'
  BY <1>7, <1>13 DEF ChatFails, SaveConversationExchange
<1>14. ASSUME NEW c \in ChatCalls, RenameConversation(c) \/ DeleteConversation(c) PROVE UNCHANGED chatCall
  BY <1>14 DEF RenameConversation, DeleteConversation
<1>15. ASSUME NEW b \in ChatBooks, MarkBookRowDeleted(b) \/ RemoveConversations(b) \/ RemoveBook(b) PROVE UNCHANGED chatCall
  BY <1>15 DEF MarkBookRowDeleted, RemoveConversations, RemoveBook
<1>16. ASSUME UNCHANGED chatVars PROVE UNCHANGED chatCall
  BY <1>16 DEF chatVars
<1> QED
  BY <1>5, <1>9, <1>10, <1>11, <1>12, <1>13, <1>14, <1>15, <1>16 DEF ChatExchangeNext

\* While a book is being removed, only late conversations are about it.
LEMMA RemovalsStep ==
    ASSUME ChatTypes, Removals, [ChatExchangeNext]_chatVars
    PROVE  Removals'
<1>1. \A v \in Conversations :
        \/ conversation'[v].book \in {conversation[v].book, "none"}
        \/ \E c \in ChatCalls : SaveConversationExchange(c) /\ chatCall[c].conv = v /\ chatCall[c].create
  BY ChatWrites
<1>2. ASSUME UNCHANGED <<removing, late>>, \A c \in ChatCalls : ~ SaveConversationExchange(c) PROVE Removals'
  BY <1>1, <1>2 DEF Removals, Exists
<1>3. ASSUME NEW c \in ChatCalls, SaveConversationExchange(c) PROVE Removals'
  <2> DEFINE v == chatCall[c].conv
             b == chatCall[c].book
  <2>1. /\ v \in Conversations /\ \A w \in Conversations : w # v => conversation'[w] = conversation[w]
        /\ conversation'[v].book = IF chatCall[c].create THEN b ELSE conversation[v].book
    BY <1>3, SaveExchangeFacts
  <2>2. late' = (IF removing = b THEN late \cup {v} ELSE late) /\ UNCHANGED removing
    BY <1>3 DEF SaveConversationExchange
  <2> QED BY <2>1, <2>2 DEF Removals, Exists
<1>4. ASSUME NEW b \in ChatBooks, RemoveConversations(b) PROVE Removals'
  <2>1. /\ removing' = b /\ UNCHANGED late
        /\ conversation' = [v \in Conversations |-> IF conversation[v].book = b THEN NoConversation ELSE conversation[v]]
    BY <1>4 DEF RemoveConversations
  <2> QED BY <2>1 DEF Removals, Exists, NoConversation
<1>5. ASSUME NEW b \in ChatBooks, RemoveBook(b) PROVE Removals'
  BY <1>5 DEF RemoveBook, Removals, Exists
<1>6. ASSUME NEW c \in ChatCalls,
             \/ handleChats(c) \/ beginChatIdempotency(c) \/ SaveChatIdempotencyRecord(c)
             \/ ensureConversation(c) \/ AnswerQuestion(c) \/ ChatFails(c)
      PROVE  UNCHANGED <<removing, late>> /\ UNCHANGED conversation
  BY <1>6 DEF handleChats, beginChatIdempotency, SaveChatIdempotencyRecord, ensureConversation, AnswerQuestion, ChatFails
<1>7. ASSUME NEW b \in ChatBooks, MarkBookRowDeleted(b) PROVE UNCHANGED <<removing, late>> /\ UNCHANGED conversation
  BY <1>7 DEF MarkBookRowDeleted
<1>8. ASSUME UNCHANGED chatVars PROVE UNCHANGED <<removing, late>> /\ UNCHANGED conversation
  BY <1>8 DEF chatVars
<1>9. ASSUME UNCHANGED <<removing, late>>, UNCHANGED conversation PROVE Removals'
  BY <1>9 DEF Removals, Exists
<1>10. ASSUME NEW c \in ChatCalls, RenameConversation(c) \/ DeleteConversation(c) PROVE Removals'
  <2>1. UNCHANGED <<removing, late>> /\ UNCHANGED saves
    BY <1>10 DEF RenameConversation, DeleteConversation
  <2>2. CASE RenameConversation(c)
    <3>1. \A v \in Conversations : conversation'[v].book = conversation[v].book
      BY <2>2, RenameFacts DEF RenameConversation
    <3> QED BY <2>1, <3>1 DEF Removals, Exists
  <2>3. CASE DeleteConversation(c)
    BY <2>1, <2>3 DEF DeleteConversation, Removals, Exists, NoConversation, ChatTypes
  <2> QED BY <1>10, <2>2, <2>3
<1> QED
  BY <1>3, <1>4, <1>5, <1>6, <1>7, <1>8, <1>9, <1>10 DEF ChatExchangeNext

\* Every exchange has the book of its conversation, and a conversation a book that is there.
LEMMA ConversationKeepsBookStep ==
    ASSUME ChatTypes, Placings, Removals, ConversationKeepsBook, [ChatExchangeNext]_chatVars
    PROVE  ConversationKeepsBook'
<1>1. /\ \A e \in exchange : e.conv \in Conversations /\ conversation[e.conv].book = e.book
      /\ \A v \in Conversations \ late : Exists(v) => bookRow[conversation[v].book] # "gone"
      /\ conversation \in [Conversations -> ConversationRows] /\ bookRow \in [ChatBooks -> {"ready", "deleted", "gone"}]
  BY DEF ConversationKeepsBook, ChatTypes
<1>2. ASSUME UNCHANGED <<exchange, bookRow, late>>, \A v \in Conversations : conversation'[v].book = conversation[v].book
      PROVE  ConversationKeepsBook'
  BY <1>1, <1>2 DEF ConversationKeepsBook, Exists
\* The exchange that is saved has the book of its conversation, which has a row.
<1>3. ASSUME NEW c \in ChatCalls, SaveConversationExchange(c) PROVE ConversationKeepsBook'
  <2> DEFINE v == chatCall[c].conv
             b == chatCall[c].book
  <2>1. /\ chatCall[c].pc = "save" /\ v \in Conversations /\ b \in ChatBooks
        /\ \A w \in Conversations : w # v => conversation'[w] = conversation[w]
        /\ conversation'[v].book = IF chatCall[c].create THEN b ELSE conversation[v].book
    BY <1>3, SaveExchangeFacts
  <2>2. /\ chatCall[c].create \/ Exists(v)
        /\ bookRow[b] # "gone" /\ UNCHANGED bookRow
        /\ \E n : exchange' = exchange \cup {[conv |-> v, book |-> b, n |-> n]}
        /\ late \subseteq late'
    BY <1>3 DEF SaveConversationExchange, ForeignKeysHold
  <2>3. Placing(c)
    BY DEF Placings
  <2>4. conversation'[v].book = b
    BY <2>1, <2>2, <2>3 DEF Placing
  <2>5. \A e \in exchange : e.conv = v => e.book = b
    BY <1>1, <2>1, <2>3, <2>4 DEF Placing, Makes, Placed
  <2>6. \A e \in exchange' : conversation'[e.conv].book = e.book
    <3>1. ASSUME NEW e \in exchange PROVE conversation'[e.conv].book = e.book
      BY <1>1, <2>1, <2>4, <2>5
    <3>2. ASSUME NEW n, NEW e, e = [conv |-> v, book |-> b, n |-> n] PROVE conversation'[e.conv].book = e.book
      BY <2>4, <3>2
    <3> QED BY <2>2, <3>1, <3>2
  <2>7. \A w \in Conversations \ late' : Exists(w)' => bookRow'[conversation'[w].book] # "gone"
    BY <1>1, <2>1, <2>2, <2>4 DEF Exists
  <2> QED BY <2>6, <2>7 DEF ConversationKeepsBook
<1>4. ASSUME NEW c \in ChatCalls, RenameConversation(c) PROVE ConversationKeepsBook'
  <2>1. \A v \in Conversations : conversation'[v].book = conversation[v].book
    BY <1>4, RenameFacts DEF RenameConversation
  <2> QED BY <1>2, <1>4, <2>1 DEF RenameConversation
<1>5. ASSUME NEW c \in ChatCalls, DeleteConversation(c) PROVE ConversationKeepsBook'
  <2>1. PICK v \in Conversations : /\ conversation' = [conversation EXCEPT ![v] = NoConversation]
                                   /\ exchange' = {e \in exchange : e.conv # v} /\ UNCHANGED <<bookRow, late>>
    BY <1>5 DEF DeleteConversation
  <2>2. conversation'[v].book = "none" /\ \A w \in Conversations : w # v => conversation'[w] = conversation[w]
    BY <1>1, <2>1 DEF NoConversation
  <2> QED BY <1>1, <2>1, <2>2 DEF ConversationKeepsBook, Exists
<1>6. ASSUME NEW b \in ChatBooks, MarkBookRowDeleted(b) PROVE ConversationKeepsBook'
  BY <1>1, <1>6 DEF MarkBookRowDeleted, ConversationKeepsBook, Exists
<1>7. ASSUME NEW b \in ChatBooks, RemoveConversations(b) PROVE ConversationKeepsBook'
  <2>1. /\ exchange' = {e \in exchange : conversation[e.conv].book # b} /\ UNCHANGED <<bookRow, late>>
        /\ conversation' = [v \in Conversations |-> IF conversation[v].book = b THEN NoConversation ELSE conversation[v]]
    BY <1>7 DEF RemoveConversations
  <2>2. \A v \in Conversations : IF conversation[v].book = b THEN conversation'[v].book = "none" ELSE conversation'[v] = conversation[v]
    BY <2>1 DEF NoConversation
  <2> QED BY <1>1, <2>1, <2>2 DEF ConversationKeepsBook, Exists
\* The book that goes has only late conversations.
<1>8. ASSUME NEW b \in ChatBooks, RemoveBook(b) PROVE ConversationKeepsBook'
  <2>1. /\ removing = b /\ exchange' = {e \in exchange : e.book # b} /\ UNCHANGED <<conversation, late>>
        /\ bookRow' = [bookRow EXCEPT ![b] = "gone"]
    BY <1>8 DEF RemoveBook
  <2>2. ASSUME NEW v \in Conversations \ late, Exists(v) PROVE bookRow'[conversation[v].book] # "gone"
    <3>1. conversation[v].book # b /\ conversation[v].book \in ChatBooks
      BY <1>1, <2>1, <2>2 DEF Removals, Exists, ConversationRows
    <3> QED BY <1>1, <2>1, <2>2, <3>1
  <2>3. \A e \in exchange' : conversation'[e.conv].book = e.book
    BY <1>1, <2>1
  <2>4. \A v \in Conversations \ late' : Exists(v)' => bookRow'[conversation'[v].book] # "gone"
    BY <2>1, <2>2 DEF Exists
  <2> QED BY <2>3, <2>4 DEF ConversationKeepsBook
<1>9. ASSUME NEW c \in ChatCalls,
             \/ handleChats(c) \/ beginChatIdempotency(c) \/ SaveChatIdempotencyRecord(c)
             \/ ensureConversation(c) \/ AnswerQuestion(c) \/ ChatFails(c)
      PROVE  UNCHANGED <<conversation, exchange, bookRow, late>>
  BY <1>9 DEF handleChats, beginChatIdempotency, SaveChatIdempotencyRecord, ensureConversation, AnswerQuestion, ChatFails
<1>10. ASSUME UNCHANGED chatVars PROVE UNCHANGED <<conversation, exchange, bookRow, late>>
  BY <1>10 DEF chatVars
<1>11. ASSUME UNCHANGED <<conversation, exchange, bookRow, late>> PROVE ConversationKeepsBook'
  BY <1>2, <1>11
<1> QED
  BY <1>3, <1>4, <1>5, <1>6, <1>7, <1>8, <1>9, <1>10, <1>11 DEF ChatExchangeNext

-----------------------------------------------------------------------------
(* Exchanges: the theorems *)

\* The invariants hold in every behaviour.
LEMMA ChatInvariants ==
    ChatExchangeSpec
      => [](ChatTypes /\ OneExchanges /\ OneAnswerPerKey /\ Placings /\ Removals /\ ConversationKeepsBook)
<1>1. ChatExchangeInit => ChatTypes /\ OneExchanges /\ OneAnswerPerKey /\ Placings /\ Removals /\ ConversationKeepsBook
  <2> SUFFICES ASSUME ChatExchangeInit
               PROVE  ChatTypes /\ OneExchanges /\ OneAnswerPerKey /\ Placings /\ Removals /\ ConversationKeepsBook
    OBVIOUS
  <2>1. NoChatCall \in ChatLocals /\ NoChatCall.pc = "idle"
    BY DEF NoChatCall, ChatLocals, Recording, Placed
  <2>2. NoRecord \in ChatRecords
    BY DEF NoRecord, ChatRecords, ChatHashes, RecordStates
  <2>3. NoConversation \in ConversationRows /\ NoConversation.book = "none"
    BY DEF NoConversation, ConversationRows
  <2>4. ChatTypes
    BY <2>1, <2>2, <2>3 DEF ChatExchangeInit, ChatTypes
  <2>5. OneExchanges
    BY <2>1 DEF ChatExchangeInit, OneExchanges, OneExchange, Asks, Unsaved
  <2>6. OneAnswerPerKey
    BY DEF ChatExchangeInit, OneAnswerPerKey
  <2>7. Placings
    BY <2>1 DEF ChatExchangeInit, Placings, Placing, Makes, Placed
  <2>8. Removals /\ ConversationKeepsBook
    BY <2>3 DEF ChatExchangeInit, Removals, ConversationKeepsBook, Exists
  <2> QED BY <2>4, <2>5, <2>6, <2>7, <2>8
<1>2. ChatTypes /\ OneExchanges /\ OneAnswerPerKey /\ Placings /\ Removals
      /\ ConversationKeepsBook /\ [ChatExchangeNext]_chatVars
        => (ChatTypes /\ OneExchanges /\ OneAnswerPerKey /\ Placings /\ Removals
              /\ ConversationKeepsBook)'
  BY ChatTypesStep, OneExchangesStep, PlacingsStep, RemovalsStep, ConversationKeepsBookStep
<1> QED BY <1>1, <1>2, PTL DEF ChatExchangeSpec

\* Requests with the same idempotency key, overlapping or repeated, save one exchange
\* (beginChatIdempotency, SaveConversationExchange), also when its conversation is deleted in
\* between.
THEOREM OneAnswerPerKeyCorrect ==
    ChatExchangeSpec => []OneAnswerPerKey
BY ChatInvariants, PTL

\* A conversation is about one book, and goes when its book goes, unless an answer was saved
\* while the book was being removed (handleChats, ensureConversation, SaveConversationExchange,
\* and the cleanup of the book service).
THEOREM ConversationKeepsBookCorrect ==
    ChatExchangeSpec => []ConversationKeepsBook
BY ChatInvariants, PTL
=============================================================================
