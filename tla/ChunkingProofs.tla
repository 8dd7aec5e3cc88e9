--------------------------- MODULE ChunkingProofs ---------------------------
(* Proofs about Chunking, for files of any pages, sections and lines and any  *)
(* sizes: what was read is in the chunks, in order.  The lemmas about orders, *)
(* folds and sums are those of ChatProofs.                                    *)
EXTENDS Chunking, ChatProofs

-----------------------------------------------------------------------------
(* Sums and rows *)

\* What holds of 0, and of each number up to N if of the one before it, holds of N.
LEMMA UpTo ==
    ASSUME NEW N \in Nat, NEW S, 0 \in S, \A n \in 1 .. N : n - 1 \in S => n \in S
    PROVE  N \in S
<1> DEFINE Bad == {n \in 0 .. N : n \notin S}
<1>1. CASE Bad # {}
  <2>1. PICK n \in Bad : \A k \in Bad : n <= k
    <3>1. Bad \in SUBSET Nat
      OBVIOUS
    <3> HIDE DEF Bad
    <3> QED BY <1>1, <3>1, LeastExists
  <2>2. n \in 1 .. N /\ n - 1 \in 0 .. N /\ ~ n <= n - 1
    OBVIOUS
  <2>3. n - 1 \in S
    BY <2>1, <2>2
  <2> QED BY <2>2, <2>3
<1>2. CASE Bad = {}
  <2>1. N \in 0 .. N
    OBVIOUS
  <2> QED BY <1>2, <2>1
<1> QED BY <1>1, <1>2

\* The sums of the beginnings of a sequence of numbers.
SumsOf(s, N, F) == F \in [0 .. N -> Int] /\ F[0] = 0 /\ \A n \in 1 .. N : F[n] = F[n - 1] + s[n]

\* They are its sum in the end, and there is one way to add up.
LEMMA SumsFacts ==
    ASSUME NEW N \in Nat, NEW s \in [1 .. N -> Int]
    PROVE  /\ \E F : SumsOf(s, N, F)
           /\ \A F : SumsOf(s, N, F) => SumOf(s) = F[N]
<1>1. PICK F \in [0 .. N -> Int] : F[0] = 0 /\ (\A n \in 1 .. N : F[n] = F[n - 1] + s[n]) /\ SumOf(s) = F[N]
  BY SumSteps
<1>2. ASSUME NEW G, SumsOf(s, N, G) PROVE G[N] = F[N]
  <2> DEFINE S == {n \in 0 .. N : G[n] = F[n]}
  <2>1. 0 \in S
    BY <1>1, <1>2 DEF SumsOf
  <2>2. ASSUME NEW n \in 1 .. N, n - 1 \in S PROVE n \in S
    BY <1>1, <1>2, <2>2 DEF SumsOf
  <2> HIDE DEF S
  <2>3. N \in S
    BY <2>1, <2>2, UpTo
  <2> QED BY <2>3 DEF S
<1> QED BY <1>1, <1>2 DEF SumsOf

\* The sum of two sequences one after the other.
LEMMA SumOfTwo ==
    ASSUME NEW s \in Seq(Int), NEW t \in Seq(Int)
    PROVE  SumOf(s) \in Int /\ SumOf(t) \in Int /\ SumOf(s \o t) = SumOf(s) + SumOf(t)
<1>1. PICK M \in Nat : M = Len(s) /\ s \in [1 .. M -> Int]
  <2>1. Len(s) \in Nat /\ s \in [1 .. Len(s) -> Int]
    BY LenProperties
  <2> QED BY <2>1
<1>2. PICK N \in Nat : N = Len(t) /\ t \in [1 .. N -> Int]
  <2>1. Len(t) \in Nat /\ t \in [1 .. Len(t) -> Int]
    BY LenProperties
  <2> QED BY <2>1
<1>3. PICK L \in Nat : L = M + N
  OBVIOUS
<1>4. PICK u \in [1 .. L -> Int] : u = s \o t /\ (\A m \in 1 .. M : u[m] = s[m]) /\ \A n \in 1 .. N : u[M + n] = t[n]
  <2>1. s \o t \in Seq(Int) /\ Len(s \o t) = L
    BY <1>1, <1>2, <1>3, ConcatProperties
  <2>2. s \o t \in [1 .. L -> Int]
    BY <2>1, LenProperties
  <2>3. \A m \in 1 .. M : (s \o t)[m] = s[m]
    BY <1>1, <1>2, <1>3, ConcatProperties
  <2>4. \A n \in 1 .. N : (s \o t)[M + n] = t[n]
    BY <1>1, <1>2, <1>3, ConcatProperties
  <2> QED BY <2>2, <2>3, <2>4
<1>5. PICK F : SumsOf(s, M, F) /\ SumOf(s) = F[M]
  BY <1>1, SumsFacts
<1>6. PICK G : SumsOf(t, N, G) /\ SumOf(t) = G[N]
  BY <1>2, SumsFacts
<1>7. PICK H : SumsOf(u, L, H) /\ SumOf(u) = H[L]
  BY <1>4, SumsFacts
<1>8. H[M] = F[M]
  <2> DEFINE S == {n \in 0 .. M : H[n] = F[n]}
  <2>1. 0 \in S
    BY <1>5, <1>7 DEF SumsOf
  <2>2. ASSUME NEW n \in 1 .. M, n - 1 \in S PROVE n \in S
    <3>1. n \in 1 .. L /\ n - 1 \in 0 .. M
      BY <1>3
    <3>2. H[n] = H[n - 1] + u[n] /\ F[n] = F[n - 1] + s[n]
      BY <1>5, <1>7, <3>1 DEF SumsOf
    <3>3. H[n - 1] = F[n - 1] /\ u[n] = s[n]
      BY <1>4, <2>2
    <3> QED BY <3>2, <3>3
  <2> HIDE DEF S
  <2>3. M \in S
    BY <2>1, <2>2, UpTo
  <2> QED BY <2>3 DEF S
<1>9. H[M + N] = F[M] + G[N]
  <2> DEFINE S == {n \in 0 .. N : H[M + n] = F[M] + G[n]}
  <2>1. F[M] \in Int
    BY <1>5 DEF SumsOf
  <2>2. 0 \in S
    BY <1>6, <1>8, <2>1 DEF SumsOf
  <2>3. ASSUME NEW n \in 1 .. N, n - 1 \in S PROVE n \in S
    <3>1. M + n \in 1 .. L /\ (M + n) - 1 = M + (n - 1) /\ n - 1 \in 0 .. N
      BY <1>3
    <3>2. H[M + n] = H[M + (n - 1)] + u[M + n]
      BY <1>7, <3>1 DEF SumsOf
    <3>3. G[n] = G[n - 1] + t[n] /\ G[n - 1] \in Int /\ t[n] \in Int
      BY <1>2, <1>6, <3>1 DEF SumsOf
    <3>4. H[M + (n - 1)] = F[M] + G[n - 1]
      BY <2>3
    <3>5. u[M + n] = t[n]
      BY <1>4
    <3>6. H[M + n] = F[M] + G[n]
      BY <2>1, <3>2, <3>3, <3>4, <3>5
    <3> QED BY <3>1, <3>6
  <2> HIDE DEF S
  <2>4. N \in S
    BY <2>2, <2>3, UpTo
  <2> QED BY <2>4 DEF S
<1>10. F[M] \in Int /\ G[N] \in Int
  BY <1>5, <1>6 DEF SumsOf
<1> QED BY <1>3, <1>4, <1>5, <1>6, <1>7, <1>9, <1>10

\* A row of sequences, and what it is after each of them.
Rows(T, N) == [1 .. N -> Seq(T)]
GrowsBy(T, N, ss, F) ==
    /\ F \in [0 .. N -> Seq(T)] /\ F[0] = <<>> /\ InARow(ss) = F[N]
    /\ \A n \in 1 .. N : F[n] = F[n - 1] \o ss[n]

\* A row of sequences grows by one after the other.
LEMMA RowSteps ==
    ASSUME NEW T, NEW N \in Nat, NEW ss \in Rows(T, N)
    PROVE  \E F : GrowsBy(T, N, ss, F)
<1> USE DEF Rows
<1> DEFINE Is(it) == it = [t \in SUBSET DOMAIN ss |->
                             IF t = {} THEN <<>> ELSE LET x == Max(t) IN it[t \ {x}] \o ss[x]]
           C == CHOOSE it : Is(it)
           U == Seq(T)
           g == [n \in 1 .. N |-> [v \in U |-> v \o ss[n]]]
<1>1. InARow(ss) = C[DOMAIN ss] /\ DOMAIN ss = 1 .. N
  BY Zenon DEF InARow, FoldLeft, MapThenFoldSet
<1>2. g \in [1 .. N -> [U -> U]] /\ <<>> \in U /\ \A n \in 1 .. N, v \in U : g[n][v] = v \o ss[n]
  <2>1. ASSUME NEW n \in 1 .. N, NEW v \in U PROVE v \o ss[n] \in U
    BY ConcatProperties
  <2>2. <<>> \in U
    BY EmptySeq
  <2> HIDE DEF U
  <2> QED BY <2>1, <2>2
<1> HIDE DEF g, U
<1>3. PICK it \in [SUBSET (1 .. N) -> U] :
        \A t \in SUBSET (1 .. N) : it[t] = IF t = {} THEN <<>> ELSE g[Max(t)][it[t \ {Max(t)}]]
  <2>1. FoldsBy(N, U, <<>>, g)
    BY <1>2, FoldExists
  <2> QED BY <2>1 DEF FoldsBy
<1>4. \A t \in SUBSET (1 .. N) :
        it[t] = IF t = {} THEN <<>> ELSE it[t \ {Max(t)}] \o ss[Max(t)]
  <2> SUFFICES ASSUME NEW t \in SUBSET (1 .. N), t # {}
               PROVE  g[Max(t)][it[t \ {Max(t)}]] = it[t \ {Max(t)}] \o ss[Max(t)]
    BY <1>3
  <2>1. Max(t) \in 1 .. N
    <3>1. t \in SUBSET (0 .. N)
      OBVIOUS
    <3> QED BY <3>1, GreatestIs
  <2>2. it[t \ {Max(t)}] \in U
    OBVIOUS
  <2> QED BY <1>2, <2>1, <2>2
<1>5. \E f : Is(f)
  <2>1. Is(it)
    BY <1>1, <1>3, <1>4
  <2> QED BY <2>1
<1>6. Is(C)
  <2> HIDE DEF Is
  <2> QED BY <1>5, Zenon
<1> HIDE DEF C
<1>7. \A t \in SUBSET (1 .. N) :
        C[t] = IF t = {} THEN <<>> ELSE C[t \ {Max(t)}] \o ss[Max(t)]
  BY ONLY <1>1, <1>6
<1>8. C[{}] = <<>>
  BY ONLY <1>7
<1>9. \A n \in 1 .. N : C[1 .. n - 1] \in U => C[1 .. n] = g[n][C[1 .. n - 1]]
  <2> SUFFICES ASSUME NEW n \in 1 .. N, C[1 .. n - 1] \in U PROVE C[1 .. n] = g[n][C[1 .. n - 1]]
    OBVIOUS
  <2>1. 1 .. n # {} /\ Max(1 .. n) = n /\ (1 .. n) \ {Max(1 .. n)} = 1 .. n - 1
    <3>1. n \in Nat /\ n # 0
      OBVIOUS
    <3> QED BY <3>1, Initials
  <2>2. 1 .. n \in SUBSET (1 .. N)
    OBVIOUS
  <2>3. C[1 .. n] = C[1 .. n - 1] \o ss[n]
    BY <1>7, <2>1, <2>2
  <2> QED BY <1>2, <2>3
<1>10. PICK F \in [0 .. N -> U] :
         F[0] = <<>> /\ (\A n \in 1 .. N : F[n] = g[n][F[n - 1]]) /\ F[N] = C[1 .. N]
  <2>1. GoesBySteps(N, U, <<>>, g, C)
    BY <1>8, <1>9 DEF GoesBySteps
  <2>2. StepsTo(N, U, <<>>, g, C[1 .. N])
    BY <1>2, <2>1, FoldSteps
  <2> QED BY <2>2 DEF StepsTo
<1>11. ASSUME NEW n \in 1 .. N PROVE F[n] = F[n - 1] \o ss[n]
  <2>1. n - 1 \in 0 .. N
    OBVIOUS
  <2>2. F[n - 1] \in U
    BY <1>10, <2>1
  <2> QED BY <1>2, <1>10, <2>2
<1> QED BY <1>1, <1>10, <1>11, ZenonT(30) DEF U, GrowsBy

Lines == [runes : Nat, ends : BOOLEAN]
ParagraphStates == [out : Seq(Seq(Lines)), buf : Seq(Lines)]
NoParagraph == [out |-> <<>>, buf |-> <<>>]

\* Paragraphs, line by line.
LEMMA ParagraphSteps ==
    ASSUME NEW N \in Nat, NEW text \in [1 .. N -> Lines]
    PROVE  \E F \in [0 .. N -> ParagraphStates] :
             /\ F[0] = NoParagraph /\ splitParagraphs(text) = EndParagraph(F[N]).out
             /\ \A n \in 1 .. N : F[n] = AddLine(F[n - 1], text[n])
<1> DEFINE Is(it) == it = [t \in SUBSET DOMAIN text |->
                             IF t = {} THEN NoParagraph ELSE LET x == Max(t) IN AddLine(it[t \ {x}], text[x])]
           C == CHOOSE it : Is(it)
           U == ParagraphStates
           g == [n \in 1 .. N |-> [v \in U |-> AddLine(v, text[n])]]
<1>1. splitParagraphs(text) = EndParagraph(C[DOMAIN text]).out /\ DOMAIN text = 1 .. N
  BY Zenon DEF splitParagraphs, NoParagraph, FoldLeft, MapThenFoldSet
<1>2. g \in [1 .. N -> [U -> U]] /\ NoParagraph \in U /\ \A n \in 1 .. N, v \in U : g[n][v] = AddLine(v, text[n])
  <2>1. ASSUME NEW n \in 1 .. N, NEW v \in U PROVE AddLine(v, text[n]) \in U
    <3>1. EndParagraph(v) \in ParagraphStates
      BY EmptySeq, AppendProperties DEF EndParagraph, ParagraphStates
    <3>2. [v EXCEPT !.buf = Append(@, text[n])] \in ParagraphStates
      BY AppendProperties DEF ParagraphStates
    <3> QED BY <3>1, <3>2 DEF AddLine
  <2>2. NoParagraph \in U
    BY EmptySeq DEF NoParagraph, ParagraphStates
  <2> HIDE DEF U
  <2> QED BY <2>1, <2>2
<1> HIDE DEF g, U
<1>3. PICK it \in [SUBSET (1 .. N) -> U] :
        \A t \in SUBSET (1 .. N) : it[t] = IF t = {} THEN NoParagraph ELSE g[Max(t)][it[t \ {Max(t)}]]
  <2>1. FoldsBy(N, U, NoParagraph, g)
    BY <1>2, FoldExists
  <2> QED BY <2>1 DEF FoldsBy
<1>4. \A t \in SUBSET (1 .. N) :
        it[t] = IF t = {} THEN NoParagraph ELSE AddLine(it[t \ {Max(t)}], text[Max(t)])
  <2> SUFFICES ASSUME NEW t \in SUBSET (1 .. N), t # {}
               PROVE  g[Max(t)][it[t \ {Max(t)}]] = AddLine(it[t \ {Max(t)}], text[Max(t)])
    BY <1>3
  <2>1. Max(t) \in 1 .. N
    <3>1. t \in SUBSET (0 .. N)
      OBVIOUS
    <3> QED BY <3>1, GreatestIs
  <2>2. it[t \ {Max(t)}] \in U
    OBVIOUS
  <2> QED BY <1>2, <2>1, <2>2
<1>5. \E f : Is(f)
  <2>1. Is(it)
    BY <1>1, <1>3, <1>4
  <2> QED BY <2>1
<1>6. Is(C)
  <2> HIDE DEF Is
  <2> QED BY <1>5, Zenon
<1> HIDE DEF C
<1>7. \A t \in SUBSET (1 .. N) :
        C[t] = IF t = {} THEN NoParagraph ELSE AddLine(C[t \ {Max(t)}], text[Max(t)])
  BY ONLY <1>1, <1>6
<1>8. C[{}] = NoParagraph
  BY ONLY <1>7
<1>9. \A n \in 1 .. N : C[1 .. n - 1] \in U => C[1 .. n] = g[n][C[1 .. n - 1]]
  <2> SUFFICES ASSUME NEW n \in 1 .. N, C[1 .. n - 1] \in U PROVE C[1 .. n] = g[n][C[1 .. n - 1]]
    OBVIOUS
  <2>1. 1 .. n # {} /\ Max(1 .. n) = n /\ (1 .. n) \ {Max(1 .. n)} = 1 .. n - 1
    <3>1. n \in Nat /\ n # 0
      OBVIOUS
    <3> QED BY <3>1, Initials
  <2>2. 1 .. n \in SUBSET (1 .. N)
    OBVIOUS
  <2>3. C[1 .. n] = AddLine(C[1 .. n - 1], text[n])
    BY <1>7, <2>1, <2>2
  <2> QED BY <1>2, <2>3
<1>10. PICK F \in [0 .. N -> U] :
         F[0] = NoParagraph /\ (\A n \in 1 .. N : F[n] = g[n][F[n - 1]]) /\ F[N] = C[1 .. N]
  <2>1. GoesBySteps(N, U, NoParagraph, g, C)
    BY <1>8, <1>9 DEF GoesBySteps
  <2>2. StepsTo(N, U, NoParagraph, g, C[1 .. N])
    BY <1>2, <2>1, FoldSteps
  <2> QED BY <2>2 DEF StepsTo
<1>11. ASSUME NEW n \in 1 .. N PROVE F[n] = AddLine(F[n - 1], text[n])
  <2>1. n - 1 \in 0 .. N
    OBVIOUS
  <2>2. F[n - 1] \in U
    BY <1>10, <2>1
  <2> QED BY <1>2, <1>10, <2>2
<1> QED BY <1>1, <1>10, <1>11 DEF U

SentenceStates == [out : Seq(Nat), buf : Nat]
NoSentence == [out |-> <<>>, buf |-> 0]

\* Sentences, line by line.
LEMMA SentenceSteps ==
    ASSUME NEW N \in Nat, NEW p \in [1 .. N -> Lines]
    PROVE  \E F \in [0 .. N -> SentenceStates] :
             /\ F[0] = NoSentence
             /\ splitSentences(p) = IF F[N].buf = 0 THEN F[N].out ELSE Append(F[N].out, F[N].buf)
             /\ \A n \in 1 .. N : F[n] = AddToSentence(F[n - 1], p[n])
<1> DEFINE Is(it) == it = [t \in SUBSET DOMAIN p |->
                             IF t = {} THEN NoSentence ELSE LET x == Max(t) IN AddToSentence(it[t \ {x}], p[x])]
           C == CHOOSE it : Is(it)
           U == SentenceStates
           g == [n \in 1 .. N |-> [v \in U |-> AddToSentence(v, p[n])]]
<1>1. /\ splitSentences(p) = LET end == C[DOMAIN p] IN IF end.buf = 0 THEN end.out ELSE Append(end.out, end.buf)
      /\ DOMAIN p = 1 .. N
  BY Zenon DEF splitSentences, NoSentence, FoldLeft, MapThenFoldSet
<1>2. g \in [1 .. N -> [U -> U]] /\ NoSentence \in U /\ \A n \in 1 .. N, v \in U : g[n][v] = AddToSentence(v, p[n])
  <2>1. ASSUME NEW n \in 1 .. N, NEW v \in U PROVE AddToSentence(v, p[n]) \in U
    <3> DEFINE m == IF v.buf = 0 THEN p[n].runes ELSE v.buf + 1 + p[n].runes
    <3>1. m \in Nat
      BY DEF Lines, SentenceStates
    <3>2. AddToSentence(v, p[n]) = IF p[n].ends THEN [out |-> Append(v.out, m), buf |-> 0] ELSE [v EXCEPT !.buf = m]
      BY DEF AddToSentence
    <3> HIDE DEF m
    <3>3. Append(v.out, m) \in Seq(Nat)
      BY <3>1, AppendProperties DEF SentenceStates
    <3> QED BY <3>1, <3>2, <3>3, SMTT(30) DEF SentenceStates
  <2>2. NoSentence \in U
    BY EmptySeq DEF NoSentence, SentenceStates
  <2> HIDE DEF U
  <2> QED BY <2>1, <2>2
<1> HIDE DEF g, U
<1>3. PICK it \in [SUBSET (1 .. N) -> U] :
        \A t \in SUBSET (1 .. N) : it[t] = IF t = {} THEN NoSentence ELSE g[Max(t)][it[t \ {Max(t)}]]
  <2>1. FoldsBy(N, U, NoSentence, g)
    BY <1>2, FoldExists
  <2> QED BY <2>1 DEF FoldsBy
<1>4. \A t \in SUBSET (1 .. N) :
        it[t] = IF t = {} THEN NoSentence ELSE AddToSentence(it[t \ {Max(t)}], p[Max(t)])
  <2> SUFFICES ASSUME NEW t \in SUBSET (1 .. N), t # {}
               PROVE  g[Max(t)][it[t \ {Max(t)}]] = AddToSentence(it[t \ {Max(t)}], p[Max(t)])
    BY <1>3
  <2>1. Max(t) \in 1 .. N
    <3>1. t \in SUBSET (0 .. N)
      OBVIOUS
    <3> QED BY <3>1, GreatestIs
  <2>2. it[t \ {Max(t)}] \in U
    OBVIOUS
  <2> QED BY <1>2, <2>1, <2>2
<1>5. \E f : Is(f)
  <2>1. Is(it)
    BY <1>1, <1>3, <1>4
  <2> QED BY <2>1
<1>6. Is(C)
  <2> HIDE DEF Is
  <2> QED BY <1>5, Zenon
<1> HIDE DEF C
<1>7. \A t \in SUBSET (1 .. N) :
        C[t] = IF t = {} THEN NoSentence ELSE AddToSentence(C[t \ {Max(t)}], p[Max(t)])
  BY ONLY <1>1, <1>6
<1>8. C[{}] = NoSentence
  BY ONLY <1>7
<1>9. \A n \in 1 .. N : C[1 .. n - 1] \in U => C[1 .. n] = g[n][C[1 .. n - 1]]
  <2> SUFFICES ASSUME NEW n \in 1 .. N, C[1 .. n - 1] \in U PROVE C[1 .. n] = g[n][C[1 .. n - 1]]
    OBVIOUS
  <2>1. 1 .. n # {} /\ Max(1 .. n) = n /\ (1 .. n) \ {Max(1 .. n)} = 1 .. n - 1
    <3>1. n \in Nat /\ n # 0
      OBVIOUS
    <3> QED BY <3>1, Initials
  <2>2. 1 .. n \in SUBSET (1 .. N)
    OBVIOUS
  <2>3. C[1 .. n] = AddToSentence(C[1 .. n - 1], p[n])
    BY <1>7, <2>1, <2>2
  <2> QED BY <1>2, <2>3
<1>10. PICK F \in [0 .. N -> U] :
         F[0] = NoSentence /\ (\A n \in 1 .. N : F[n] = g[n][F[n - 1]]) /\ F[N] = C[1 .. N]
  <2>1. GoesBySteps(N, U, NoSentence, g, C)
    BY <1>8, <1>9 DEF GoesBySteps
  <2>2. StepsTo(N, U, NoSentence, g, C[1 .. N])
    BY <1>2, <2>1, FoldSteps
  <2> QED BY <2>2 DEF StepsTo
<1>11. ASSUME NEW n \in 1 .. N PROVE F[n] = AddToSentence(F[n - 1], p[n])
  <2>1. n - 1 \in 0 .. N
    OBVIOUS
  <2>2. F[n - 1] \in U
    BY <1>10, <2>1
  <2> QED BY <1>2, <1>10, <2>2
<1> QED BY <1>1, <1>10, <1>11 DEF U

\* What a sequence weighs: the sum of the weights of its elements.
Weighed(s, f) == [i \in DOMAIN s |-> f[s[i]]]
WeightOf(s, f) == SumOf(Weighed(s, f))

\* Sums of natural numbers are natural numbers, and of positive ones positive.
LEMMA SumOfNats ==
    ASSUME NEW N \in Nat, NEW s \in [1 .. N -> Nat]
    PROVE  SumOf(s) \in Nat /\ ((\E i \in 1 .. N : s[i] > 0) => SumOf(s) > 0)
<1>1. PICK F : SumsOf(s, N, F) /\ SumOf(s) = F[N]
  BY SumsFacts
<1> DEFINE S == {n \in 0 .. N : F[n] \in Nat /\ ((\E i \in 1 .. n : s[i] > 0) => F[n] > 0)}
<1>2. 0 \in S
  BY <1>1 DEF SumsOf
<1>3. ASSUME NEW n \in 1 .. N, n - 1 \in S PROVE n \in S
  <2>1. F[n] = F[n - 1] + s[n] /\ F[n - 1] \in Nat /\ s[n] \in Nat
    BY <1>1, <1>3 DEF SumsOf
  <2>2. ASSUME NEW i \in 1 .. n, s[i] > 0 PROVE F[n] > 0
    <3>1. CASE i = n
      BY <2>1, <2>2, <3>1
    <3>2. CASE i # n
      <4>1. i \in 1 .. n - 1
        BY <3>2
      <4> QED BY <1>3, <2>1, <2>2, <4>1
    <3> QED BY <3>1, <3>2
  <2> QED BY <2>1, <2>2
<1> HIDE DEF S
<1>4. N \in S
  BY <1>2, <1>3, UpTo
<1> QED BY <1>1, <1>4 DEF S

\* Numbers added one by one.
LEMMA SumOfPairs ==
    ASSUME NEW N \in Nat, NEW s \in [1 .. N -> Int], NEW t \in [1 .. N -> Int]
    PROVE  /\ SumOf(s) \in Int /\ SumOf(t) \in Int
           /\ SumOf([i \in 1 .. N |-> s[i] + t[i]]) = SumOf(s) + SumOf(t)
<1> DEFINE u == [i \in 1 .. N |-> s[i] + t[i]]
<1>1. u \in [1 .. N -> Int] /\ \A n \in 1 .. N : u[n] = s[n] + t[n]
  OBVIOUS
<1> HIDE DEF u
<1>2. PICK F : SumsOf(s, N, F) /\ SumOf(s) = F[N]
  BY SumsFacts
<1>3. PICK G : SumsOf(t, N, G) /\ SumOf(t) = G[N]
  BY SumsFacts
<1>4. PICK H : SumsOf(u, N, H) /\ SumOf(u) = H[N]
  BY <1>1, SumsFacts
<1> DEFINE S == {n \in 0 .. N : H[n] = F[n] + G[n]}
<1>5. 0 \in S
  BY <1>2, <1>3, <1>4 DEF SumsOf
<1>6. ASSUME NEW n \in 1 .. N, n - 1 \in S PROVE n \in S
  <2>1. n - 1 \in 0 .. N /\ n \in 0 .. N
    OBVIOUS
  <2>2. /\ F[n] = F[n - 1] + s[n] /\ F[n - 1] \in Int /\ s[n] \in Int
        /\ G[n] = G[n - 1] + t[n] /\ G[n - 1] \in Int /\ t[n] \in Int
        /\ H[n] = H[n - 1] + u[n]
    BY <1>2, <1>3, <1>4, <2>1 DEF SumsOf
  <2>3. H[n - 1] = F[n - 1] + G[n - 1] /\ u[n] = s[n] + t[n]
    BY <1>1, <1>6
  <2> QED BY <2>1, <2>2, <2>3
<1> HIDE DEF S
<1>7. N \in S
  BY <1>5, <1>6, UpTo
<1>8. F[N] \in Int /\ G[N] \in Int
  BY <1>2, <1>3 DEF SumsOf
<1> QED BY <1>2, <1>3, <1>4, <1>7, <1>8 DEF S, u

\* The elements of which something holds, counted.
LEMMA CountIsSum ==
    ASSUME NEW N \in Nat, NEW b \in [1 .. N -> BOOLEAN]
    PROVE  SumOf([i \in 1 .. N |-> IF b[i] THEN 1 ELSE 0]) = Cardinality({i \in 1 .. N : b[i]})
<1> DEFINE u == [i \in 1 .. N |-> IF b[i] THEN 1 ELSE 0]
           Of(n) == {i \in 1 .. n : b[i]}
<1>1. u \in [1 .. N -> Int] /\ \A n \in 1 .. N : u[n] = IF b[n] THEN 1 ELSE 0
  OBVIOUS
<1> HIDE DEF u
<1>2. PICK F : SumsOf(u, N, F) /\ SumOf(u) = F[N]
  BY <1>1, SumsFacts
<1> DEFINE S == {n \in 0 .. N : IsFiniteSet(Of(n)) /\ F[n] = Cardinality(Of(n))}
<1>3. 0 \in S
  <2>1. Of(0) = {}
    OBVIOUS
  <2>2. IsFiniteSet(Of(0)) /\ Cardinality(Of(0)) = 0
    BY <2>1, FS_EmptySet
  <2> QED BY <1>2, <2>2 DEF SumsOf
<1>4. ASSUME NEW n \in 1 .. N, n - 1 \in S PROVE n \in S
  <2>1. n - 1 \in 0 .. N /\ n \in 0 .. N
    OBVIOUS
  <2>2. F[n] = F[n - 1] + u[n] /\ IsFiniteSet(Of(n - 1)) /\ F[n - 1] = Cardinality(Of(n - 1))
    BY <1>2, <1>4, <2>1 DEF SumsOf
  <2>3. CASE b[n]
    <3>1. Of(n) = Of(n - 1) \cup {n} /\ n \notin Of(n - 1)
      BY <2>1, <2>3
    <3>2. IsFiniteSet(Of(n)) /\ Cardinality(Of(n)) = Cardinality(Of(n - 1)) + 1
      <4> HIDE DEF Of
      <4> QED BY <2>2, <3>1, FS_AddElement
    <3>3. u[n] = 1
      BY <1>1, <2>3
    <3> HIDE DEF Of
    <3> QED BY <2>1, <2>2, <3>2, <3>3
  <2>4. CASE ~ b[n]
    <3>1. Of(n) = Of(n - 1)
      <4>1. \A i : i \in 1 .. n <=> i \in 1 .. n - 1 \/ i = n
        BY <2>1
      <4> QED BY <2>4, <4>1
    <3>2. u[n] = 0
      BY <1>1, <2>4
    <3>3. F[n - 1] \in Int
      BY <1>2, <2>1 DEF SumsOf
    <3> HIDE DEF Of
    <3> QED BY <2>1, <2>2, <3>1, <3>2, <3>3
  <2> QED BY <2>3, <2>4
<1> HIDE DEF S
<1>5. N \in S
  BY <1>3, <1>4, UpTo
<1> QED BY <1>2, <1>5 DEF S, u

\* The weight of two sequences one after the other.
LEMMA WeightOfTwo ==
    ASSUME NEW T, NEW f \in [T -> Int], NEW s \in Seq(T), NEW t \in Seq(T)
    PROVE  /\ Weighed(s, f) \in Seq(Int) /\ WeightOf(s, f) \in Int /\ WeightOf(t, f) \in Int
           /\ s \o t \in Seq(T) /\ WeightOf(s \o t, f) = WeightOf(s, f) + WeightOf(t, f)
<1>1. \A r \in Seq(T) : DOMAIN r = 1 .. Len(r) /\ Len(r) \in Nat
  BY LenProperties
<1>2. ASSUME NEW r \in Seq(T)
      PROVE  Weighed(r, f) \in Seq(Int) /\ Len(Weighed(r, f)) = Len(r) /\ \A i \in 1 .. Len(r) : Weighed(r, f)[i] = f[r[i]]
  <2>1. \A i \in 1 .. Len(r) : r[i] \in T
    BY <1>1, ElementOfSeq
  <2>2. Weighed(r, f) = [i \in 1 .. Len(r) |-> f[r[i]]]
    BY <1>1 DEF Weighed
  <2> QED BY <1>1, <2>1, <2>2
<1>3. s \o t \in Seq(T) /\ Len(s \o t) = Len(s) + Len(t)
      /\ \A i \in 1 .. Len(s) + Len(t) : (s \o t)[i] = IF i <= Len(s) THEN s[i] ELSE t[i - Len(s)]
  BY ConcatProperties
<1>4. Weighed(s \o t, f) = Weighed(s, f) \o Weighed(t, f)
  <2> DEFINE a == Weighed(s, f)
             b == Weighed(t, f)
             c == Weighed(s \o t, f)
             M == Len(s)
             N == Len(t)
  <2>1. a \in Seq(Int) /\ b \in Seq(Int) /\ Len(a) = M /\ Len(b) = N /\ M \in Nat /\ N \in Nat
    BY <1>1, <1>2
  <2>2. a \o b \in Seq(Int) /\ Len(a \o b) = M + N
        /\ \A i \in 1 .. M + N : (a \o b)[i] = IF i <= M THEN a[i] ELSE b[i - M]
    <3> HIDE DEF a, b, M, N
    <3> QED BY <2>1, ConcatProperties
  <2>3. c \in Seq(Int) /\ Len(c) = M + N
    BY <1>2, <1>3
  <2>4. ASSUME NEW i \in 1 .. M + N PROVE c[i] = (a \o b)[i]
    <3>1. c[i] = f[(s \o t)[i]]
      BY <1>2, <1>3
    <3>2. CASE i <= M
      <4>1. i \in 1 .. M
        BY <2>1, <3>2
      <4>2. (s \o t)[i] = s[i] /\ (a \o b)[i] = a[i]
        BY <1>3, <2>2, <3>2
      <4> QED BY <1>2, <3>1, <4>1, <4>2
    <3>3. CASE ~ i <= M
      <4>1. i - M \in 1 .. N
        BY <2>1, <3>3
      <4>2. (s \o t)[i] = t[i - M] /\ (a \o b)[i] = b[i - M]
        BY <1>3, <2>2, <3>3
      <4> QED BY <1>2, <3>1, <4>1, <4>2
    <3> QED BY <3>2, <3>3
  <2> HIDE DEF a, b, c, M, N
  <2>5. c = a \o b
    BY <2>1, <2>2, <2>3, <2>4, SeqEqual
  <2> QED BY <2>5 DEF a, b, c
<1>5. SumOf(Weighed(s, f)) \in Int /\ SumOf(Weighed(t, f)) \in Int
      /\ SumOf(Weighed(s, f) \o Weighed(t, f)) = SumOf(Weighed(s, f)) + SumOf(Weighed(t, f))
  BY <1>2, SumOfTwo
<1> QED BY <1>2, <1>3, <1>4, <1>5 DEF WeightOf

\* The weight of sequences in a row.
LEMMA WeightOfRow ==
    ASSUME NEW T, NEW f \in [T -> Int], NEW N \in Nat, NEW ss \in Rows(T, N)
    PROVE  /\ InARow(ss) \in Seq(T)
           /\ WeightOf(InARow(ss), f) = SumOf([n \in 1 .. N |-> WeightOf(ss[n], f)])
           /\ N > 0 /\ ss[1] # <<>> => InARow(ss) # <<>>
<1>7. ss \in [1 .. N -> Seq(T)]
  BY DEF Rows
<1>1. PICK F \in [0 .. N -> Seq(T)] :
        F[0] = <<>> /\ InARow(ss) = F[N] /\ \A n \in 1 .. N : F[n] = F[n - 1] \o ss[n]
  <2>1. PICK F : GrowsBy(T, N, ss, F)
    BY RowSteps
  <2> QED BY <2>1 DEF GrowsBy
<1> DEFINE w == [n \in 1 .. N |-> WeightOf(ss[n], f)]
<1>2. w \in [1 .. N -> Int] /\ \A n \in 1 .. N : w[n] = WeightOf(ss[n], f)
  BY <1>7, WeightOfTwo
<1> HIDE DEF w
<1>3. PICK G : SumsOf(w, N, G) /\ SumOf(w) = G[N]
  BY <1>2, SumsFacts
<1> DEFINE S == {n \in 0 .. N : WeightOf(F[n], f) = G[n] /\ (n > 0 /\ ss[1] # <<>> => F[n] # <<>>)}
<1>4. 0 \in S
  <2>1. Weighed(<<>>, f) = <<>>
    BY DEF Weighed
  <2>2. WeightOf(<<>>, f) = 0
    <3>1. <<>> \in Seq(Int) /\ 0 \in Int
      BY EmptySeq
    <3>2. SumOf(<<>>) = 0
      BY <3>1, SumFacts
    <3> QED BY <2>1, <3>2 DEF WeightOf
  <2> QED BY <1>1, <1>3, <2>2 DEF SumsOf
<1>5. ASSUME NEW n \in 1 .. N, n - 1 \in S PROVE n \in S
  <2>1. n - 1 \in 0 .. N /\ n \in 0 .. N /\ F[n - 1] \in Seq(T) /\ ss[n] \in Seq(T)
    BY <1>7
  <2>2. WeightOf(F[n], f) = WeightOf(F[n - 1], f) + WeightOf(ss[n], f)
    BY <1>1, <2>1, WeightOfTwo, ZenonT(30)
  <2>3. G[n] = G[n - 1] + w[n]
    BY <1>3, <2>1 DEF SumsOf
  <2>4. WeightOf(F[n], f) = G[n]
    BY <1>2, <1>5, <2>2, <2>3
  <2>5. ASSUME ss[1] # <<>> PROVE F[n] # <<>>
    <3>1. F[n - 1] # <<>> \/ ss[n] # <<>>
      BY <1>5, <2>5
    <3>2. Len(F[n]) = Len(F[n - 1]) + Len(ss[n]) /\ Len(F[n - 1]) \in Nat /\ Len(ss[n]) \in Nat
      <4>1. PICK a \in Seq(T) : a = F[n - 1]
        BY ONLY <2>1
      <4>2. PICK b \in Seq(T) : b = ss[n]
        BY ONLY <2>1
      <4>3. Len(a \o b) = Len(a) + Len(b) /\ Len(a) \in Nat /\ Len(b) \in Nat
        BY ConcatProperties, LenProperties
      <4> QED BY <1>1, <4>1, <4>2, <4>3
    <3>3. (F[n - 1] = <<>> <=> Len(F[n - 1]) = 0) /\ (ss[n] = <<>> <=> Len(ss[n]) = 0)
      BY <2>1, EmptySeq
    <3>4. Len(F[n]) # 0
      <4>1. PICK a \in Nat : a = Len(F[n - 1])
        BY <3>2
      <4>2. PICK b \in Nat : b = Len(ss[n])
        BY <3>2
      <4>3. Len(F[n]) = a + b /\ (a # 0 \/ b # 0)
        BY <3>1, <3>2, <3>3, <4>1, <4>2
      <4> QED BY ONLY <4>3
    <3>5. F[n] \in Seq(T)
      BY <2>1
    <3> QED BY <3>4, <3>5, EmptySeq
  <2> QED BY <2>1, <2>4, <2>5
<1> HIDE DEF S
<1>6. N \in S
  BY <1>4, <1>5, UpTo
<1> QED BY <1>1, <1>3, <1>6 DEF S, w

-----------------------------------------------------------------------------
(* Sentences cut to parts *)

\* What is left of a number.
LEMMA RemainderIs ==
    ASSUME NEW x \in Nat, NEW d \in Nat \ {0}, NEW q \in Nat, NEW r \in 0 .. d - 1, x = q * d + r
    PROVE  x % d = r
<1>1. PICK k \in Int : k = x \div d
  OBVIOUS
<1>2. PICK e \in 0 .. d - 1 : e = x % d
  OBVIOUS
<1>3. x = k * d + e
  BY <1>1, <1>2
<1>4. CASE k < q
  <2>1. (k + 1) * d <= q * d /\ (k + 1) * d = k * d + d
    BY <1>4
  <2> QED BY <1>3, <2>1
<1>5. CASE q < k
  <2>1. (q + 1) * d <= k * d /\ (q + 1) * d = q * d + d
    BY <1>5
  <2> QED BY <1>3, <2>1
<1>6. CASE k = q
  BY <1>2, <1>3, <1>6
<1> QED BY <1>4, <1>5, <1>6

\* The parts of a number: how many there are, and that each but the last is of the size.
LEMMA PartsCounted ==
    ASSUME NEW runes \in Nat \ {0}, NEW size \in Nat \ {0}
    PROVE  LET m == (runes + size - 1) \div size
           IN  /\ m \in Nat \ {0} /\ runes <= m * size
               /\ \A i \in 1 .. m : (i - 1) * size \in Nat /\ (i - 1) * size < runes /\ i * size = (i - 1) * size + size
<1> DEFINE m == (runes + size - 1) \div size
<1>1. m \in Int /\ m * size <= runes + size - 1 /\ runes + size - 1 < m * size + size
  OBVIOUS
<1> HIDE DEF m
<1>2. m >= 1
  <2> SUFFICES ASSUME m <= 0 PROVE FALSE
    BY <1>1
  <2>1. m * size <= 0
    BY <1>1
  <2> QED BY <1>1, <2>1
<1>3. ASSUME NEW i \in 1 .. m PROVE (i - 1) * size \in Nat /\ (i - 1) * size < runes /\ i * size = (i - 1) * size + size
  <2>1. i * size = (i - 1) * size + size /\ (i - 1) * size \in Nat
    OBVIOUS
  <2>2. i * size <= m * size
    BY <1>1
  <2> QED BY <1>1, <2>1, <2>2
<1> QED BY <1>1, <1>2, <1>3 DEF m

\* A sentence is cut without loss.
LEMMA SplitFacts ==
    ASSUME NEW runes \in Nat \ {0}, NEW size \in Nat \ {0}
    PROVE  \E m \in Nat \ {0} :
             splitByRunes(runes, size) \in [1 .. m -> Nat] /\ SumOf(splitByRunes(runes, size)) = runes
<1>1. PICK m \in Nat \ {0} :
        /\ m = (runes + size - 1) \div size /\ runes <= m * size
        /\ \A i \in 1 .. m : (i - 1) * size \in Nat /\ (i - 1) * size < runes /\ i * size = (i - 1) * size + size
  BY PartsCounted
<1>2. PICK s : s = splitByRunes(runes, size)
  OBVIOUS
<1>3. s = [i \in 1 .. m |-> IF i * size <= runes THEN size ELSE runes % size]
  BY <1>1, <1>2 DEF splitByRunes
<1>4. s \in [1 .. m -> Nat] /\ s \in [1 .. m -> Int] /\ \A i \in 1 .. m : s[i] = IF i * size <= runes THEN size ELSE runes % size
  <2>1. runes % size \in Nat
    OBVIOUS
  <2> QED BY <1>3, <2>1
<1> DEFINE F == [i \in 0 .. m |-> IF i * size <= runes THEN i * size ELSE runes]
<1>5. SumsOf(s, m, F)
  <2>1. \A i \in 0 .. m : i * size \in Int
    OBVIOUS
  <2>2. F \in [0 .. m -> Int] /\ F[0] = 0
    BY <2>1
  <2>3. ASSUME NEW i \in 1 .. m PROVE F[i] = F[i - 1] + s[i]
    <3>1. i - 1 \in 0 .. m /\ i \in 0 .. m
      OBVIOUS
    <3>2. F[i - 1] = (i - 1) * size
      BY <1>1, <3>1
    <3>3. CASE i * size <= runes
      <4>1. F[i] = i * size /\ s[i] = size
        BY <1>4, <3>1, <3>3
      <4> QED BY <1>1, <3>2, <4>1
    <3>4. CASE ~ i * size <= runes
      <4>1. F[i] = runes /\ s[i] = runes % size
        BY <1>4, <3>1, <3>4
      <4>2. PICK a \in Nat : a = (i - 1) * size /\ a < runes /\ runes < a + size
        BY <1>1, <3>4
      <4>3. runes % size = runes - a
        <5>1. (runes - a) \in 0 .. size - 1
          BY <4>2
        <5>2. runes = (i - 1) * size + (runes - a)
          BY <4>2
        <5>3. i - 1 \in Nat
          OBVIOUS
        <5> QED BY <5>1, <5>2, <5>3, RemainderIs
      <4> QED BY <3>2, <4>1, <4>2, <4>3
    <3> QED BY <3>3, <3>4
  <2> QED BY <2>2, <2>3 DEF SumsOf
<1>6. F[m] = runes
  BY <1>1
<1>7. SumOf(s) = F[m]
  <2> HIDE DEF F
  <2> QED BY <1>4, <1>5, SumsFacts
<1> QED BY <1>2, <1>4, <1>6, <1>7

-----------------------------------------------------------------------------
(* Units of a sentence and of a paragraph *)

\* A sequence over a part of a set is one over the set.
LEMMA WiderSeq ==
    ASSUME NEW S, NEW T, S \subseteq T, NEW s \in Seq(S)
    PROVE  s \in Seq(T)
<1>1. Len(s) \in Nat /\ s \in [1 .. Len(s) -> S]
  BY LenProperties
<1>2. s \in [1 .. Len(s) -> T]
  BY <1>1
<1> QED BY <1>1, <1>2

\* One at the first place and nothing after it.
LEMMA SumOfFirst ==
    ASSUME NEW N \in Nat \ {0}, NEW b \in BOOLEAN
    PROVE  SumOf([j \in 1 .. N |-> IF b /\ j = 1 THEN 1 ELSE 0]) = IF b THEN 1 ELSE 0
<1> DEFINE s == [j \in 1 .. N |-> IF b /\ j = 1 THEN 1 ELSE 0]
           F == [j \in 0 .. N |-> IF b /\ j > 0 THEN 1 ELSE 0]
<1>1. s \in [1 .. N -> Int]
  OBVIOUS
<1>2. SumsOf(s, N, F) /\ F[N] = IF b THEN 1 ELSE 0
  BY DEF SumsOf
<1> HIDE DEF s, F
<1>3. SumOf(s) = F[N]
  BY <1>1, <1>2, SumsFacts
<1> QED BY <1>2, <1>3 DEF s

\* As many ones.
LEMMA SumOfOnes ==
    ASSUME NEW N \in Nat
    PROVE  SumOf([j \in 1 .. N |-> 1]) = N
<1> DEFINE s == [j \in 1 .. N |-> 1]
           F == [j \in 0 .. N |-> j]
<1>1. s \in [1 .. N -> Int]
  OBVIOUS
<1>2. SumsOf(s, N, F) /\ F[N] = N
  BY DEF SumsOf
<1> HIDE DEF s, F
<1>3. SumOf(s) = F[N]
  BY <1>1, <1>2, SumsFacts
<1> QED BY <1>2, <1>3 DEF s

\* Units before they are numbered, and what they hold.
UnitParts == [runes : Nat, tokens : Nat \ {0}, starts : BOOLEAN]
runesOf == [u \in UnitParts |-> u.runes]
startOf == [u \in UnitParts |-> IF u.starts THEN 1 ELSE 0]
UnitsHold(units, runes, starts) ==
    /\ units \in Seq(UnitParts) /\ units # <<>>
    /\ WeightOf(units, runesOf) = runes /\ WeightOf(units, startOf) = starts

\* The units of a sentence.
LEMMA SentenceUnitsFacts ==
    ASSUME NEW runes \in Nat \ {0}, NEW size \in Nat \ {0}, NEW first \in BOOLEAN
    PROVE  UnitsHold(SentenceUnits(runes, size, first), runes, IF first THEN 1 ELSE 0)
<1>1. PICK m \in Nat \ {0} : \E parts \in [1 .. m -> Nat] : parts = splitByRunes(runes, size) /\ SumOf(parts) = runes
  BY SplitFacts
<1>10. PICK parts \in [1 .. m -> Nat] : parts = splitByRunes(runes, size) /\ SumOf(parts) = runes
  BY <1>1
<1>2. \A r \in Nat : tokenLen(r) \in Nat \ {0}
  <2> SUFFICES ASSUME NEW r \in Nat PROVE tokenLen(r) \in Nat \ {0}
    OBVIOUS
  <2>1. RunesPerToken \in Nat \ {0}
    BY ChunkingAssumption
  <2>2. r \div RunesPerToken \in Int
    BY <2>1
  <2> QED BY <2>2 DEF tokenLen, AtLeastOne
<1>3. PICK u : u = SentenceUnits(runes, size, first)
  OBVIOUS
<1>4. u = [j \in 1 .. m |-> [runes |-> parts[j], tokens |-> tokenLen(parts[j]), starts |-> first /\ j = 1]]
  BY <1>10, <1>3 DEF SentenceUnits
<1>5. u \in [1 .. m -> UnitParts] /\ \A j \in 1 .. m : u[j].runes = parts[j] /\ (u[j].starts <=> first /\ j = 1)
  <2>1. ASSUME NEW j \in 1 .. m
        PROVE  [runes |-> parts[j], tokens |-> tokenLen(parts[j]), starts |-> first /\ j = 1] \in UnitParts
    <3>1. parts[j] \in Nat /\ tokenLen(parts[j]) \in Nat \ {0} /\ (first /\ j = 1) \in BOOLEAN
      BY <1>2
    <3> QED BY <3>1 DEF UnitParts
  <2> QED BY <1>4, <2>1
<1>6. Weighed(u, runesOf) = parts
  <2>1. Weighed(u, runesOf) = [j \in 1 .. m |-> runesOf[u[j]]]
    BY <1>5 DEF Weighed
  <2>2. \A j \in 1 .. m : runesOf[u[j]] = parts[j]
    BY <1>5 DEF runesOf
  <2> QED BY <2>1, <2>2
<1>7. Weighed(u, startOf) = [j \in 1 .. m |-> IF first /\ j = 1 THEN 1 ELSE 0]
  <2>1. Weighed(u, startOf) = [j \in 1 .. m |-> startOf[u[j]]]
    BY <1>5 DEF Weighed
  <2>2. \A j \in 1 .. m : startOf[u[j]] = IF first /\ j = 1 THEN 1 ELSE 0
    BY <1>5 DEF startOf
  <2> QED BY <2>1, <2>2
<1>8. u \in Seq(UnitParts) /\ u # <<>>
  BY <1>5
<1>9. WeightOf(u, runesOf) = runes /\ WeightOf(u, startOf) = IF first THEN 1 ELSE 0
  BY <1>10, <1>6, <1>7, SumOfFirst DEF WeightOf
<1> QED BY <1>3, <1>8, <1>9 DEF UnitsHold

\* The lengths of lines that are joined where a sentence goes on.
LineLengths(p) == [n \in DOMAIN p |-> p[n].runes + IF n > 1 /\ ~ p[n - 1].ends THEN 1 ELSE 0]
FullLines == [runes : Nat \ {0}, ends : BOOLEAN]

\* The sentences of a paragraph are what its lines are.
LEMMA SentencesFacts ==
    ASSUME NEW N \in Nat \ {0}, NEW p \in [1 .. N -> FullLines]
    PROVE  \E K \in Nat \ {0} :
             splitSentences(p) \in [1 .. K -> Nat \ {0}] /\ SumOf(splitSentences(p)) = SumOf(LineLengths(p))
<1>1. p \in [1 .. N -> Lines]
  BY DEF FullLines, Lines
<1>2. PICK F \in [0 .. N -> SentenceStates] :
        /\ F[0] = NoSentence
        /\ splitSentences(p) = IF F[N].buf = 0 THEN F[N].out ELSE Append(F[N].out, F[N].buf)
        /\ \A n \in 1 .. N : F[n] = AddToSentence(F[n - 1], p[n])
  BY <1>1, SentenceSteps
<1>3. PICK q \in [1 .. N -> Nat \ {0}] :
        q = LineLengths(p) /\ \A n \in 1 .. N : q[n] = p[n].runes + IF n > 1 /\ ~ p[n - 1].ends THEN 1 ELSE 0
  <2>1. \A n \in 1 .. N : p[n].runes + (IF n > 1 /\ ~ p[n - 1].ends THEN 1 ELSE 0) \in Nat \ {0}
    BY DEF FullLines
  <2>2. LineLengths(p) = [n \in 1 .. N |-> p[n].runes + IF n > 1 /\ ~ p[n - 1].ends THEN 1 ELSE 0]
    BY DEF LineLengths
  <2> QED BY <2>1, <2>2
<1>4. PICK A : SumsOf(q, N, A) /\ SumOf(q) = A[N]
  <2>1. q \in [1 .. N -> Int]
    OBVIOUS
  <2> QED BY <2>1, SumsFacts
<1>5. \A n \in 0 .. N : F[n].out \in Seq(Int) /\ F[n].buf \in Nat
  <2> SUFFICES ASSUME NEW n \in 0 .. N PROVE F[n].out \in Seq(Int) /\ F[n].buf \in Nat
    OBVIOUS
  <2>1. F[n].out \in Seq(Nat) /\ F[n].buf \in Nat
    BY DEF SentenceStates
  <2>2. PICK Numbers : Numbers = Int
    OBVIOUS
  <2>3. Nat \subseteq Numbers
    BY <2>2
  <2>4. F[n].out \in Seq(Numbers)
    BY <2>1, <2>3, WiderSeq
  <2> QED BY <2>1, <2>2, <2>4
<1> DEFINE S == {n \in 0 .. N : /\ F[n].out \in Seq(Nat \ {0}) /\ SumOf(F[n].out) + F[n].buf = A[n]
                                /\ F[n].buf = 0 <=> n = 0 \/ p[n].ends}
<1>6. 0 \in S
  <2>1. F[0].out = <<>> /\ F[0].buf = 0
    BY <1>2 DEF NoSentence
  <2>2. <<>> \in Seq(Int) /\ 0 \in Int /\ <<>> \in Seq(Nat \ {0})
    BY EmptySeq
  <2>3. SumOf(<<>>) = 0
    BY <2>2, SumFacts
  <2>4. A[0] = 0 /\ 0 \in 0 .. N
    BY <1>4 DEF SumsOf
  <2>5. SumOf(F[0].out) + F[0].buf = A[0]
    BY <2>1, <2>3, <2>4
  <2>6. F[0].buf = 0 <=> 0 = 0 \/ p[0].ends
    BY <2>1
  <2>7. F[0].out \in Seq(Nat \ {0})
    BY <2>1, <2>2
  <2> QED BY <2>4, <2>5, <2>6, <2>7
<1>7. ASSUME NEW n \in 1 .. N, n - 1 \in S PROVE n \in S
  <2>1. n - 1 \in 0 .. N /\ n \in 0 .. N
    OBVIOUS
  <2>2. A[n] = A[n - 1] + q[n] /\ A[n - 1] \in Int
    BY <1>4, <2>1 DEF SumsOf
  <2>3. PICK out \in Seq(Nat \ {0}), buf \in Nat : out = F[n - 1].out /\ buf = F[n - 1].buf
    BY <1>5, <1>7, <2>1
  <2>4. out \in Seq(Int) /\ SumOf(out) + buf = A[n - 1] /\ (buf = 0 <=> n = 1 \/ p[n - 1].ends)
    BY <1>5, <1>7, <2>1, <2>3
  <2>5. PICK r \in Nat \ {0} : r = p[n].runes
    BY DEF FullLines
  <2>6. PICK x \in Nat \ {0} : x = (IF buf = 0 THEN r ELSE buf + 1 + r) /\ x = buf + q[n]
    <3>1. q[n] = r + IF n > 1 /\ ~ p[n - 1].ends THEN 1 ELSE 0
      BY <1>3, <2>5
    <3>2. CASE buf = 0
      BY <2>4, <3>1, <3>2
    <3>3. CASE buf # 0
      BY <2>4, <3>1, <3>3
    <3> QED BY <3>2, <3>3
  <2>7. F[n] = IF p[n].ends THEN [out |-> Append(out, x), buf |-> 0] ELSE [F[n - 1] EXCEPT !.buf = x]
    BY <1>2, <2>3, <2>5, <2>6 DEF AddToSentence
  <2>8. SumOf(out) \in Int /\ SumOf(Append(out, x)) = SumOf(out) + x
    BY <2>4, SumFacts
  <2>9. CASE p[n].ends
    <3>1. F[n].out = Append(out, x) /\ F[n].buf = 0
      BY <2>7, <2>9
    <3>2. Append(out, x) \in Seq(Nat \ {0})
      BY AppendProperties
    <3>3. SumOf(out) + x + 0 = A[n]
      <4>1. PICK a \in Int, z \in Int : a = SumOf(out) /\ z = A[n - 1] /\ a + buf = z
        BY <2>2, <2>4, <2>8
      <4>2. PICK w \in Int : w = q[n]
        OBVIOUS
      <4>3. A[n] = z + w /\ x = buf + w
        BY <2>2, <2>6, <4>1, <4>2
      <4>4. x \in Int /\ buf \in Int
        OBVIOUS
      <4>5. a + x + 0 = z + w
        BY ONLY <4>1, <4>3, <4>4, SMTT(30)
      <4> QED BY <4>1, <4>3, <4>5
    <3> QED BY <2>1, <2>8, <2>9, <3>1, <3>2, <3>3
  <2>10. CASE ~ p[n].ends
    <3>1. F[n].out = out /\ F[n].buf = x
      BY <2>3, <2>7, <2>10 DEF SentenceStates
    <3>3. SumOf(out) + x = A[n]
      BY <2>2, <2>4, <2>6, <2>8, SMTT(30)
    <3> QED BY <2>1, <2>10, <3>1, <3>3
  <2> QED BY <2>9, <2>10
<1> HIDE DEF S
<1>8. N \in S
  BY <1>6, <1>7, UpTo
<1>9. PICK out \in Seq(Nat \ {0}), buf \in Nat :
        /\ out \in Seq(Int) /\ SumOf(out) + buf = A[N]
        /\ splitSentences(p) = IF buf = 0 THEN out ELSE Append(out, buf)
  BY <1>2, <1>5, <1>8 DEF S
<1>10. PICK s \in Seq(Nat \ {0}) : s = splitSentences(p) /\ SumOf(s) = A[N]
  <2>1. SumOf(out) \in Int /\ SumOf(Append(out, buf)) = SumOf(out) + buf
    BY <1>9, SumFacts
  <2>2. CASE buf = 0
    BY <1>9, <2>1, <2>2
  <2>3. CASE buf # 0
    BY <1>9, <2>1, <2>3, AppendProperties
  <2> QED BY <2>2, <2>3
<1>11. A[N] > 0
  <2>1. q \in [1 .. N -> Nat] /\ 1 \in 1 .. N /\ q[1] > 0
    OBVIOUS
  <2>2. SumOf(q) > 0
    BY <2>1, SumOfNats
  <2> QED BY <1>4, <2>2
<1>12. s # <<>>
  <2>1. <<>> \in Seq(Int) /\ 0 \in Int
    BY EmptySeq
  <2>2. SumOf(<<>>) = 0
    BY <2>1, SumFacts
  <2> QED BY <1>10, <1>11, <2>2
<1>13. Len(s) \in Nat \ {0} /\ s \in [1 .. Len(s) -> Nat \ {0}]
  BY <1>10, <1>12, LenProperties, EmptySeq
<1> QED BY <1>3, <1>4, <1>10, <1>13

\* The weight grows by that of what is appended.
LEMMA WeightOfMore ==
    ASSUME NEW T, NEW f \in [T -> Int], NEW s \in Seq(T), NEW x \in T
    PROVE  /\ WeightOf(s, f) \in Int /\ WeightOf(<<>>, f) = 0
           /\ WeightOf(Append(s, x), f) = WeightOf(s, f) + f[x]
<1>1. PICK N \in Nat : N = Len(s) /\ s \in [1 .. N -> T]
  <2>1. Len(s) \in Nat /\ s \in [1 .. Len(s) -> T]
    BY LenProperties
  <2> QED BY <2>1
<1>2. PICK t \in [1 .. N + 1 -> T] : t = Append(s, x)
  <2>1. Append(s, x) \in Seq(T) /\ Len(Append(s, x)) = N + 1
    BY <1>1, AppendProperties
  <2>2. Append(s, x) \in [1 .. Len(Append(s, x)) -> T]
    BY <2>1, LenProperties
  <2> QED BY <2>1, <2>2
<1>3. t[N + 1] = x /\ \A n \in 1 .. N : t[n] = s[n]
  BY <1>1, <1>2
<1>4. PICK w \in [1 .. N -> Int] : w = Weighed(s, f) /\ \A n \in 1 .. N : w[n] = f[s[n]]
  <2>1. Weighed(s, f) = [n \in 1 .. N |-> f[s[n]]]
    BY <1>1 DEF Weighed
  <2> QED BY <1>1, <2>1
<1>5. w \in Seq(Int) /\ Len(w) = N /\ f[x] \in Int
  BY <1>4
<1>6. Weighed(t, f) = Append(w, f[x])
  <2>1. Weighed(t, f) = [n \in 1 .. N + 1 |-> f[t[n]]]
    BY <1>2 DEF Weighed
  <2>2. PICK v \in [1 .. N + 1 -> Int] : v = Weighed(t, f) /\ \A n \in 1 .. N + 1 : v[n] = f[t[n]]
    BY <1>2, <2>1
  <2>3. PICK u \in [1 .. N + 1 -> Int] : u = Append(w, f[x]) /\ u[N + 1] = f[x] /\ \A n \in 1 .. N : u[n] = w[n]
    <3>1. Append(w, f[x]) \in Seq(Int) /\ Len(Append(w, f[x])) = N + 1
      BY <1>5, AppendProperties
    <3>2. Append(w, f[x]) \in [1 .. N + 1 -> Int]
      BY <3>1, LenProperties
    <3>3. Append(w, f[x])[N + 1] = f[x] /\ \A n \in 1 .. N : Append(w, f[x])[n] = w[n]
      BY <1>5, AppendProperties, SMTT(30)
    <3> QED BY <3>2, <3>3
  <2>4. ASSUME NEW n \in 1 .. N + 1 PROVE v[n] = u[n]
    <3>1. CASE n = N + 1
      BY <1>3, <2>2, <2>3, <3>1
    <3>2. CASE n # N + 1
      <4>1. n \in 1 .. N
        BY <3>2
      <4>2. v[n] = f[t[n]] /\ t[n] = s[n] /\ u[n] = w[n] /\ w[n] = f[s[n]]
        BY <1>3, <1>4, <2>2, <2>3, <4>1
      <4> QED BY ONLY <4>2
    <3> QED BY ONLY <3>1, <3>2
  <2>5. v = u
    BY <2>4
  <2> QED BY <2>2, <2>3, <2>5
<1>7. SumOf(w) \in Int /\ SumOf(<<>>) = 0 /\ SumOf(Append(w, f[x])) = SumOf(w) + f[x]
  BY <1>5, SumFacts
<1>8. Weighed(<<>>, f) = <<>>
  BY DEF Weighed
<1> QED BY <1>2, <1>4, <1>6, <1>7, <1>8 DEF WeightOf

\* Paragraphs, and how long they are.
Paragraphs == Seq(FullLines) \ {<<>>}
ParagraphLength(p) == SumOf(LineLengths(p))

\* A paragraph grows by a line, and by the space before it where a sentence goes on.
LEMMA LongerParagraph ==
    ASSUME NEW p \in Seq(FullLines), NEW line \in FullLines
    PROVE  /\ ParagraphLength(p) \in Int /\ ParagraphLength(<<>>) = 0
           /\ ParagraphLength(Append(p, line)) =
                ParagraphLength(p) + line.runes + IF p # <<>> /\ ~ p[Len(p)].ends THEN 1 ELSE 0
<1>1. PICK N \in Nat : N = Len(p) /\ p \in [1 .. N -> FullLines]
  <2>1. Len(p) \in Nat /\ p \in [1 .. Len(p) -> FullLines]
    BY LenProperties
  <2> QED BY <2>1
<1>2. PICK t \in [1 .. N + 1 -> FullLines] : t = Append(p, line)
  <2>1. Append(p, line) \in Seq(FullLines) /\ Len(Append(p, line)) = N + 1
    BY <1>1, AppendProperties
  <2>2. Append(p, line) \in [1 .. Len(Append(p, line)) -> FullLines]
    BY <2>1, LenProperties
  <2> QED BY <2>1, <2>2
<1>3. t[N + 1] = line /\ \A n \in 1 .. N : t[n] = p[n]
  BY <1>1, <1>2
<1>4. PICK x \in Int : x = line.runes + IF p # <<>> /\ ~ p[Len(p)].ends THEN 1 ELSE 0
  BY SMTT(30) DEF FullLines
<1>5. PICK w \in [1 .. N -> Int] :
        w = LineLengths(p) /\ \A n \in 1 .. N : w[n] = p[n].runes + IF n > 1 /\ ~ p[n - 1].ends THEN 1 ELSE 0
  <2>1. LineLengths(p) = [n \in 1 .. N |-> p[n].runes + IF n > 1 /\ ~ p[n - 1].ends THEN 1 ELSE 0]
    BY <1>1 DEF LineLengths
  <2>2. ASSUME NEW n \in 1 .. N PROVE p[n].runes + (IF n > 1 /\ ~ p[n - 1].ends THEN 1 ELSE 0) \in Int
    <3>1. p[n] \in FullLines
      BY <1>1
    <3>2. p[n].runes \in Int
      BY <3>1 DEF FullLines
    <3>3. (IF n > 1 /\ ~ p[n - 1].ends THEN 1 ELSE 0) \in {0, 1}
      OBVIOUS
    <3> QED BY <3>2, <3>3
  <2> QED BY <2>1, <2>2
<1>6. PICK v \in [1 .. N + 1 -> Int] :
        v = LineLengths(t) /\ \A n \in 1 .. N + 1 : v[n] = t[n].runes + IF n > 1 /\ ~ t[n - 1].ends THEN 1 ELSE 0
  <2>1. LineLengths(t) = [n \in 1 .. N + 1 |-> t[n].runes + IF n > 1 /\ ~ t[n - 1].ends THEN 1 ELSE 0]
    BY <1>2 DEF LineLengths
  <2>2. ASSUME NEW n \in 1 .. N + 1 PROVE t[n].runes + (IF n > 1 /\ ~ t[n - 1].ends THEN 1 ELSE 0) \in Int
    <3>1. t[n] \in FullLines
      BY <1>2
    <3>2. t[n].runes \in Int
      BY <3>1 DEF FullLines
    <3>3. (IF n > 1 /\ ~ t[n - 1].ends THEN 1 ELSE 0) \in {0, 1}
      OBVIOUS
    <3> QED BY <3>2, <3>3
  <2> QED BY <2>1, <2>2
<1>7. w \in Seq(Int) /\ Len(w) = N
  BY <1>5
<1>8. PICK u \in [1 .. N + 1 -> Int] : u = Append(w, x) /\ u[N + 1] = x /\ \A n \in 1 .. N : u[n] = w[n]
  <2>1. Append(w, x) \in Seq(Int) /\ Len(Append(w, x)) = N + 1
    BY <1>7, AppendProperties
  <2>2. Append(w, x) \in [1 .. N + 1 -> Int]
    BY <2>1, LenProperties
  <2>3. Append(w, x)[N + 1] = x /\ \A n \in 1 .. N : Append(w, x)[n] = w[n]
    BY <1>7, AppendProperties
  <2> QED BY <2>2, <2>3
<1>9. ASSUME NEW n \in 1 .. N + 1 PROVE v[n] = u[n]
  <2>1. CASE n = N + 1
    <3>1. p # <<>> <=> n > 1
      BY <1>1, <2>1, EmptySeq
    <3>2. n > 1 => t[n - 1] = p[Len(p)]
      BY <1>1, <1>3, <2>1
    <3>3. v[n] = line.runes + IF n > 1 /\ ~ t[n - 1].ends THEN 1 ELSE 0
      BY <1>3, <1>6, <2>1
    <3>4. v[n] = x
      BY <1>4, <3>1, <3>2, <3>3
    <3> QED BY <1>8, <2>1, <3>4
  <2>2. CASE n # N + 1
    <3>1. n \in 1 .. N /\ (n > 1 => n - 1 \in 1 .. N)
      BY <2>2
    <3>2. t[n] = p[n] /\ (n > 1 => t[n - 1] = p[n - 1])
      BY <1>3, <3>1
    <3>3. v[n] = w[n]
      BY <1>5, <1>6, <3>1, <3>2
    <3> QED BY <1>8, <3>1, <3>3
  <2> QED BY <2>1, <2>2
<1>10. v = u
  BY <1>9
<1>11. SumOf(w) \in Int /\ SumOf(<<>>) = 0 /\ SumOf(Append(w, x)) = SumOf(w) + x
  BY <1>7, SumFacts
<1>12. LineLengths(<<>>) = <<>>
  BY DEF LineLengths
<1>13. ParagraphLength(Append(p, line)) = ParagraphLength(p) + x /\ ParagraphLength(p) \in Int /\ ParagraphLength(<<>>) = 0
  BY <1>2, <1>5, <1>6, <1>8, <1>10, <1>11, <1>12 DEF ParagraphLength
<1>14. line.runes \in Int
  BY DEF FullLines
<1> QED BY <1>4, <1>13, <1>14, SMTT(30)

\* The units of a paragraph: what its lines are, and one of them begins it.
LEMMA ParagraphUnitsFacts ==
    ASSUME NEW p \in Paragraphs, NEW size \in Nat \ {0}
    PROVE  UnitsHold(ParagraphUnits(p, size), ParagraphLength(p), 1)
<1>1. PICK N \in Nat \ {0} : N = Len(p) /\ p \in [1 .. N -> FullLines]
  <2>1. Len(p) \in Nat /\ p \in [1 .. Len(p) -> FullLines] /\ Len(p) # 0
    BY LenProperties, EmptySeq DEF Paragraphs
  <2> QED BY <2>1
<1>2. PICK K \in Nat \ {0} :
        splitSentences(p) \in [1 .. K -> Nat \ {0}] /\ SumOf(splitSentences(p)) = SumOf(LineLengths(p))
  BY <1>1, SentencesFacts
<1>3. PICK s \in [1 .. K -> Nat \ {0}] : s = splitSentences(p) /\ SumOf(s) = ParagraphLength(p)
  BY <1>2 DEF ParagraphLength
<1>4. PICK ss : ss = [i \in 1 .. K |-> SentenceUnits(s[i], size, i = 1)]
  OBVIOUS
<1>5. ParagraphUnits(p, size) = InARow(ss)
  BY <1>3, <1>4 DEF ParagraphUnits
<1>6. \A i \in 1 .. K : UnitsHold(ss[i], s[i], IF i = 1 THEN 1 ELSE 0)
  <2> SUFFICES ASSUME NEW i \in 1 .. K PROVE UnitsHold(ss[i], s[i], IF i = 1 THEN 1 ELSE 0)
    OBVIOUS
  <2>1. PICK first \in BOOLEAN : first = (i = 1)
    OBVIOUS
  <2>2. UnitsHold(SentenceUnits(s[i], size, first), s[i], IF first THEN 1 ELSE 0)
    BY SentenceUnitsFacts
  <2> QED BY <1>4, <2>1, <2>2
<1>7. ss \in Rows(UnitParts, K) /\ ss[1] # <<>>
  BY <1>4, <1>6 DEF UnitsHold, Rows
<1>8. runesOf \in [UnitParts -> Int] /\ startOf \in [UnitParts -> Int]
  <2>1. \A u \in UnitParts : u.runes \in Int /\ (IF u.starts THEN 1 ELSE 0) \in Int
    BY DEF UnitParts
  <2> QED BY <2>1 DEF runesOf, startOf
<1>9. /\ InARow(ss) \in Seq(UnitParts) /\ InARow(ss) # <<>>
      /\ WeightOf(InARow(ss), runesOf) = SumOf([i \in 1 .. K |-> WeightOf(ss[i], runesOf)])
      /\ WeightOf(InARow(ss), startOf) = SumOf([i \in 1 .. K |-> WeightOf(ss[i], startOf)])
  <2>1. K > 0 /\ K \in Nat
    OBVIOUS
  <2>2. ASSUME NEW f \in [UnitParts -> Int]
        PROVE  /\ InARow(ss) \in Seq(UnitParts) /\ InARow(ss) # <<>>
               /\ WeightOf(InARow(ss), f) = SumOf([i \in 1 .. K |-> WeightOf(ss[i], f)])
    BY <1>7, <2>1, WeightOfRow
  <2> QED BY <1>8, <2>2
<1>10. [i \in 1 .. K |-> WeightOf(ss[i], runesOf)] = s
  BY <1>6 DEF UnitsHold
<1>11. [i \in 1 .. K |-> WeightOf(ss[i], startOf)] = [i \in 1 .. K |-> IF TRUE /\ i = 1 THEN 1 ELSE 0]
  BY <1>6 DEF UnitsHold
<1>12. SumOf([i \in 1 .. K |-> IF TRUE /\ i = 1 THEN 1 ELSE 0]) = 1
  BY SumOfFirst
<1> QED BY <1>3, <1>5, <1>9, <1>10, <1>11, <1>12 DEF UnitsHold

-----------------------------------------------------------------------------
(* Units of a text *)

\* Where a text begins a paragraph, and where it goes on with a sentence.
Begins(text, i) == text[i].runes > 0 /\ (i = 1 \/ text[i - 1].runes = 0)
GoesOn(text, i) == text[i].runes > 0 /\ ~ Begins(text, i) /\ ~ text[i - 1].ends
LengthsIn(text) == [i \in DOMAIN text |-> text[i].runes + IF GoesOn(text, i) THEN 1 ELSE 0]
BeginsIn(text) == [i \in DOMAIN text |-> IF Begins(text, i) THEN 1 ELSE 0]

lengthOf == [p \in Paragraphs |-> ParagraphLength(p)]
Count(b) == IF b THEN 1 ELSE 0

\* What the paragraphs so far and the one that goes on are, after n lines.
HaveRead(text, n, s, length, begun) ==
    /\ s.out \in Seq(Paragraphs) /\ s.buf \in Seq(FullLines)
    /\ WeightOf(s.out, lengthOf) + ParagraphLength(s.buf) = length
    /\ Len(s.out) + Count(s.buf # <<>>) = begun
    /\ s.buf # <<>> <=> n > 0 /\ text[n].runes > 0
    /\ s.buf # <<>> => s.buf[Len(s.buf)] = text[n]

\* Lengths of paragraphs are numbers, and none are none.
LEMMA LengthsOfParagraphs ==
    /\ lengthOf \in [Paragraphs -> Int] /\ ParagraphLength(<<>>) = 0
    /\ \A p \in Seq(FullLines) : ParagraphLength(p) \in Int
<1> DEFINE line == [runes |-> 1, ends |-> TRUE]
<1>1. line \in FullLines
  BY DEF FullLines
<1> HIDE DEF line
<1>2. ASSUME NEW p \in Seq(FullLines) PROVE ParagraphLength(p) \in Int /\ ParagraphLength(<<>>) = 0
  BY <1>1, LongerParagraph
<1>3. <<>> \in Seq(FullLines)
  BY EmptySeq
<1>4. \A p \in Paragraphs : p \in Seq(FullLines)
  BY DEF Paragraphs
<1> QED BY <1>2, <1>3, <1>4 DEF lengthOf

\* A paragraph that ended is one more of them.
LEMMA EndedParagraph ==
    ASSUME NEW out \in Seq(Paragraphs), NEW buf \in Seq(FullLines), buf # <<>>
    PROVE  /\ Append(out, buf) \in Seq(Paragraphs) /\ Len(Append(out, buf)) = Len(out) + 1 /\ Len(out) \in Nat
           /\ WeightOf(out, lengthOf) \in Int
           /\ WeightOf(Append(out, buf), lengthOf) = WeightOf(out, lengthOf) + ParagraphLength(buf)
<1>1. buf \in Paragraphs
  BY DEF Paragraphs
<1>2. lengthOf[buf] = ParagraphLength(buf)
  BY <1>1 DEF lengthOf
<1> QED BY <1>1, <1>2, AppendProperties, LenProperties, LengthsOfParagraphs, WeightOfMore

\* One more line.
LEMMA ReadOn ==
    ASSUME NEW N \in Nat, NEW text \in [1 .. N -> Lines], NEW n \in 1 .. N,
           NEW s \in ParagraphStates, NEW length \in Int, NEW begun \in Int,
           HaveRead(text, n - 1, s, length, begun)
    PROVE  HaveRead(text, n, AddLine(s, text[n]), length + LengthsIn(text)[n], begun + BeginsIn(text)[n])
<1>1. PICK line \in Lines : line = text[n] /\ line.runes \in Nat
  BY DEF Lines
<1>2. PICK out, buf : out = s.out /\ buf = s.buf /\ s = [out |-> out, buf |-> buf]
  BY DEF ParagraphStates
<1>3. /\ out \in Seq(Paragraphs) /\ buf \in Seq(FullLines)
      /\ WeightOf(out, lengthOf) + ParagraphLength(buf) = length
      /\ Len(out) + Count(buf # <<>>) = begun
      /\ buf # <<>> <=> n > 1 /\ text[n - 1].runes > 0
      /\ buf # <<>> => buf[Len(buf)] = text[n - 1]
  BY <1>2 DEF HaveRead
<1>4. LengthsIn(text)[n] = line.runes + Count(GoesOn(text, n)) /\ BeginsIn(text)[n] = Count(Begins(text, n))
  BY <1>1 DEF LengthsIn, BeginsIn, Count
<1>5. n > 1 => text[n - 1].runes \in Nat
  BY DEF Lines
<1>6. Len(out) \in Nat /\ WeightOf(out, lengthOf) \in Int /\ ParagraphLength(buf) \in Int /\ ParagraphLength(<<>>) = 0
  <2>1. PICK p \in Paragraphs : TRUE
    <3> DEFINE line1 == [runes |-> 1, ends |-> TRUE]
    <3>1. line1 \in FullLines
      BY DEF FullLines
    <3> HIDE DEF line1
    <3>2. <<line1>> \in Seq(FullLines) /\ <<line1>> # <<>>
      BY <3>1
    <3> QED BY <3>2 DEF Paragraphs
  <2> QED BY <1>3, <2>1, LenProperties, LengthsOfParagraphs, WeightOfMore
<1>7. CASE line.runes = 0
  <2>1. ~ Begins(text, n) /\ ~ GoesOn(text, n)
    BY <1>1, <1>7 DEF Begins, GoesOn
  <2>2. LengthsIn(text)[n] = 0 /\ BeginsIn(text)[n] = 0
    BY <1>4, <1>7, <2>1 DEF Count
  <2>3. CASE buf = <<>>
    <3>1. AddLine(s, line) = s
      BY <1>2, <1>7, <2>3 DEF AddLine, EndParagraph
    <3>2. ~ (n > 0 /\ text[n].runes > 0)
      BY <1>1, <1>7
    <3>3. length + 0 = length /\ begun + 0 = begun
      OBVIOUS
    <3> QED BY <1>1, <1>2, <1>3, <2>2, <2>3, <3>1, <3>2, <3>3 DEF HaveRead
  <2>4. CASE buf # <<>>
    <3>1. PICK more : more = Append(out, buf)
      OBVIOUS
    <3>2. AddLine(s, line) = [out |-> more, buf |-> <<>>]
      BY <1>2, <1>7, <2>4, <3>1 DEF AddLine, EndParagraph
    <3>3. more \in Seq(Paragraphs) /\ Len(more) = Len(out) + 1
          /\ WeightOf(more, lengthOf) = WeightOf(out, lengthOf) + ParagraphLength(buf)
      BY <1>3, <2>4, <3>1, EndedParagraph
    <3>4. WeightOf(more, lengthOf) + ParagraphLength(<<>>) = length + 0
      BY <1>3, <1>6, <3>3
    <3>5. Len(more) + Count(<<>> # <<>>) = begun + 0
      BY <1>3, <1>6, <2>4, <3>3 DEF Count
    <3>6. ~ (n > 0 /\ text[n].runes > 0) /\ <<>> \in Seq(FullLines)
      BY <1>1, <1>7, EmptySeq
    <3>7. PICK e : e = AddLine(s, line) /\ e.out = more /\ e.buf = <<>>
      BY <3>2
    <3> QED BY <1>1, <2>2, <3>3, <3>4, <3>5, <3>6, <3>7 DEF HaveRead
  <2> QED BY <2>3, <2>4
<1>8. CASE line.runes # 0
  <2>1. line \in FullLines
    BY <1>1, <1>8 DEF FullLines, Lines
  <2>2. PICK more : more = Append(buf, line)
    OBVIOUS
  <2>3. PICK e : e = AddLine(s, line) /\ e.out = out /\ e.buf = more
    <3>1. AddLine(s, line) = [out |-> out, buf |-> more]
      BY <1>2, <1>8, <2>2 DEF AddLine
    <3> QED BY <3>1
  <2>4. more \in Seq(FullLines) /\ more # <<>> /\ more[Len(more)] = line
    <3>1. more \in Seq(FullLines) /\ Len(more) = Len(buf) + 1 /\ more[Len(buf) + 1] = line /\ Len(buf) \in Nat
      BY <1>3, <2>1, <2>2, AppendProperties, LenProperties
    <3> QED BY <3>1, EmptySeq
  <2>5. ParagraphLength(more) = ParagraphLength(buf) + line.runes + Count(buf # <<>> /\ ~ buf[Len(buf)].ends)
    BY <1>3, <2>1, <2>2, LongerParagraph DEF Count
  <2>6. Begins(text, n) <=> buf = <<>>
    BY <1>1, <1>3, <1>5, <1>8 DEF Begins
  <2>7. GoesOn(text, n) <=> buf # <<>> /\ ~ buf[Len(buf)].ends
    BY <1>1, <1>3, <1>8, <2>6 DEF GoesOn
  <2>8. WeightOf(out, lengthOf) + ParagraphLength(more) = length + LengthsIn(text)[n]
    <3>1. PICK c \in Nat : c = Count(GoesOn(text, n)) /\ c = Count(buf # <<>> /\ ~ buf[Len(buf)].ends)
      BY <2>7 DEF Count
    <3> QED BY <1>1, <1>3, <1>4, <1>6, <2>5, <3>1, SMTT(30)
  <2>9. Len(out) + Count(more # <<>>) = begun + BeginsIn(text)[n]
    <3>1. CASE buf = <<>>
      BY <1>3, <1>4, <1>6, <2>4, <2>6, <3>1 DEF Count
    <3>2. CASE buf # <<>>
      BY <1>3, <1>4, <1>6, <2>4, <2>6, <3>2 DEF Count
    <3> QED BY <3>1, <3>2
  <2>10. n > 0 /\ text[n].runes > 0
    BY <1>1, <1>8
  <2> QED BY <1>1, <1>3, <2>3, <2>4, <2>8, <2>9, <2>10 DEF HaveRead
<1> QED BY <1>7, <1>8

\* The paragraphs of a text that has a line that is not blank.
LEMMA ParagraphsFacts ==
    ASSUME NEW N \in Nat, NEW text \in [1 .. N -> Lines], NEW l \in 1 .. N, text[l].runes > 0
    PROVE  /\ splitParagraphs(text) \in Seq(Paragraphs) /\ splitParagraphs(text) # <<>>
           /\ WeightOf(splitParagraphs(text), lengthOf) = SumOf(LengthsIn(text))
           /\ Len(splitParagraphs(text)) = SumOf(BeginsIn(text))
<1>1. PICK F \in [0 .. N -> ParagraphStates] :
        /\ F[0] = NoParagraph /\ splitParagraphs(text) = EndParagraph(F[N]).out
        /\ \A n \in 1 .. N : F[n] = AddLine(F[n - 1], text[n])
  BY ParagraphSteps
<1>2. PICK a \in [1 .. N -> Nat] : a = LengthsIn(text) /\ a[l] > 0
  <2>1. \A i \in 1 .. N : text[i].runes \in Nat
    BY DEF Lines
  <2>2. LengthsIn(text) = [i \in 1 .. N |-> text[i].runes + IF GoesOn(text, i) THEN 1 ELSE 0]
    BY DEF LengthsIn
  <2>3. ASSUME NEW i \in 1 .. N
        PROVE  text[i].runes + (IF GoesOn(text, i) THEN 1 ELSE 0) \in Nat
               /\ (text[i].runes > 0 => text[i].runes + (IF GoesOn(text, i) THEN 1 ELSE 0) > 0)
    <3>1. PICK r \in Nat : r = text[i].runes
      BY <2>1
    <3>2. PICK x \in {0, 1} : x = IF GoesOn(text, i) THEN 1 ELSE 0
      OBVIOUS
    <3> QED BY <3>1, <3>2
  <2> QED BY <2>2, <2>3
<1>3. PICK b \in [1 .. N -> Nat] : b = BeginsIn(text)
  <2>1. BeginsIn(text) = [i \in 1 .. N |-> IF Begins(text, i) THEN 1 ELSE 0]
    BY DEF BeginsIn
  <2> QED BY <2>1
<1>4. PICK A : SumsOf(a, N, A) /\ SumOf(a) = A[N]
  <2>1. a \in [1 .. N -> Int]
    OBVIOUS
  <2> QED BY <2>1, SumsFacts
<1>5. PICK B : SumsOf(b, N, B) /\ SumOf(b) = B[N]
  <2>1. b \in [1 .. N -> Int]
    OBVIOUS
  <2> QED BY <2>1, SumsFacts
<1> DEFINE S == {n \in 0 .. N : HaveRead(text, n, F[n], A[n], B[n])}
<1>6. 0 \in S
  <2>1. NoParagraph.out = <<>> /\ NoParagraph.buf = <<>>
    BY DEF NoParagraph
  <2>2. <<>> \in Seq(Paragraphs) /\ <<>> \in Seq(FullLines) /\ Len(<<>>) = 0
    BY EmptySeq
  <2>3. WeightOf(<<>>, lengthOf) = 0
    <3>1. Weighed(<<>>, lengthOf) = <<>>
      BY DEF Weighed
    <3>2. <<>> \in Seq(Int) /\ 0 \in Int
      BY EmptySeq
    <3>3. SumOf(<<>>) = 0
      BY <3>2, SumFacts
    <3> QED BY <3>1, <3>3 DEF WeightOf
  <2>4. A[0] = 0 /\ B[0] = 0
    BY <1>4, <1>5 DEF SumsOf
  <2>5. WeightOf(NoParagraph.out, lengthOf) + ParagraphLength(NoParagraph.buf) = 0
    BY <2>1, <2>3, LengthsOfParagraphs
  <2>6. Len(NoParagraph.out) + Count(NoParagraph.buf # <<>>) = 0
    BY <2>1, <2>2 DEF Count
  <2>7. HaveRead(text, 0, NoParagraph, 0, 0)
    BY <2>1, <2>2, <2>5, <2>6 DEF HaveRead
  <2> QED BY <1>1, <2>1, <2>4, <2>7
<1>7. ASSUME NEW n \in 1 .. N, n - 1 \in S PROVE n \in S
  <2>1. n - 1 \in 0 .. N /\ n \in 0 .. N
    OBVIOUS
  <2>2. A[n] = A[n - 1] + a[n] /\ A[n - 1] \in Int /\ B[n] = B[n - 1] + b[n] /\ B[n - 1] \in Int
    BY <1>4, <1>5, <2>1 DEF SumsOf
  <2>3. F[n - 1] \in ParagraphStates /\ HaveRead(text, n - 1, F[n - 1], A[n - 1], B[n - 1])
    BY <1>7, <2>1
  <2>4. HaveRead(text, n, AddLine(F[n - 1], text[n]), A[n - 1] + LengthsIn(text)[n], B[n - 1] + BeginsIn(text)[n])
    BY <2>2, <2>3, ReadOn
  <2> QED BY <1>1, <1>2, <1>3, <2>1, <2>2, <2>4
<1> HIDE DEF S
<1>8. N \in S
  BY <1>6, <1>7, UpTo
<1>9. HaveRead(text, N, F[N], A[N], B[N]) /\ F[N] \in ParagraphStates
  BY <1>8 DEF S
<1>10. PICK out \in Seq(Paragraphs), buf \in Seq(FullLines) : F[N] = [out |-> out, buf |-> buf]
  BY <1>9 DEF HaveRead, ParagraphStates
<1>11. WeightOf(out, lengthOf) + ParagraphLength(buf) = A[N] /\ Len(out) + Count(buf # <<>>) = B[N]
  BY <1>9, <1>10 DEF HaveRead
<1>12. PICK p : p = splitParagraphs(text) /\ p = IF buf = <<>> THEN out ELSE Append(out, buf)
  BY <1>1, <1>10 DEF EndParagraph
<1>13. p \in Seq(Paragraphs) /\ WeightOf(p, lengthOf) = A[N] /\ Len(p) = B[N]
  <2>1. CASE buf = <<>>
    <3>1. Len(out) \in Nat /\ Count(buf # <<>>) = 0 /\ ParagraphLength(buf) = 0
      BY <2>1, LenProperties, LengthsOfParagraphs DEF Count
    <3>2. WeightOf(out, lengthOf) \in Int
      <4>1. lengthOf \in [Paragraphs -> Int] /\ <<>> \in Seq(Paragraphs)
        BY LengthsOfParagraphs, EmptySeq
      <4> QED BY <4>1, WeightOfTwo
    <3> QED BY <1>11, <1>12, <2>1, <3>1, <3>2
  <2>2. CASE buf # <<>>
    <3>1. Count(buf # <<>>) = 1
      BY <2>2 DEF Count
    <3> QED BY <1>11, <1>12, <2>2, <3>1, EndedParagraph
  <2> QED BY <2>1, <2>2
<1>14. A[N] > 0
  <2>1. SumOf(a) > 0
    BY <1>2, SumOfNats
  <2> QED BY <1>4, <2>1
<1>15. ASSUME p = <<>> PROVE FALSE
  <2>1. Weighed(<<>>, lengthOf) = <<>>
    BY DEF Weighed
  <2>2. <<>> \in Seq(Int) /\ 0 \in Int
    BY EmptySeq
  <2>3. SumOf(<<>>) = 0
    BY <2>2, SumFacts
  <2>4. WeightOf(<<>>, lengthOf) = 0
    BY <2>1, <2>3 DEF WeightOf
  <2>5. A[N] = 0
    BY <1>13, <1>15, <2>4
  <2> QED BY ONLY <1>14, <2>5
<1> QED BY <1>2, <1>3, <1>4, <1>5, <1>12, <1>13, <1>15

\* The units of a text: they are numbered and hold what the lines hold.
Units == [no : Nat, runes : Nat, tokens : Nat \ {0}, starts : BOOLEAN]
Numbered(units) == units \in Seq(Units) /\ units # <<>> /\ \A n \in DOMAIN units : units[n].no = n
LEMMA UnitsFacts ==
    ASSUME NEW N \in Nat, NEW text \in [1 .. N -> Lines], NEW l \in 1 .. N, text[l].runes > 0,
           NEW size \in Nat \ {0}
    PROVE  /\ Numbered(buildSentenceUnits(text, size))
           /\ LET units == buildSentenceUnits(text, size)
              IN  /\ SumOf([n \in DOMAIN units |-> units[n].runes]) = SumOf(LengthsIn(text))
                  /\ SumOf([n \in DOMAIN units |-> Count(units[n].starts)]) = SumOf(BeginsIn(text))
<1>1. PICK p \in Seq(Paragraphs) : p = splitParagraphs(text) /\ p # <<>>
        /\ WeightOf(p, lengthOf) = SumOf(LengthsIn(text)) /\ Len(p) = SumOf(BeginsIn(text))
  BY ParagraphsFacts
<1>2. PICK K \in Nat \ {0} : K = Len(p) /\ p \in [1 .. K -> Paragraphs]
  <2>1. Len(p) \in Nat /\ p \in [1 .. Len(p) -> Paragraphs] /\ Len(p) # 0
    BY <1>1, LenProperties, EmptySeq
  <2> QED BY <2>1
<1>3. PICK ss : ss = [i \in 1 .. K |-> ParagraphUnits(p[i], size)]
  OBVIOUS
<1>4. \A i \in 1 .. K : UnitsHold(ss[i], ParagraphLength(p[i]), 1)
  BY <1>2, <1>3, ParagraphUnitsFacts
<1>5. ss \in Rows(UnitParts, K) /\ ss[1] # <<>>
  BY <1>3, <1>4 DEF UnitsHold, Rows
<1>6. runesOf \in [UnitParts -> Int] /\ startOf \in [UnitParts -> Int]
  <2>1. \A u \in UnitParts : u.runes \in Int /\ (IF u.starts THEN 1 ELSE 0) \in Int
    BY DEF UnitParts
  <2> QED BY <2>1 DEF runesOf, startOf
<1>7. PICK row : row = InARow(ss)
  OBVIOUS
<1>8. /\ row \in Seq(UnitParts) /\ row # <<>>
      /\ WeightOf(row, runesOf) = SumOf([i \in 1 .. K |-> WeightOf(ss[i], runesOf)])
      /\ WeightOf(row, startOf) = SumOf([i \in 1 .. K |-> WeightOf(ss[i], startOf)])
  <2>1. K > 0 /\ K \in Nat
    OBVIOUS
  <2>2. ASSUME NEW f \in [UnitParts -> Int]
        PROVE  /\ InARow(ss) \in Seq(UnitParts) /\ InARow(ss) # <<>>
               /\ WeightOf(InARow(ss), f) = SumOf([i \in 1 .. K |-> WeightOf(ss[i], f)])
    BY <1>5, <2>1, WeightOfRow
  <2> QED BY <1>6, <1>7, <2>2
<1>9. [i \in 1 .. K |-> WeightOf(ss[i], runesOf)] = Weighed(p, lengthOf)
  <2>1. Weighed(p, lengthOf) = [i \in 1 .. K |-> lengthOf[p[i]]]
    BY <1>2 DEF Weighed
  <2>2. \A i \in 1 .. K : lengthOf[p[i]] = ParagraphLength(p[i]) /\ WeightOf(ss[i], runesOf) = ParagraphLength(p[i])
    BY <1>2, <1>4 DEF lengthOf, UnitsHold
  <2> QED BY <2>1, <2>2
<1>10. SumOf([i \in 1 .. K |-> WeightOf(ss[i], startOf)]) = K
  <2>1. [i \in 1 .. K |-> WeightOf(ss[i], startOf)] = [i \in 1 .. K |-> 1]
    BY <1>4 DEF UnitsHold
  <2> QED BY <2>1, SumOfOnes
<1>11. WeightOf(row, runesOf) = SumOf(LengthsIn(text)) /\ WeightOf(row, startOf) = SumOf(BeginsIn(text))
  BY <1>1, <1>2, <1>8, <1>9, <1>10 DEF WeightOf
<1>12. PICK M \in Nat \ {0} : M = Len(row) /\ row \in [1 .. M -> UnitParts]
  <2>1. Len(row) \in Nat /\ row \in [1 .. Len(row) -> UnitParts] /\ Len(row) # 0
    BY <1>8, LenProperties, EmptySeq
  <2> QED BY <2>1
<1>13. PICK units : units = buildSentenceUnits(text, size)
  OBVIOUS
<1>14. units = [n \in 1 .. M |-> [no |-> n, runes |-> row[n].runes, tokens |-> row[n].tokens, starts |-> row[n].starts]]
  BY <1>1, <1>2, <1>3, <1>7, <1>12, <1>13 DEF buildSentenceUnits
<1>15. units \in [1 .. M -> Units] /\ \A n \in 1 .. M : units[n].no = n /\ units[n].runes = row[n].runes
                                                        /\ units[n].starts = row[n].starts
  <2>1. \A n \in 1 .. M : row[n].runes \in Nat /\ row[n].tokens \in Nat \ {0} /\ row[n].starts \in BOOLEAN
    BY <1>12 DEF UnitParts
  <2> QED BY <1>14, <2>1 DEF Units
<1>16. Numbered(units)
  <2>1. units \in Seq(Units) /\ units # <<>>
    BY <1>15
  <2> QED BY <1>15, <2>1 DEF Numbered
<1>17. [n \in DOMAIN units |-> units[n].runes] = Weighed(row, runesOf)
  <2>1. Weighed(row, runesOf) = [n \in 1 .. M |-> runesOf[row[n]]]
    BY <1>12 DEF Weighed
  <2>2. \A n \in 1 .. M : runesOf[row[n]] = row[n].runes
    BY <1>12 DEF runesOf
  <2> QED BY <1>15, <2>1, <2>2
<1>18. [n \in DOMAIN units |-> Count(units[n].starts)] = Weighed(row, startOf)
  <2>1. Weighed(row, startOf) = [n \in 1 .. M |-> startOf[row[n]]]
    BY <1>12 DEF Weighed
  <2>2. \A n \in 1 .. M : startOf[row[n]] = Count(row[n].starts)
    BY <1>12 DEF startOf, Count
  <2> QED BY <1>15, <2>1, <2>2
<1> QED BY <1>11, <1>13, <1>16, <1>17, <1>18 DEF WeightOf

\* A unit has room for some text.
LEMMA UnitRunesPositive == ASSUME NEW t \in 1 .. 2 PROVE UnitRunes(t) \in Nat \ {0}
<1>1. TierSize[t] \in Nat /\ UnitFactor \in Nat /\ MinUnit \in Nat \ {0}
  BY ChunkingAssumption
<1>2. TierSize[t] * UnitFactor \in Int
  BY <1>1
<1> QED BY <1>1, <1>2 DEF UnitRunes

\* The lines of a text.
Readables == {text \in Seq(Lines) : HasText(text)}
LEMMA TextFacts ==
    ASSUME NEW text \in Readables
    PROVE  \E N \in Nat : text \in [1 .. N -> Lines] /\ \E l \in 1 .. N : text[l].runes > 0
<1>1. Len(text) \in Nat /\ text \in [1 .. Len(text) -> Lines]
  BY LenProperties DEF Readables
<1>2. \E l \in 1 .. Len(text) : text[l].runes > 0
  BY <1>1 DEF Readables, HasText
<1> QED BY <1>1, <1>2

\* The units of a block hold what its lines hold.
LEMMA UnitsAreKept ==
    ASSUME NEW b, NEW t \in 1 .. 2, textBlocks[b].text \in Readables
    PROVE  Numbered(UnitsOf(textBlocks[b].text, t)) /\ UnitsKept(b, t)
<1>1. PICK text \in Readables : text = textBlocks[b].text
  OBVIOUS
<1>2. PICK N \in Nat : text \in [1 .. N -> Lines] /\ \E l \in 1 .. N : text[l].runes > 0
  BY TextFacts
<1>3. PICK units : units = UnitsOf(text, t)
  OBVIOUS
<1>4. /\ Numbered(units)
      /\ SumOf([n \in DOMAIN units |-> units[n].runes]) = SumOf(LengthsIn(text))
      /\ SumOf([n \in DOMAIN units |-> Count(units[n].starts)]) = SumOf(BeginsIn(text))
  BY <1>2, <1>3, UnitRunesPositive, UnitsFacts DEF UnitsOf
<1>5. PICK M \in Nat : DOMAIN units = 1 .. M /\ units \in [1 .. M -> Units]
  <2>1. Len(units) \in Nat /\ units \in [1 .. Len(units) -> Units]
    BY <1>4, LenProperties DEF Numbered
  <2> QED BY <2>1
<1>6. SumOf([n \in DOMAIN units |-> Count(units[n].starts)]) = Cardinality({n \in DOMAIN units : units[n].starts})
  <2>1. PICK s \in [1 .. M -> BOOLEAN] : s = [n \in 1 .. M |-> units[n].starts]
    BY <1>5 DEF Units
  <2>2. [n \in DOMAIN units |-> Count(units[n].starts)] = [n \in 1 .. M |-> IF s[n] THEN 1 ELSE 0]
    BY <1>5, <2>1 DEF Count
  <2>3. {n \in DOMAIN units : units[n].starts} = {n \in 1 .. M : s[n]}
    BY <1>5, <2>1
  <2> QED BY <2>2, <2>3, CountIsSum
<1>7. SumOf(BeginsIn(text)) = Cardinality({i \in DOMAIN text : Begins(text, i)})
  <2>1. PICK s \in [1 .. N -> BOOLEAN] : s = [i \in 1 .. N |-> Begins(text, i)]
    BY DEF Begins
  <2>2. BeginsIn(text) = [i \in 1 .. N |-> IF s[i] THEN 1 ELSE 0]
    BY <1>2, <2>1 DEF BeginsIn
  <2>3. {i \in DOMAIN text : Begins(text, i)} = {i \in 1 .. N : s[i]}
    BY <1>2, <2>1
  <2> QED BY <2>2, <2>3, CountIsSum
<1>8. SumOf(LengthsIn(text)) = SumOf([i \in DOMAIN text |-> text[i].runes]) + Cardinality({i \in DOMAIN text : GoesOn(text, i)})
  <2>1. PICK s \in [1 .. N -> BOOLEAN] : s = [i \in 1 .. N |-> GoesOn(text, i)]
    BY DEF GoesOn
  <2>2. PICK c \in [1 .. N -> Int] : c = [i \in 1 .. N |-> IF s[i] THEN 1 ELSE 0]
    <3>1. \A i \in 1 .. N : (IF s[i] THEN 1 ELSE 0) \in Int
      OBVIOUS
    <3> QED BY <3>1
  <2>3. PICK r \in [1 .. N -> Int] : r = [i \in 1 .. N |-> text[i].runes]
    <3>1. \A i \in 1 .. N : text[i].runes \in Int
      BY <1>2 DEF Lines
    <3> QED BY <3>1
  <2>4. LengthsIn(text) = [i \in 1 .. N |-> r[i] + c[i]]
    BY <1>2, <2>1, <2>2, <2>3 DEF LengthsIn
  <2>5. SumOf([i \in 1 .. N |-> r[i] + c[i]]) = SumOf(r) + SumOf(c)
    BY SumOfPairs
  <2>6. SumOf(c) = Cardinality({i \in 1 .. N : s[i]})
    BY <2>2, CountIsSum
  <2>7. {i \in DOMAIN text : GoesOn(text, i)} = {i \in 1 .. N : s[i]}
    BY <1>2, <2>1
  <2>8. [i \in DOMAIN text |-> text[i].runes] = r
    BY <1>2, <2>3
  <2> QED BY <2>4, <2>5, <2>6, <2>7, <2>8
<1>9. UnitsKept(b, t)
  <2> HIDE DEF Begins
  <2>1. {i \in DOMAIN text : Begins(text, i)}
          = {i \in DOMAIN text : text[i].runes > 0 /\ (i = 1 \/ text[i - 1].runes = 0)}
    BY DEF Begins
  <2>2. {i \in DOMAIN text : GoesOn(text, i)}
          = {i \in DOMAIN text : /\ text[i].runes > 0
                                 /\ ~ (text[i].runes > 0 /\ (i = 1 \/ text[i - 1].runes = 0))
                                 /\ ~ text[i - 1].ends}
    BY DEF GoesOn, Begins
  <2>3. SumOf([n \in DOMAIN units |-> units[n].runes])
          = SumOf([i \in DOMAIN text |-> text[i].runes]) + Cardinality({i \in DOMAIN text : GoesOn(text, i)})
    BY <1>4, <1>8
  <2>4. Cardinality({n \in DOMAIN units : units[n].starts}) = Cardinality({i \in DOMAIN text : Begins(text, i)})
    BY <1>4, <1>6, <1>7
  <2> QED BY ONLY <1>1, <1>3, <2>1, <2>2, <2>3, <2>4 DEF UnitsKept
<1> QED BY <1>1, <1>3, <1>4, <1>9

-----------------------------------------------------------------------------
(* Chunks of a tier *)

\* Units with a first and a last one, by their numbers.
Begin(s) == s[1].no
End(s) == s[Len(s)].no

\* A part of the units of a text, from its first to its last place.
Places(u, f, e) == f \in 1 .. Len(u) /\ e \in f .. Len(u)
IsSpan(u, f, e, s) ==
    /\ s = SubSeq(u, f, e) /\ s \in Seq(Units) /\ Len(s) = e - f + 1 /\ s # <<>>
    /\ Begin(s) = f /\ End(s) = e
    /\ \A i \in 1 .. Len(s) : s[i] = u[f + i - 1]
LEMMA SpanFacts ==
    ASSUME NEW u, Numbered(u), NEW f, NEW e, Places(u, f, e)
    PROVE  IsSpan(u, f, e, SubSeq(u, f, e))
<1> USE DEF Places
<1>1. u \in Seq(Units) /\ Len(u) \in Nat /\ \A n \in 1 .. Len(u) : u[n] \in Units /\ u[n].no = n
  BY LenProperties DEF Numbered
<1>2. PICK s : s = SubSeq(u, f, e)
  OBVIOUS
<1>3. s \in Seq(Units) /\ Len(s) = e - f + 1 /\ \A i \in 1 .. e - f + 1 : s[i] = u[f + i - 1]
  <2>1. f \in Int /\ e \in Int /\ f <= e /\ \A i \in f .. e : u[i] \in Units
    BY <1>1
  <2> QED BY <1>2, <2>1, SubSeqProperties
<1>4. s[1] = u[f] /\ s[Len(s)] = u[e]
  <2>1. 1 \in 1 .. e - f + 1 /\ e - f + 1 \in 1 .. e - f + 1 /\ f + 1 - 1 = f /\ f + (e - f + 1) - 1 = e
    BY <1>1
  <2> QED BY <1>3, <2>1
<1>5. f \in 1 .. Len(u) /\ e \in 1 .. Len(u)
  BY <1>1
<1>6. Begin(s) = f /\ End(s) = e
  BY <1>1, <1>4, <1>5 DEF Begin, End
<1>7. s # <<>>
  <2>1. Len(s) # 0
    BY <1>1, <1>3
  <2> QED BY <1>3, <2>1, EmptySeq
<1> QED BY <1>2, <1>3, <1>6, <1>7 DEF IsSpan

\* It goes on with the next unit.
LEMMA LongerSpan ==
    ASSUME NEW u, Numbered(u), NEW f, NEW e, Places(u, f, e), e < Len(u)
    PROVE  Append(SubSeq(u, f, e), u[e + 1]) = SubSeq(u, f, e + 1)
<1>1. u \in Seq(Units) /\ Len(u) \in Nat /\ \A n \in 1 .. Len(u) : u[n] \in Units
  BY LenProperties DEF Numbered
<1>2. PICK s : s = SubSeq(u, f, e) /\ s \in Seq(Units) /\ Len(s) = e - f + 1 /\ \A i \in 1 .. Len(s) : s[i] = u[f + i - 1]
  <2>1. IsSpan(u, f, e, SubSeq(u, f, e))
    BY SpanFacts
  <2> QED BY <2>1 DEF IsSpan
<1>3. PICK d \in f .. Len(u) : d = e + 1 /\ d \in 1 .. Len(u) /\ Places(u, f, d) /\ f \in Int
  BY <1>1 DEF Places
<1>4. PICK r : r = SubSeq(u, f, d) /\ r \in Seq(Units) /\ Len(r) = d - f + 1 /\ \A i \in 1 .. Len(r) : r[i] = u[f + i - 1]
  <2>1. IsSpan(u, f, d, SubSeq(u, f, d))
    BY <1>3, SpanFacts
  <2> QED BY <2>1 DEF IsSpan
<1>5. PICK t : t = Append(s, u[d]) /\ t \in Seq(Units) /\ Len(t) = Len(s) + 1 /\ t[Len(s) + 1] = u[d]
        /\ \A i \in 1 .. Len(s) : t[i] = s[i]
  <2>1. PICK x \in Units : x = u[d]
    BY <1>1, <1>3
  <2>2. s \in Seq(Units)
    BY <1>2
  <2>3. Append(s, x) \in Seq(Units) /\ Len(Append(s, x)) = Len(s) + 1 /\ Append(s, x)[Len(s) + 1] = x
        /\ \A i \in 1 .. Len(s) : Append(s, x)[i] = s[i]
    BY ONLY <2>2, x \in Units, AppendProperties
  <2> HIDE DEF Numbered
  <2> QED BY ONLY <2>1, <2>3
<1>6. Len(t) = Len(r)
  BY <1>2, <1>3, <1>4, <1>5
<1>7. ASSUME NEW i \in 1 .. Len(t) PROVE t[i] = r[i]
  <2>1. CASE i = Len(s) + 1
    <3>1. f + i - 1 = d
      BY <1>2, <1>3, <2>1, SMTT(30)
    <3> QED BY <1>4, <1>5, <1>6, <2>1, <3>1
  <2>2. CASE i # Len(s) + 1
    <3>1. i \in 1 .. Len(s)
      BY <1>2, <1>5, <2>2
    <3> QED BY <1>2, <1>4, <1>5, <1>6, <3>1
  <2> QED BY <2>1, <2>2
<1>8. t = r
  BY <1>4, <1>5, <1>6, <1>7, SeqEqual
<1> QED BY <1>2, <1>3, <1>4, <1>5, <1>8

\* Tokens of units are numbers, of one unit its own, and one more unit adds its own.
LEMMA TokenFacts ==
    ASSUME NEW s \in Seq(Units), NEW x \in Units
    PROVE  /\ unitsTokenLen(s) \in Int /\ unitsTokenLen(<<>>) = 0 /\ x.tokens \in Nat \ {0}
           /\ unitsTokenLen(Append(s, x)) = unitsTokenLen(s) + x.tokens
<1> DEFINE tokensOf == [v \in Units |-> v.tokens]
<1>1. tokensOf \in [Units -> Int] /\ \A v \in Units : tokensOf[v] = v.tokens
  BY DEF Units
<1> HIDE DEF tokensOf
<1>2. \A r \in Seq(Units) : unitsTokenLen(r) = WeightOf(r, tokensOf)
  <2> SUFFICES ASSUME NEW r \in Seq(Units) PROVE unitsTokenLen(r) = WeightOf(r, tokensOf)
    OBVIOUS
  <2>1. Len(r) \in Nat /\ r \in [1 .. Len(r) -> Units]
    BY LenProperties
  <2>2. [i \in DOMAIN r |-> r[i].tokens] = Weighed(r, tokensOf)
    BY <1>1, <2>1 DEF Weighed
  <2> QED BY <2>2 DEF unitsTokenLen, WeightOf
<1>3. <<>> \in Seq(Units) /\ Append(s, x) \in Seq(Units)
  BY EmptySeq, AppendProperties
<1>4. WeightOf(s, tokensOf) \in Int /\ WeightOf(<<>>, tokensOf) = 0
      /\ WeightOf(Append(s, x), tokensOf) = WeightOf(s, tokensOf) + tokensOf[x]
  BY <1>1, WeightOfMore
<1>5. x.tokens \in Nat \ {0}
  BY DEF Units
<1> QED BY <1>1, <1>2, <1>3, <1>4, <1>5

\* There are units.
LEMMA SomeUnit == \E x : x \in Units
<1>1. [no |-> 1, runes |-> 1, tokens |-> 1, starts |-> TRUE] \in Units
  BY DEF Units
<1> QED BY <1>1

KeptOf(u, f, e, o, kept) ==
    kept = <<>> \/ \E g \in f .. e : kept = SubSeq(u, g, e) /\ unitsTokenLen(SubSeq(u, g + 1, e)) < o

\* What is kept of a chunk: nothing, or an end of it that is no longer than it needs to be.
LEMMA KeptFacts ==
    ASSUME NEW u, Numbered(u), NEW f, NEW e, Places(u, f, e), NEW o \in Nat,
           NEW kept, kept = overlapUnitsByTokens(SubSeq(u, f, e), o)
    PROVE  KeptOf(u, f, e, o, kept)
<1> USE DEF KeptOf
<1>1. u \in Seq(Units) /\ Len(u) \in Nat /\ f \in 1 .. Len(u) /\ e \in f .. Len(u)
  BY LenProperties DEF Numbered, Places
<1>2. PICK s : s = SubSeq(u, f, e) /\ s \in Seq(Units) /\ Len(s) = e - f + 1 /\ s # <<>>
  <2>1. IsSpan(u, f, e, SubSeq(u, f, e))
    BY SpanFacts
  <2> QED BY <2>1 DEF IsSpan
<1>3. PICK L \in Nat \ {0} : L = Len(s) /\ DOMAIN s = 1 .. L
  <2>1. Len(s) \in Nat /\ DOMAIN s = 1 .. Len(s) /\ Len(s) # 0
    BY <1>2, LenProperties, EmptySeq
  <2> QED BY <2>1
<1>4. CASE o <= 0
  BY <1>2, <1>4 DEF overlapUnitsByTokens
<1>5. CASE ~ o <= 0
  <2> DEFINE P == {1} \cup {i \in 1 .. L : unitsTokenLen(SubSeq(s, i, L)) >= o}
  <2>1. PICK k : k = Max(P) /\ kept = SubSeq(s, k, L)
    BY <1>2, <1>3, <1>5 DEF overlapUnitsByTokens
  <2>2. P \in SUBSET (0 .. L) /\ P # {} /\ P \subseteq 1 .. L
    OBVIOUS
  <2>3. k \in P /\ \A y \in P : y <= k
    <3> HIDE DEF P
    <3> QED BY <1>3, <2>1, <2>2, GreatestIs
  <2>4. k \in 1 .. L
    BY <2>2, <2>3
  <2>5. PICK g \in f .. e : g = f + k - 1
    BY <1>1, <1>2, <1>3, <2>4
  <2>6. ASSUME NEW i \in 1 .. L PROVE SubSeq(s, i, L) = SubSeq(u, f + i - 1, e)
    <3>1. f \in 1 .. Len(u) /\ e \in 1 .. Len(u) /\ i \in 1 .. e - f + 1 /\ L \in 1 .. e - f + 1 /\ f + L - 1 = e
      BY <1>1, <1>2, <1>3
    <3>2. SubSeq(SubSeq(u, f, e), i, L) = SubSeq(u, f + i - 1, f + L - 1)
      BY <1>1, <3>1, SubSeqOfSubSeq
    <3> QED BY <1>2, <3>1, <3>2
  <2>7. kept = SubSeq(u, g, e)
    BY <2>1, <2>4, <2>5, <2>6
  <2>8. unitsTokenLen(SubSeq(u, g + 1, e)) < o
    <3>1. CASE k = L
      <4>1. g + 1 \in Int /\ e \in Int /\ e < g + 1
        BY <1>1, <1>2, <1>3, <2>5, <3>1
      <4>2. SubSeq(u, g + 1, e) = <<>>
        BY <4>1, SubSeqEmpty
      <4>3. unitsTokenLen(<<>>) = 0
        <5>1. <<>> \in Seq(Units)
          BY EmptySeq
        <5>2. PICK x : x \in Units
          BY SomeUnit
        <5> QED BY <5>1, <5>2, TokenFacts
      <4>4. unitsTokenLen(SubSeq(u, g + 1, e)) = 0
        BY ONLY <4>2, <4>3, Zenon
      <4> QED BY <1>5, <4>4
    <3>2. CASE k # L
      <4>1. PICK j \in 1 .. L : j = k + 1
        BY <2>4, <3>2
      <4>2. j \notin P
        <5>1. ~ j <= k
          BY <2>4, <4>1
        <5> QED BY <2>3, <5>1
      <4>3. ~ unitsTokenLen(SubSeq(s, j, L)) >= o
        BY <4>2
      <4>4. f + j - 1 = g + 1 /\ g + 1 \in 1 .. Len(u) /\ e \in g + 1 .. Len(u) /\ Places(u, g + 1, e)
        BY <1>1, <1>2, <1>3, <2>4, <2>5, <3>2, <4>1 DEF Places
      <4>5. PICK r \in Seq(Units) : r = SubSeq(u, g + 1, e) /\ r = SubSeq(s, j, L)
        <5>1. IsSpan(u, g + 1, e, SubSeq(u, g + 1, e))
          BY <4>4, SpanFacts
        <5>2. SubSeq(u, g + 1, e) = SubSeq(s, j, L)
          BY <2>6, <4>1, <4>4
        <5> QED BY <5>1, <5>2 DEF IsSpan
      <4>6. unitsTokenLen(r) \in Int
        <5>1. PICK x : x \in Units
          BY SomeUnit
        <5> QED BY <5>1, TokenFacts
      <4>7. PICK n \in Int : n = unitsTokenLen(r)
        BY <4>6
      <4>8. unitsTokenLen(SubSeq(s, j, L)) = n /\ unitsTokenLen(SubSeq(u, g + 1, e)) = n
        BY ONLY <4>5, <4>7, Zenon
      <4>9. ~ n >= o
        BY <4>3, <4>8
      <4> QED BY <4>8, <4>9
    <3> QED BY <3>1, <3>2
  <2> QED BY <2>7, <2>8
<1> QED BY <1>4, <1>5

\* A chunk of the units u in tier t, and one that follows another.
FitsTier(u, t, s) ==
    /\ Places(u, Begin(s), End(s)) /\ s = SubSeq(u, Begin(s), End(s))
    /\ unitsTokenLen(s) <= TierSize[t] \/ Len(s) = 1
Follows(u, t, r, s) ==
    /\ Begin(r) < Begin(s) /\ Begin(s) <= End(r) + 1 /\ End(r) < End(s)
    /\ unitsTokenLen(SubSeq(u, Begin(s) + 1, End(r))) < TierOverlap[t] \/ Begin(s) > End(r)
TooLong(t, s, unit) == s # <<>> /\ unitsTokenLen(s) + unit.tokens > TierSize[t]
RestOf(t, kept, unit) == IF TooLong(t, kept, unit) THEN <<>> ELSE kept

\* The numbers of units.
LEMMA NumberedFacts ==
    ASSUME NEW u, Numbered(u)
    PROVE  u \in Seq(Units) /\ Len(u) \in Nat \ {0} /\ \A n \in 1 .. Len(u) : u[n] \in Units /\ u[n].no = n
<1>1. u \in Seq(Units) /\ u # <<>> /\ \A n \in DOMAIN u : u[n].no = n
  BY DEF Numbered
<1>2. Len(u) \in Nat /\ u \in [1 .. Len(u) -> Units]
  BY <1>1, LenProperties
<1>3. Len(u) # 0
  BY <1>1, EmptySeq
<1> QED BY <1>1, <1>2, <1>3

\* A chunk of one unit fits.
LEMMA OneUnit ==
    ASSUME NEW u, Numbered(u), NEW t \in 1 .. 2, NEW n \in 1 .. Len(u),
           NEW r, r = Append(<<>>, u[n])
    PROVE  FitsTier(u, t, r) /\ Begin(r) = n /\ End(r) = n
<1>1. u \in Seq(Units) /\ Len(u) \in Nat /\ u[n] \in Units
  BY NumberedFacts
<1>2. Places(u, n, n)
  BY <1>1 DEF Places
<1>3. IsSpan(u, n, n, SubSeq(u, n, n))
  BY <1>2, SpanFacts
<1>4. PICK s : s = SubSeq(u, n, n) /\ s \in Seq(Units) /\ Len(s) = 1 /\ s[1] = u[n] /\ Begin(s) = n /\ End(s) = n
  <2>1. n - n + 1 = 1 /\ n + 1 - 1 = n
    OBVIOUS
  <2>2. PICK s : s = SubSeq(u, n, n) /\ IsSpan(u, n, n, s)
    BY <1>3
  <2>3. s \in Seq(Units) /\ Len(s) = 1 /\ Begin(s) = n /\ End(s) = n
    BY <2>1, <2>2 DEF IsSpan
  <2>4. s[1] = u[n + 1 - 1]
    BY <2>2, <2>3 DEF IsSpan
  <2> QED BY <2>1, <2>2, <2>3, <2>4
<1>5. PICK x \in Units : x = u[n]
  BY <1>1
<1>6. s = Append(<<>>, x)
  <2>1. Append(<<>>, x) = <<x>>
    OBVIOUS
  <2>2. <<x>> \in Seq(Units) /\ Len(<<x>>) = 1 /\ <<x>>[1] = x
    OBVIOUS
  <2>3. \A i \in 1 .. Len(s) : s[i] = <<x>>[i]
    BY <1>4, <1>5, <2>2
  <2>4. s = <<x>>
    BY <1>4, <2>2, <2>3, SeqEqual
  <2> QED BY <2>1, <2>4
<1>7. FitsTier(u, t, s)
  BY <1>2, <1>4 DEF FitsTier
<1> QED BY <1>4, <1>5, <1>6, <1>7

EndsBehind(u, t, f, e, r) == FitsTier(u, t, r) /\ Begin(r) = f /\ End(r) = e + 1

\* A chunk that is not too long with the next unit goes on with it.
LEMMA OneMoreUnit ==
    ASSUME NEW u, Numbered(u), NEW t \in 1 .. 2, NEW f, NEW e, Places(u, f, e), e < Len(u),
           NEW s, s = SubSeq(u, f, e), NEW x, x = u[e + 1], ~ TooLong(t, s, x), NEW r, r = Append(s, x)
    PROVE  EndsBehind(u, t, f, e, r)
<1>1. u \in Seq(Units) /\ Len(u) \in Nat /\ f \in 1 .. Len(u) /\ e \in f .. Len(u)
  BY NumberedFacts DEF Places
<1>2. PICK d : d = e + 1 /\ d \in 1 .. Len(u) /\ Places(u, f, d)
  BY <1>1 DEF Places
<1>3. x \in Units
  BY <1>2, NumberedFacts
<1>4. s \in Seq(Units) /\ s # <<>>
  <2>1. IsSpan(u, f, e, SubSeq(u, f, e))
    BY SpanFacts
  <2> QED BY <2>1 DEF IsSpan
<1>5. r = SubSeq(u, f, d)
  BY <1>2, <1>3, LongerSpan
<1>6. Begin(r) = f /\ End(r) = d
  <2>1. IsSpan(u, f, d, SubSeq(u, f, d))
    BY <1>2, SpanFacts
  <2> QED BY <1>5, <2>1 DEF IsSpan
<1>7. unitsTokenLen(r) <= TierSize[t]
  <2>1. PICK k \in Int : k = unitsTokenLen(s)
    BY <1>3, <1>4, TokenFacts
  <2>2. x.tokens \in Nat /\ unitsTokenLen(Append(s, x)) = unitsTokenLen(s) + x.tokens
    BY <1>3, <1>4, TokenFacts
  <2>3. unitsTokenLen(r) = k + x.tokens
    BY <1>5, <2>1, <2>2
  <2>4. TierSize[t] \in Nat
    BY ChunkingAssumption
  <2>5. ~ k + x.tokens > TierSize[t]
    BY <1>2, <1>3, <1>4, <2>1 DEF TooLong
  <2> QED BY <2>2, <2>3, <2>4, <2>5
<1>8. FitsTier(u, t, r)
  BY <1>2, <1>5, <1>6, <1>7 DEF FitsTier
<1> QED BY <1>2, <1>3, <1>5, <1>6, <1>8 DEF EndsBehind

ComesNext(u, t, s, e, next) == FitsTier(u, t, next) /\ Follows(u, t, s, next) /\ End(next) = e + 1

\* A chunk that would be too long is followed by one that begins with its end, or anew.
LEMMA NextChunk ==
    ASSUME NEW u, Numbered(u), NEW t \in 1 .. 2, NEW s, FitsTier(u, t, s), NEW e, e = End(s), e < Len(u),
           NEW x, x = u[e + 1], TooLong(t, s, x),
           NEW kept, kept = overlapUnitsByTokens(s, TierOverlap[t]),
           NEW rest, rest = RestOf(t, kept, x), NEW next, next = Append(rest, x)
    PROVE  ComesNext(u, t, s, e, next)
<1>1. PICK f : f = Begin(s) /\ e = End(s) /\ Places(u, f, e) /\ s = SubSeq(u, f, e)
  BY DEF FitsTier
<1>2. u \in Seq(Units) /\ Len(u) \in Nat /\ f \in 1 .. Len(u) /\ e \in f .. Len(u) /\ e < Len(u)
  BY <1>1, NumberedFacts DEF Places
<1>3. TierOverlap[t] \in Nat
  BY ChunkingAssumption
<1>4. kept = <<>> \/ \E g \in f .. e : kept = SubSeq(u, g, e) /\ unitsTokenLen(SubSeq(u, g + 1, e)) < TierOverlap[t]
  <2>1. PICK o \in Nat : o = TierOverlap[t]
    BY <1>3
  <2>2. kept = overlapUnitsByTokens(SubSeq(u, f, e), o)
    BY <1>1, <2>1
  <2>3. KeptOf(u, f, e, o, kept)
    BY <1>1, <2>2, KeptFacts
  <2> QED BY <2>1, <2>3 DEF KeptOf
<1>5. CASE TooLong(t, kept, x) \/ kept = <<>>
  <2>1. rest = <<>>
    BY <1>5, Zenon DEF RestOf
  <2>5. next = Append(<<>>, x)
    BY <2>1, Zenon
  <2>2. PICK n \in 1 .. Len(u) : n = e + 1 /\ x = u[n]
    <3>1. e + 1 \in 1 .. Len(u)
      BY <1>2
    <3> QED BY <1>1, <3>1
  <2>3. FitsTier(u, t, next) /\ Begin(next) = n /\ End(next) = n
    <3>1. next = Append(<<>>, u[n])
      BY <2>2, <2>5, Zenon
    <3> QED BY <3>1, OneUnit
  <2>4. Follows(u, t, s, next)
    <3>1. Begin(s) < Begin(next) /\ Begin(next) <= End(s) + 1 /\ End(s) < End(next) /\ Begin(next) > End(s)
      <4>1. f \in Int /\ e \in Int /\ f <= e /\ Begin(s) = f /\ End(s) = e /\ Begin(next) = e + 1 /\ End(next) = e + 1
        <5>1. f \in Int /\ e \in Int /\ f <= e
          BY <1>2
        <5>2. Begin(s) = f /\ End(s) = e
          BY ONLY <1>1
        <5>3. Begin(next) = n /\ End(next) = n /\ n = e + 1
          BY ONLY <2>2, <2>3
        <5>4. Begin(next) = e + 1 /\ End(next) = e + 1
          BY ONLY <5>3
        <5> QED BY ONLY <5>1, <5>2, <5>4
      <4> QED BY ONLY <4>1
    <3> QED BY ONLY <3>1 DEF Follows
  <2> QED BY <1>1, <2>2, <2>3, <2>4 DEF ComesNext
<1>6. CASE ~ TooLong(t, kept, x) /\ kept # <<>>
  <2>1. PICK g \in f .. e : kept = SubSeq(u, g, e) /\ unitsTokenLen(SubSeq(u, g + 1, e)) < TierOverlap[t]
    BY <1>4, <1>6
  <2>2. rest = kept /\ next = Append(kept, x) /\ x = u[e + 1]
    BY <1>1, <1>6, Zenon DEF RestOf
  <2>3. g # f
    BY <1>1, <1>6, <2>1, Zenon
  <2>4. Places(u, g, e)
    BY <1>2 DEF Places
  <2>5. FitsTier(u, t, next) /\ Begin(next) = g /\ End(next) = e + 1
    <3>1. e < Len(u) /\ kept = SubSeq(u, g, e)
      BY <1>2, <2>1
    <3>2. ~ TooLong(t, kept, x) /\ Numbered(u) /\ t \in 1 .. 2
      BY <1>6
    <3>3. EndsBehind(u, t, g, e, next)
      BY ONLY <2>2, <2>4, <3>1, <3>2, OneMoreUnit
    <3> QED BY <3>3 DEF EndsBehind
  <2>6. Begin(s) < Begin(next) /\ Begin(next) <= End(s) + 1 /\ End(s) < End(next)
    BY <1>1, <1>2, <2>3, <2>5
  <2>7. Follows(u, t, s, next)
    BY <1>1, <2>1, <2>5, <2>6 DEF Follows
  <2> QED BY <1>1, <2>5, <2>7 DEF ComesNext
<1> QED BY <1>5, <1>6

CutChunks == [block : Nat, tier : Nat, index : Nat, tierIndex : Nat, tierCount : Nat, count : Nat, units : Seq(Units)]
Own(c, b, t) == {i \in DOMAIN c : c[i].block = b /\ c[i].tier = t}

\* The chunks from m to n follow each other from the first unit of u on.
Chained(c, u, t, m, n) ==
    /\ \A i \in m .. n : FitsTier(u, t, c[i].units) /\ c[i].tierIndex = i - m
    /\ \A i \in m + 1 .. n : Follows(u, t, c[i - 1].units, c[i].units)
    /\ m <= n => Begin(c[m].units) = 1

\* The chunks of a tier that ended.
DoneTier(c, u, b, t) ==
    \E m, n \in DOMAIN c :
        /\ Own(c, b, t) = m .. n /\ m <= n /\ Chained(c, u, t, m, n) /\ End(c[n].units) = Len(u)
        /\ \A i \in m .. n : c[i].tierCount = n - m + 1

\* The chunks of the tier that is being cut, the units of the next one, and the rest.
CutSoFar(c, u, b, t, m, fill, rest) ==
    /\ m \in 1 .. Len(c) + 1 /\ Own(c, b, t) = m .. Len(c) /\ Chained(c, u, t, m, Len(c))
    /\ \/ m = Len(c) + 1 /\ fill = <<>> /\ rest = u
       \/ /\ fill # <<>> /\ FitsTier(u, t, fill) /\ rest = SubSeq(u, End(fill) + 1, Len(u))
          /\ m = Len(c) + 1 => Begin(fill) = 1
          /\ m <= Len(c) => Follows(u, t, c[Len(c)].units, fill)

\* They are the last chunks, and the last of them holds what was filled.
Closed(c, u, b, t, m, fill) ==
    /\ m \in 1 .. Len(c) /\ Own(c, b, t) = m .. Len(c) /\ Chained(c, u, t, m, Len(c)) /\ c[Len(c)].units = fill

\* A chunk that is closed is one more of its tier.
LEMMA CloseOne ==
    ASSUME NEW c \in Seq(CutChunks), NEW u, Numbered(u), NEW b, NEW t \in 1 .. 2, NEW m, NEW fill, NEW rest,
           CutSoFar(c, u, b, t, m, fill, rest), fill # <<>>,
           NEW x \in CutChunks, x.block = b, x.tier = t, x.tierIndex = Cardinality(Own(c, b, t)), x.units = fill
    PROVE  Closed(Append(c, x), u, b, t, m, fill)
<1>1. PICK L \in Nat : L = Len(c) /\ DOMAIN c = 1 .. L
  <2>1. Len(c) \in Nat /\ DOMAIN c = 1 .. Len(c)
    BY LenProperties
  <2> QED BY <2>1
<1>2. PICK d : d = Append(c, x) /\ d \in Seq(CutChunks) /\ DOMAIN d = 1 .. L + 1 /\ Len(d) = L + 1 /\ d[L + 1] = x
                /\ \A i \in 1 .. L : d[i] = c[i]
  <2>1. PICK d : d = Append(c, x)
    OBVIOUS
  <2>2. d \in Seq(CutChunks) /\ Len(d) = L + 1 /\ d[L + 1] = x /\ \A i \in 1 .. L : d[i] = c[i]
    BY <1>1, <2>1, AppendProperties
  <2>3. DOMAIN d = 1 .. L + 1
    BY <2>2, LenProperties
  <2> QED BY <2>1, <2>2, <2>3
<1>3. /\ m \in 1 .. L + 1 /\ Own(c, b, t) = m .. L /\ Chained(c, u, t, m, L) /\ FitsTier(u, t, fill)
      /\ m = L + 1 => Begin(fill) = 1
      /\ m <= L => Follows(u, t, c[L].units, fill)
  BY <1>1 DEF CutSoFar
<1>4. Own(d, b, t) = m .. L + 1
  <2>1. ASSUME NEW i PROVE i \in Own(d, b, t) <=> i \in m .. L + 1
    <3>1. i \in Own(d, b, t) <=> i \in 1 .. L + 1 /\ d[i].block = b /\ d[i].tier = t
      BY <1>2 DEF Own
    <3>2. CASE i = L + 1
      BY <1>2, <1>3, <3>1, <3>2
    <3>3. CASE i # L + 1
      <4>1. i \in 1 .. L + 1 <=> i \in 1 .. L
        BY <3>3
      <4>2. i \in Own(c, b, t) <=> i \in 1 .. L /\ c[i].block = b /\ c[i].tier = t
        BY <1>1 DEF Own
      <4>3. i \in Own(d, b, t) <=> i \in Own(c, b, t)
        BY <1>2, <3>1, <4>1, <4>2
      <4>4. i \in m .. L + 1 <=> i \in m .. L
        BY <1>3, <3>3
      <4> QED BY <1>3, <4>3, <4>4
    <3> QED BY <3>2, <3>3
  <2> QED BY <2>1
<1>5. x.tierIndex = L + 1 - m
  <2>1. m \in Int /\ L \in Int
    BY <1>3
  <2>2. Cardinality(m .. L) = IF m > L THEN 0 ELSE L - m + 1
    BY <2>1, FS_Interval
  <2> QED BY <1>3, <2>1, <2>2
<1>6. \A i \in m .. L + 1 : FitsTier(u, t, d[i].units) /\ d[i].tierIndex = i - m
  <2> SUFFICES ASSUME NEW i \in m .. L + 1 PROVE FitsTier(u, t, d[i].units) /\ d[i].tierIndex = i - m
    OBVIOUS
  <2>1. CASE i = L + 1
    BY <1>2, <1>3, <1>5, <2>1
  <2>2. CASE i # L + 1
    <3>1. i \in m .. L /\ i \in 1 .. L
      BY <1>3, <2>2
    <3> QED BY <1>2, <1>3, <3>1 DEF Chained
  <2> QED BY <2>1, <2>2
<1>7. \A i \in m + 1 .. L + 1 : Follows(u, t, d[i - 1].units, d[i].units)
  <2> SUFFICES ASSUME NEW i \in m + 1 .. L + 1 PROVE Follows(u, t, d[i - 1].units, d[i].units)
    OBVIOUS
  <2>1. i - 1 \in 1 .. L /\ m <= L
    BY <1>3
  <2>2. CASE i = L + 1
    <3>1. i - 1 = L
      BY <2>2
    <3> QED BY <1>2, <1>3, <2>1, <2>2, <3>1
  <2>3. CASE i # L + 1
    <3>1. i \in m + 1 .. L /\ i \in 1 .. L
      BY <1>3, <2>3
    <3>2. Follows(u, t, c[i - 1].units, c[i].units)
      BY <1>3, <3>1 DEF Chained
    <3> QED BY <1>2, <2>1, <3>1, <3>2
  <2> QED BY <2>2, <2>3
<1>8. Begin(d[m].units) = 1
  <2>1. CASE m = L + 1
    BY <1>2, <1>3, <2>1
  <2>2. CASE m # L + 1
    <3>1. m <= L /\ m \in 1 .. L
      BY <1>3, <2>2
    <3>2. Begin(c[m].units) = 1
      BY <1>3, <3>1 DEF Chained
    <3> QED BY <1>2, <3>1, <3>2
  <2> QED BY <2>1, <2>2
<1>9. Chained(d, u, t, m, L + 1)
  BY <1>6, <1>7, <1>8 DEF Chained
<1>10. d[L + 1].units = fill
  BY <1>2
<1> QED BY <1>2, <1>3, <1>4, <1>9, <1>10 DEF Closed

\* The rest of the units, and what is left when one is taken.
LEMMA RestFacts ==
    ASSUME NEW u, Numbered(u), NEW e \in 0 .. Len(u), NEW rest, rest = SubSeq(u, e + 1, Len(u))
    PROVE  /\ rest = <<>> <=> e = Len(u)
           /\ rest # <<>> => /\ e + 1 \in 1 .. Len(u) /\ Head(rest) = u[e + 1]
                             /\ Tail(rest) = SubSeq(u, e + 2, Len(u))
<1>1. u \in Seq(Units) /\ Len(u) \in Nat \ {0} /\ \A n \in 1 .. Len(u) : u[n] \in Units
  BY NumberedFacts
<1>2. CASE e = Len(u)
  <2>1. e + 1 \in Int /\ Len(u) \in Int /\ Len(u) < e + 1
    BY <1>1, <1>2
  <2>2. rest = <<>>
    BY <2>1, SubSeqEmpty
  <2> QED BY <1>2, <2>2
<1>3. CASE e # Len(u)
  <2>1. PICK d \in 1 .. Len(u) : d = e + 1
    BY <1>1, <1>3
  <2>2. Len(u) \in d .. Len(u) /\ d \in Int /\ Len(u) \in Int
    BY <1>1
  <2>3. Head(SubSeq(u, d, Len(u))) = u[d] /\ Tail(SubSeq(u, d, Len(u))) = SubSeq(u, d + 1, Len(u))
    BY <1>1, <2>2, HeadTailOfSubSeq
  <2>4. SubSeq(u, d, Len(u)) # <<>>
    <3>1. Places(u, d, Len(u))
      BY <2>2 DEF Places
    <3>2. IsSpan(u, d, Len(u), SubSeq(u, d, Len(u)))
      BY <3>1, SpanFacts
    <3> QED BY <3>2 DEF IsSpan
  <2>5. d + 1 = e + 2
    BY <2>1
  <2> QED BY <1>3, <2>1, <2>3, <2>4, <2>5
<1> QED BY <1>2, <1>3

\* Where a chunk that fits ends.
LEMMA EndOf ==
    ASSUME NEW u, Numbered(u), NEW t, NEW s, FitsTier(u, t, s)
    PROVE  End(s) \in 1 .. Len(u) /\ Begin(s) \in 1 .. End(s) /\ s # <<>> /\ s \in Seq(Units)
<1>1. Len(u) \in Nat
  BY NumberedFacts
<1>2. Places(u, Begin(s), End(s)) /\ s = SubSeq(u, Begin(s), End(s))
  BY DEF FitsTier
<1>3. IsSpan(u, Begin(s), End(s), SubSeq(u, Begin(s), End(s)))
  BY <1>2, SpanFacts
<1>4. s # <<>> /\ s \in Seq(Units)
  BY <1>2, <1>3 DEF IsSpan
<1> QED BY <1>1, <1>2, <1>4 DEF Places

\* A unit that does not overfill the chunk joins it.
LEMMA JoinChunk ==
    ASSUME NEW c \in Seq(CutChunks), NEW u, Numbered(u), NEW b, NEW t \in 1 .. 2, NEW m, NEW fill, NEW rest,
           CutSoFar(c, u, b, t, m, fill, rest), rest # <<>>, ~ TooLong(t, fill, Head(rest))
    PROVE  CutSoFar(c, u, b, t, m, Append(fill, Head(rest)), Tail(rest))
<1>1. u \in Seq(Units) /\ Len(u) \in Nat \ {0} /\ \A n \in 1 .. Len(u) : u[n] \in Units
  BY NumberedFacts
<1>2. PICK x, more, rest2 : x = Head(rest) /\ more = Append(fill, x) /\ rest2 = Tail(rest)
  OBVIOUS
<1>3. CASE m = Len(c) + 1 /\ fill = <<>> /\ rest = u
  <2>1. 0 \in 0 .. Len(u) /\ u = SubSeq(u, 0 + 1, Len(u))
    BY <1>1, SubSeqFull
  <2>2. PICK n \in 1 .. Len(u) : n = 1 /\ x = u[n] /\ rest2 = SubSeq(u, 2, Len(u))
    <3>1. 0 + 1 \in 1 .. Len(u) /\ Head(u) = u[0 + 1] /\ Tail(u) = SubSeq(u, 0 + 2, Len(u))
      BY <1>3, <2>1, RestFacts
    <3> QED BY <1>2, <1>3, <3>1
  <2>3. more = Append(<<>>, u[n])
    BY <1>2, <1>3, <2>2
  <2>4. FitsTier(u, t, more) /\ Begin(more) = n /\ End(more) = n
    BY <2>3, OneUnit
  <2>5. more # <<>>
    BY <2>4, EndOf
  <2>6. rest2 = SubSeq(u, End(more) + 1, Len(u))
    BY <2>2, <2>4
  <2>7. ~ m <= Len(c)
    <3>1. Len(c) \in Nat
      BY LenProperties
    <3> QED BY <1>3, <3>1
  <2> QED BY <1>2, <1>3, <2>2, <2>4, <2>5, <2>6, <2>7 DEF CutSoFar
<1>4. CASE ~ (m = Len(c) + 1 /\ fill = <<>> /\ rest = u)
  <2>1. /\ fill # <<>> /\ FitsTier(u, t, fill) /\ rest = SubSeq(u, End(fill) + 1, Len(u))
        /\ m = Len(c) + 1 => Begin(fill) = 1
        /\ m <= Len(c) => Follows(u, t, c[Len(c)].units, fill)
    BY <1>4 DEF CutSoFar
  <2>2. PICK f \in Int, e \in Int : f = Begin(fill) /\ e = End(fill) /\ e \in 1 .. Len(u) /\ Places(u, f, e)
                                    /\ fill = SubSeq(u, f, e)
    <3>1. End(fill) \in 1 .. Len(u) /\ Begin(fill) \in 1 .. End(fill)
      BY <2>1, EndOf
    <3>2. Begin(fill) \in Int /\ End(fill) \in Int
      BY <1>1, <3>1
    <3>3. Places(u, Begin(fill), End(fill)) /\ fill = SubSeq(u, Begin(fill), End(fill))
      BY <2>1 DEF FitsTier
    <3> QED BY ONLY <3>1, <3>2, <3>3
  <2>3. e \in 0 .. Len(u) /\ rest = SubSeq(u, e + 1, Len(u))
    BY <2>1, <2>2
  <2>4. e < Len(u) /\ x = u[e + 1] /\ rest2 = SubSeq(u, e + 2, Len(u))
    <3>1. e # Len(u) /\ Head(rest) = u[e + 1] /\ Tail(rest) = SubSeq(u, e + 2, Len(u))
      BY <2>3, RestFacts
    <3>2. x = u[e + 1] /\ rest2 = SubSeq(u, e + 2, Len(u))
      BY ONLY <1>2, <3>1
    <3>3. e < Len(u)
      BY <1>1, <2>2, <3>1
    <3> QED BY <3>2, <3>3
  <2>5. EndsBehind(u, t, f, e, more)
    <3>1. ~ TooLong(t, fill, x)
      BY <1>2
    <3> QED BY <1>2, <2>2, <2>4, <3>1, OneMoreUnit
  <2>6. FitsTier(u, t, more) /\ Begin(more) = f /\ End(more) = e + 1
    BY <2>5 DEF EndsBehind
  <2>7. more # <<>>
    BY <2>6, EndOf
  <2>8. rest2 = SubSeq(u, End(more) + 1, Len(u))
    <3>1. e + 1 + 1 = e + 2
      OBVIOUS
    <3> QED BY <2>4, <2>6, <3>1
  <2>9. m = Len(c) + 1 => Begin(more) = 1
    BY <2>1, <2>2, <2>6
  <2>10. ASSUME m <= Len(c) PROVE Follows(u, t, c[Len(c)].units, more)
    <3>1. PICK last : last = c[Len(c)].units /\ Follows(u, t, last, fill)
      BY <2>1, <2>10
    <3>2. End(last) \in Int
      <4>1. Len(c) \in m .. Len(c)
        <5>1. m \in 1 .. Len(c) + 1 /\ Len(c) \in Nat
          BY LenProperties DEF CutSoFar
        <5> QED BY <2>10, <5>1
      <4>2. FitsTier(u, t, last)
        BY <3>1, <4>1 DEF CutSoFar, Chained
      <4> QED BY <4>2, EndOf
    <3>3. Begin(last) < f /\ f <= End(last) + 1 /\ End(last) < e
          /\ (unitsTokenLen(SubSeq(u, f + 1, End(last))) < TierOverlap[t] \/ f > End(last))
      BY <2>2, <3>1 DEF Follows
    <3>4. End(last) < e + 1
      BY <3>2, <3>3
    <3>5. Follows(u, t, last, more)
      BY <2>6, <3>3, <3>4 DEF Follows
    <3> QED BY <3>1, <3>5
  <2>11. m \in 1 .. Len(c) + 1 /\ Own(c, b, t) = m .. Len(c) /\ Chained(c, u, t, m, Len(c))
    BY DEF CutSoFar
  <2> QED BY <1>2, <2>6, <2>7, <2>8, <2>9, <2>10, <2>11 DEF CutSoFar
<1> QED BY <1>3, <1>4

\* One that does closes it and begins the next one.
LEMMA CloseChunk ==
    ASSUME NEW c \in Seq(CutChunks), NEW u, Numbered(u), NEW b, NEW t \in 1 .. 2, NEW m, NEW fill, NEW rest,
           CutSoFar(c, u, b, t, m, fill, rest), rest # <<>>, TooLong(t, fill, Head(rest)),
           NEW d \in Seq(CutChunks), Closed(d, u, b, t, m, fill)
    PROVE  LET kept == overlapUnitsByTokens(fill, TierOverlap[t])
           IN  CutSoFar(d, u, b, t, m, Append(RestOf(t, kept, Head(rest)), Head(rest)), Tail(rest))
<1>1. u \in Seq(Units) /\ Len(u) \in Nat \ {0} /\ \A n \in 1 .. Len(u) : u[n] \in Units
  BY NumberedFacts
<1>2. PICK x, rest2 : x = Head(rest) /\ rest2 = Tail(rest)
  OBVIOUS
<1>3. PICK kept : kept = overlapUnitsByTokens(fill, TierOverlap[t])
  OBVIOUS
<1>4. PICK begun, next : begun = RestOf(t, kept, x) /\ next = Append(begun, x)
  OBVIOUS
<1>5. fill # <<>>
  BY DEF TooLong
<1>6. FitsTier(u, t, fill) /\ rest = SubSeq(u, End(fill) + 1, Len(u))
  BY <1>5 DEF CutSoFar
<1>7. PICK e \in Int : e = End(fill) /\ e \in 1 .. Len(u)
  BY <1>6, EndOf
<1>8. e < Len(u) /\ x = u[e + 1] /\ rest2 = SubSeq(u, e + 2, Len(u))
  <2>1. e \in 0 .. Len(u) /\ rest = SubSeq(u, e + 1, Len(u))
    BY <1>6, <1>7
  <2>2. e # Len(u) /\ Head(rest) = u[e + 1] /\ Tail(rest) = SubSeq(u, e + 2, Len(u))
    BY <2>1, RestFacts
  <2> QED BY <1>1, <1>2, <1>7, <2>2, SMTT(30)
<1>9. FitsTier(u, t, next) /\ Follows(u, t, fill, next) /\ End(next) = e + 1
  <2>1. TooLong(t, fill, x)
    BY <1>2
  <2>2. ComesNext(u, t, fill, e, next)
    BY <1>3, <1>4, <1>6, <1>7, <1>8, <2>1, NextChunk
  <2> QED BY <2>2 DEF ComesNext
<1>10. next # <<>>
  BY <1>9, EndOf
<1>11. rest2 = SubSeq(u, End(next) + 1, Len(u))
  <2>1. e + 1 + 1 = e + 2
    OBVIOUS
  <2> QED BY <1>7, <1>8, <1>9, <2>1
<1>12. /\ m \in 1 .. Len(d) + 1 /\ Own(d, b, t) = m .. Len(d) /\ Chained(d, u, t, m, Len(d))
       /\ d[Len(d)].units = fill /\ m # Len(d) + 1
  <2>1. Len(d) \in Nat
    BY LenProperties
  <2> QED BY <2>1 DEF Closed
<1>13. CutSoFar(d, u, b, t, m, next, rest2)
  BY <1>9, <1>10, <1>11, <1>12 DEF CutSoFar
<1> QED BY <1>2, <1>3, <1>4, <1>13

\* When all units are taken, the last chunk holds the last of them.
LEMMA AllTaken ==
    ASSUME NEW c, NEW u, Numbered(u), NEW b, NEW t \in 1 .. 2, NEW m, NEW fill, NEW rest,
           CutSoFar(c, u, b, t, m, fill, rest), rest = <<>>
    PROVE  fill # <<>> /\ FitsTier(u, t, fill) /\ End(fill) = Len(u)
<1>1. u # <<>>
  BY DEF Numbered
<1>2. fill # <<>> /\ FitsTier(u, t, fill) /\ rest = SubSeq(u, End(fill) + 1, Len(u))
  BY <1>1 DEF CutSoFar
<1>3. PICK e \in 0 .. Len(u) : e = End(fill)
  <2>1. End(fill) \in 1 .. Len(u)
    BY <1>2, EndOf
  <2> QED BY <2>1
<1>4. rest = SubSeq(u, e + 1, Len(u))
  BY <1>2, <1>3
<1>5. e = Len(u)
  BY <1>4, RestFacts
<1> QED BY <1>2, <1>3, <1>5

-----------------------------------------------------------------------------
(* Tiers that ended *)

\* A tier begins without chunks.
LEMMA BeginTier ==
    ASSUME NEW c \in Seq(CutChunks), NEW u, NEW b, NEW t, Own(c, b, t) = {}
    PROVE  CutSoFar(c, u, b, t, Len(c) + 1, <<>>, u)
<1>1. Len(c) \in Nat
  BY LenProperties
<1>2. PICK m : m = Len(c) + 1 /\ m \in 1 .. Len(c) + 1 /\ ~ m <= Len(c) /\ m .. Len(c) = {} /\ m + 1 .. Len(c) = {}
  BY <1>1
<1>3. Chained(c, u, t, m, Len(c))
  BY <1>2 DEF Chained
<1> QED BY <1>2, <1>3 DEF CutSoFar

\* A tier that ended is as it was when the chunks of others change.
SameChunks(c, d, b, t) ==
    /\ DOMAIN c \subseteq DOMAIN d /\ Own(d, b, t) = Own(c, b, t)
    /\ \A i \in Own(c, b, t) : /\ d[i].units = c[i].units /\ d[i].tierIndex = c[i].tierIndex
                               /\ d[i].tierCount = c[i].tierCount
LEMMA DoneStays ==
    ASSUME NEW c \in Seq(CutChunks), NEW d, NEW u, NEW b, NEW t, DoneTier(c, u, b, t), SameChunks(c, d, b, t)
    PROVE  DoneTier(d, u, b, t)
<1>1. PICK m \in DOMAIN c, n \in DOMAIN c :
        /\ Own(c, b, t) = m .. n /\ m <= n /\ Chained(c, u, t, m, n) /\ End(c[n].units) = Len(u)
        /\ \A i \in m .. n : c[i].tierCount = n - m + 1
  BY DEF DoneTier
<1>2. Len(c) \in Nat /\ m \in 1 .. Len(c) /\ n \in 1 .. Len(c)
  BY LenProperties
<1>3. \A i \in m .. n : d[i].units = c[i].units /\ d[i].tierIndex = c[i].tierIndex /\ d[i].tierCount = c[i].tierCount
  BY <1>1 DEF SameChunks
<1>4. m \in m .. n /\ n \in m .. n
  BY <1>1, <1>2
<1>5. \A i \in m .. n : FitsTier(u, t, d[i].units) /\ d[i].tierIndex = i - m
  BY <1>1, <1>3 DEF Chained
<1>6. ASSUME NEW i \in m + 1 .. n PROVE Follows(u, t, d[i - 1].units, d[i].units)
  <2>1. i \in m .. n /\ i - 1 \in m .. n
    BY <1>2
  <2>2. Follows(u, t, c[i - 1].units, c[i].units)
    BY <1>1 DEF Chained
  <2> QED BY <1>3, <2>1, <2>2
<1>7. Begin(d[m].units) = 1
  BY <1>1, <1>3, <1>4 DEF Chained
<1>8. Chained(d, u, t, m, n)
  BY <1>5, <1>6, <1>7 DEF Chained
<1>9. m \in DOMAIN d /\ n \in DOMAIN d /\ Own(d, b, t) = m .. n
  BY <1>1 DEF SameChunks
<1>10. End(d[n].units) = Len(u) /\ \A i \in m .. n : d[i].tierCount = n - m + 1
  BY <1>1, <1>3, <1>4
<1> QED BY <1>1, <1>8, <1>9, <1>10 DEF DoneTier

\* A chunk of one tier is none of another.
LEMMA OthersStay ==
    ASSUME NEW c \in Seq(CutChunks), NEW x \in CutChunks, NEW b, NEW t, ~ (x.block = b /\ x.tier = t)
    PROVE  SameChunks(c, Append(c, x), b, t)
<1>1. PICK L \in Nat : L = Len(c) /\ DOMAIN c = 1 .. L
  <2>1. Len(c) \in Nat /\ DOMAIN c = 1 .. Len(c)
    BY LenProperties
  <2> QED BY <2>1
<1>2. PICK d : d = Append(c, x) /\ DOMAIN d = 1 .. L + 1 /\ d[L + 1] = x /\ \A i \in 1 .. L : d[i] = c[i]
  <2>1. PICK d : d = Append(c, x)
    OBVIOUS
  <2>2. d \in Seq(CutChunks) /\ Len(d) = L + 1 /\ d[L + 1] = x /\ \A i \in 1 .. L : d[i] = c[i]
    BY <1>1, <2>1, AppendProperties
  <2>3. DOMAIN d = 1 .. L + 1
    BY <2>2, LenProperties
  <2> QED BY <2>1, <2>2, <2>3
<1>3. ASSUME NEW i PROVE i \in Own(d, b, t) <=> i \in Own(c, b, t)
  <2>1. i \in Own(d, b, t) <=> i \in 1 .. L + 1 /\ d[i].block = b /\ d[i].tier = t
    BY <1>2 DEF Own
  <2>2. i \in Own(c, b, t) <=> i \in 1 .. L /\ c[i].block = b /\ c[i].tier = t
    BY <1>1 DEF Own
  <2>3. CASE i = L + 1
    <3>1. i \notin 1 .. L
      BY <2>3
    <3> QED BY <1>2, <2>1, <2>2, <2>3, <3>1
  <2>4. CASE i # L + 1
    <3>1. i \in 1 .. L + 1 <=> i \in 1 .. L
      BY <2>4
    <3> QED BY <1>2, <2>1, <2>2, <3>1
  <2> QED BY <2>3, <2>4
<1>4. Own(d, b, t) = Own(c, b, t)
  BY <1>3
<1>5. \A i \in Own(c, b, t) : i \in 1 .. L
  BY <1>1 DEF Own
<1>6. DOMAIN c \subseteq DOMAIN d
  BY <1>1, <1>2
<1> QED BY <1>2, <1>4, <1>5, <1>6 DEF SameChunks

\* The counts of a tier change nothing but counts.
CountedFrom(c, d, last) ==
    /\ d \in Seq(CutChunks) /\ Len(d) = Len(c) /\ DOMAIN d = DOMAIN c
    /\ \A i \in DOMAIN c :
        /\ d[i].block = c[i].block /\ d[i].tier = c[i].tier /\ d[i].index = c[i].index
        /\ d[i].tierIndex = c[i].tierIndex /\ d[i].units = c[i].units
        /\ d[i].tierCount = IF i \in Own(c, block, tier) THEN Cardinality(Own(c, block, tier)) ELSE c[i].tierCount
        /\ d[i].count = IF last THEN Len(c) ELSE c[i].count
LEMMA CountsFacts ==
    ASSUME NEW c \in Seq(CutChunks), NEW last \in BOOLEAN
    PROVE  CountedFrom(c, WithCounts(c, last), last)
<1>1. PICK L \in Nat : L = Len(c) /\ DOMAIN c = 1 .. L /\ c \in [1 .. L -> CutChunks]
  <2>1. Len(c) \in Nat /\ DOMAIN c = 1 .. Len(c) /\ c \in [1 .. Len(c) -> CutChunks]
    BY LenProperties
  <2> QED BY <2>1
<1>2. PICK own : own = Own(c, block, tier)
  OBVIOUS
<1>3. Cardinality(own) \in Nat
  <2>1. own \in SUBSET (1 .. L)
    BY <1>1, <1>2 DEF Own
  <2>2. IsFiniteSet(1 .. L)
    BY FS_Interval
  <2>3. IsFiniteSet(own)
    BY <2>1, <2>2, FS_Subset
  <2> QED BY <2>3, FS_CardinalityType
<1>4. PICK d : d = WithCounts(c, last)
  OBVIOUS
<1>5. d = [i \in 1 .. L |-> [c[i] EXCEPT !.tierCount = IF i \in own THEN Cardinality(own) ELSE c[i].tierCount,
                                         !.count = IF last THEN L ELSE c[i].count]]
  BY <1>1, <1>2, <1>4 DEF WithCounts, Own
<1>6. ASSUME NEW i \in 1 .. L
      PROVE  /\ d[i] \in CutChunks
             /\ d[i].block = c[i].block /\ d[i].tier = c[i].tier /\ d[i].index = c[i].index
             /\ d[i].tierIndex = c[i].tierIndex /\ d[i].units = c[i].units
             /\ d[i].tierCount = IF i \in own THEN Cardinality(own) ELSE c[i].tierCount
             /\ d[i].count = IF last THEN L ELSE c[i].count
  <2>1. PICK x \in CutChunks : x = c[i]
    BY <1>1
  <2>2. PICK a \in Nat : a = IF i \in own THEN Cardinality(own) ELSE x.tierCount
    BY <1>3 DEF CutChunks
  <2>3. PICK b \in Nat : b = IF last THEN L ELSE x.count
    BY DEF CutChunks
  <2>4. d[i] = [x EXCEPT !.tierCount = a, !.count = b]
    BY <1>5, <2>1, <2>2, <2>3
  <2>5. PICK y : y = d[i] /\ y \in CutChunks /\ y.block = x.block /\ y.tier = x.tier /\ y.index = x.index
                 /\ y.tierIndex = x.tierIndex /\ y.units = x.units /\ y.tierCount = a /\ y.count = b
    BY <2>4 DEF CutChunks
  <2> QED BY <2>1, <2>2, <2>3, <2>5
<1>7. DOMAIN d = 1 .. L /\ d \in [1 .. L -> CutChunks]
  BY <1>5, <1>6
<1>8. d \in Seq(CutChunks) /\ Len(d) = L
  BY <1>7
<1> QED BY <1>1, <1>2, <1>4, <1>6, <1>7, <1>8 DEF CountedFrom

\* They change no other tier.
LEMMA CountsOfOthers ==
    ASSUME NEW c, NEW d, NEW last, CountedFrom(c, d, last), NEW b, NEW t, ~ (b = block /\ t = tier)
    PROVE  SameChunks(c, d, b, t)
<1>1. Own(d, b, t) = Own(c, b, t)
  BY DEF CountedFrom, Own
<1>2. \A i \in Own(c, b, t) : i \in DOMAIN c /\ i \notin Own(c, block, tier)
  BY DEF Own
<1> QED BY <1>1, <1>2 DEF SameChunks, CountedFrom

\* With them the tier is done.
LEMMA TierDone ==
    ASSUME NEW c \in Seq(CutChunks), NEW u, Numbered(u), NEW m, NEW fill,
           Closed(c, u, block, tier, m, fill), End(fill) = Len(u),
           NEW d, NEW last, CountedFrom(c, d, last)
    PROVE  DoneTier(d, u, block, tier)
<1>1. PICK n \in Nat : n = Len(c) /\ DOMAIN c = 1 .. n
  <2>1. Len(c) \in Nat /\ DOMAIN c = 1 .. Len(c)
    BY LenProperties
  <2> QED BY <2>1
<1>2. m \in 1 .. n /\ Own(c, block, tier) = m .. n /\ Chained(c, u, tier, m, n) /\ c[n].units = fill
  BY <1>1 DEF Closed
<1>3. m \in m .. n /\ n \in m .. n /\ m \in DOMAIN c /\ n \in DOMAIN c /\ m <= n /\ \A i \in m .. n : i \in DOMAIN c
  BY <1>1, <1>2
<1>4. Own(d, block, tier) = m .. n
  <2>1. Own(d, block, tier) = Own(c, block, tier)
    BY DEF CountedFrom, Own
  <2> QED BY <1>2, <2>1
<1>5. Cardinality(m .. n) = n - m + 1
  <2>1. m \in Int /\ n \in Int
    BY <1>2
  <2>2. Cardinality(m .. n) = IF m > n THEN 0 ELSE n - m + 1
    BY <2>1, FS_Interval
  <2> QED BY <1>2, <2>1, <2>2
<1>6. \A i \in m .. n : d[i].units = c[i].units /\ d[i].tierIndex = c[i].tierIndex /\ d[i].tierCount = n - m + 1
  BY <1>2, <1>3, <1>5 DEF CountedFrom
<1>7. \A i \in m .. n : FitsTier(u, tier, d[i].units) /\ d[i].tierIndex = i - m
  BY <1>2, <1>6 DEF Chained
<1>8. ASSUME NEW i \in m + 1 .. n PROVE Follows(u, tier, d[i - 1].units, d[i].units)
  <2>1. i \in m .. n /\ i - 1 \in m .. n
    BY <1>2
  <2>2. Follows(u, tier, c[i - 1].units, c[i].units)
    BY <1>2 DEF Chained
  <2> QED BY <1>6, <2>1, <2>2
<1>9. Begin(d[m].units) = 1
  BY <1>2, <1>3, <1>6 DEF Chained
<1>10. Chained(d, u, tier, m, n)
  BY <1>7, <1>8, <1>9 DEF Chained
<1>11. End(d[n].units) = Len(u)
  BY <1>2, <1>3, <1>6
<1>12. m \in DOMAIN d /\ n \in DOMAIN d
  BY <1>3 DEF CountedFrom
<1> QED BY <1>3, <1>4, <1>6, <1>10, <1>11, <1>12 DEF DoneTier

\* The tiers that are done are kept, when the chunks of all are counted.
LEMMA DoneIsKept ==
    ASSUME cut \in Seq(CutChunks), NEW b, NEW t \in 1 .. 2, Numbered(UnitsOf(textBlocks[b].text, t)),
           DoneTier(cut, UnitsOf(textBlocks[b].text, t), b, t), \A i \in DOMAIN cut : cut[i].count = Len(cut)
    PROVE  TierKept(b, t)
<1>1. PICK u : u = UnitsOf(textBlocks[b].text, t) /\ Numbered(u)
  OBVIOUS
<1>2. PICK m \in DOMAIN cut, n \in DOMAIN cut :
        /\ Own(cut, b, t) = m .. n /\ m <= n /\ Chained(cut, u, t, m, n) /\ End(cut[n].units) = Len(u)
        /\ \A i \in m .. n : cut[i].tierCount = n - m + 1
  BY <1>1 DEF DoneTier
<1>3. Len(cut) \in Nat /\ DOMAIN cut = 1 .. Len(cut) /\ m \in 1 .. Len(cut) /\ n \in 1 .. Len(cut)
  BY LenProperties
<1>4. {i \in DOMAIN cut : cut[i].block = b /\ cut[i].tier = t} = m .. n
  BY <1>2 DEF Own
<1>5. \A i \in m .. n : FitsTier(u, t, cut[i].units) /\ cut[i].tierIndex = i - m /\ i \in DOMAIN cut
  BY <1>2, <1>3 DEF Chained
<1>6. \A i \in m .. n : cut[i].units = SubSeq(u, Begin(cut[i].units), End(cut[i].units))
                        /\ (unitsTokenLen(cut[i].units) <= TierSize[t] \/ Len(cut[i].units) = 1)
  BY <1>5 DEF FitsTier
<1>7. ASSUME NEW i \in m .. n, i > m PROVE Follows(u, t, cut[i - 1].units, cut[i].units)
  <2>1. i \in m + 1 .. n
    BY <1>3, <1>7
  <2> QED BY <1>2, <2>1 DEF Chained
<1>8. Begin(cut[m].units) = 1
  BY <1>2 DEF Chained
<1>9. \A i : Begin(cut[i].units) = cut[i].units[1].no /\ End(cut[i].units) = Last(cut[i].units).no
  BY DEF Begin, End, Last
<1>10. \A i \in m .. n :
         /\ cut[i].units = SubSeq(u, cut[i].units[1].no, Last(cut[i].units).no)
         /\ unitsTokenLen(cut[i].units) <= TierSize[t] \/ Len(cut[i].units) = 1
         /\ cut[i].tierIndex = i - m /\ cut[i].tierCount = n - m + 1 /\ cut[i].count = Len(cut)
  BY <1>2, <1>5, <1>6, <1>9
<1>11. ASSUME NEW i \in m .. n, i > m
       PROVE  /\ cut[i - 1].units[1].no < cut[i].units[1].no
              /\ cut[i].units[1].no <= Last(cut[i - 1].units).no + 1
              /\ Last(cut[i - 1].units).no < Last(cut[i].units).no
              /\ unitsTokenLen(SubSeq(u, cut[i].units[1].no + 1, Last(cut[i - 1].units).no)) < TierOverlap[t]
                   \/ cut[i].units[1].no > Last(cut[i - 1].units).no
  BY <1>7, <1>9, <1>11 DEF Follows
<1>12. cut[m].units[1].no = 1 /\ Last(cut[n].units).no = Len(u)
  BY <1>2, <1>8, <1>9
<1> QED BY <1>1, <1>2, <1>4, <1>10, <1>11, <1>12 DEF TierKept

-----------------------------------------------------------------------------
(* Cutting *)

\* The blocks, and the units of one in a tier.
Methods == {"pdftotext", "golib", "ocr-service", "paddleocr", "parser"}
BlockRecords == [no : Nat, method : Methods, text : Readables]
UnitsIn(b, t) == UnitsOf(textBlocks[b].text, t)

\* The chunks in order, none of a tier that comes later, and the tiers that ended.
ChunksInOrder(c) ==
    /\ c \in Seq(CutChunks)
    /\ \A i \in DOMAIN c : c[i].index = i - 1
    /\ \A i \in DOMAIN c : c[i].block < block \/ (c[i].block = block /\ c[i].tier <= tier)
Earlier(b, t) == b < block \/ (b = block /\ t < tier)
EarlierDone(c) ==
    \A b \in DOMAIN textBlocks, t \in 1 .. 2 : Earlier(b, t) => DoneTier(c, UnitsIn(b, t), b, t)
TierGoesOn ==
    /\ block \in DOMAIN textBlocks /\ tier \in 1 .. 2
    /\ \E m : CutSoFar(cut, UnitsIn(block, tier), block, tier, m, filling, pending)

CutRight ==
    /\ textBlocks \in Seq(BlockRecords)
    /\ at = "cut" => ChunksInOrder(cut) /\ EarlierDone(cut) /\ TierGoesOn
    /\ at = "done" => /\ cut \in Seq(CutChunks)
                      /\ \A i \in DOMAIN cut : cut[i].index = i - 1 /\ cut[i].count = Len(cut)
                      /\ \A b \in DOMAIN textBlocks, t \in 1 .. 2 : DoneTier(cut, UnitsIn(b, t), b, t)
    /\ at \in {"parse", "ocr", "blocks"} => cut = <<>> /\ filling = <<>> /\ block = 1 /\ tier = 1

\* The units of a block are numbered.
LEMMA UnitsNumbered ==
    ASSUME textBlocks \in Seq(BlockRecords), NEW b \in DOMAIN textBlocks, NEW t \in 1 .. 2
    PROVE  Numbered(UnitsIn(b, t)) /\ UnitsKept(b, t)
<1>1. PICK x \in BlockRecords : x = textBlocks[b]
  OBVIOUS
<1>2. x.text \in Readables
  BY DEF BlockRecords
<1>3. textBlocks[b].text \in Readables
  BY <1>1, <1>2
<1> QED BY <1>3, UnitsAreKept DEF UnitsIn

\* A chunk that is closed is the last one of its tier.
FilledChunk(d, u, m) ==
    /\ ChunksInOrder(d) /\ EarlierDone(d) /\ Closed(d, u, block, tier, m, filling)
LEMMA CloseFilling ==
    ASSUME textBlocks \in Seq(BlockRecords), ChunksInOrder(cut), EarlierDone(cut),
           block \in DOMAIN textBlocks, tier \in 1 .. 2, filling # <<>>,
           NEW u, u = UnitsIn(block, tier), NEW m, CutSoFar(cut, u, block, tier, m, filling, pending),
           NEW d, d = Append(cut, ClosedChunk(filling))
    PROVE  FilledChunk(d, u, m)
<1>1. Numbered(u)
  BY UnitsNumbered
<1>2. filling \in Seq(Units)
  <2>1. FitsTier(u, tier, filling)
    BY DEF CutSoFar
  <2> QED BY <1>1, <2>1, EndOf
<1>3. cut \in Seq(CutChunks)
  BY DEF ChunksInOrder
<1>4. PICK L \in Nat : L = Len(cut) /\ DOMAIN cut = 1 .. L
  <2>1. Len(cut) \in Nat /\ DOMAIN cut = 1 .. Len(cut)
    BY <1>3, LenProperties
  <2> QED BY <2>1
<1>5. Cardinality(Own(cut, block, tier)) \in Nat
  <2>1. Own(cut, block, tier) \in SUBSET (1 .. L)
    BY <1>4 DEF Own
  <2>2. IsFiniteSet(1 .. L)
    BY FS_Interval
  <2>3. IsFiniteSet(Own(cut, block, tier))
    BY <2>1, <2>2, FS_Subset
  <2> QED BY <2>3, FS_CardinalityType
<1>6. block \in Nat /\ tier \in Nat
  OBVIOUS
<1>7. PICK x \in CutChunks : /\ x = ClosedChunk(filling) /\ x.block = block /\ x.tier = tier /\ x.index = L
                             /\ x.tierIndex = Cardinality(Own(cut, block, tier)) /\ x.units = filling
  <2>1. PICK k \in Nat : k = Cardinality(Own(cut, block, tier))
    BY <1>5
  <2>2. ClosedChunk(filling) = [block |-> block, tier |-> tier, index |-> L, tierIndex |-> k,
                                tierCount |-> 0, count |-> 0, units |-> filling]
    BY <1>4, <2>1 DEF ClosedChunk, Own
  <2>3. PICK x : x = [block |-> block, tier |-> tier, index |-> L, tierIndex |-> k,
                      tierCount |-> 0, count |-> 0, units |-> filling]
    OBVIOUS
  <2>4. x \in CutChunks /\ x.block = block /\ x.tier = tier /\ x.index = L /\ x.tierIndex = k /\ x.units = filling
    BY <1>2, <1>6, <2>3 DEF CutChunks
  <2> QED BY <2>1, <2>2, <2>3, <2>4
<1>8. d = Append(cut, x)
  BY <1>7
<1>9. Closed(d, u, block, tier, m, filling)
  BY <1>1, <1>3, <1>7, <1>8, CloseOne
<1>10. d \in Seq(CutChunks) /\ DOMAIN d = 1 .. L + 1 /\ d[L + 1] = x /\ \A i \in 1 .. L : d[i] = cut[i]
  <2>1. d \in Seq(CutChunks) /\ Len(d) = L + 1 /\ d[L + 1] = x /\ \A i \in 1 .. L : d[i] = cut[i]
    BY <1>3, <1>4, <1>8, AppendProperties
  <2> QED BY <2>1, LenProperties
<1>11. ChunksInOrder(d)
  <2>1. ASSUME NEW i \in 1 .. L + 1
        PROVE  d[i].index = i - 1 /\ (d[i].block < block \/ (d[i].block = block /\ d[i].tier <= tier))
    <3>1. CASE i = L + 1
      BY <1>6, <1>7, <1>10, <3>1
    <3>2. CASE i # L + 1
      <4>1. i \in 1 .. L
        BY <3>2
      <4> QED BY <1>4, <1>10, <4>1 DEF ChunksInOrder
    <3> QED BY <3>1, <3>2
  <2> QED BY <1>10, <2>1 DEF ChunksInOrder
<1>12. ASSUME NEW b \in DOMAIN textBlocks, NEW t \in 1 .. 2, Earlier(b, t)
       PROVE  DoneTier(d, UnitsIn(b, t), b, t)
  <2>1. ~ (x.block = b /\ x.tier = t)
    BY <1>6, <1>7, <1>12 DEF Earlier
  <2>2. SameChunks(cut, d, b, t)
    BY <1>3, <1>8, <2>1, OthersStay
  <2>3. DoneTier(cut, UnitsIn(b, t), b, t)
    BY <1>12 DEF EarlierDone
  <2> QED BY <1>3, <2>2, <2>3, DoneStays
<1>13. EarlierDone(d)
  BY <1>12 DEF EarlierDone
<1> QED BY <1>9, <1>11, <1>13 DEF FilledChunk

\* Taking a unit goes on with the tier (the loop of chunkTextByTokens).
LEMMA TakeStep == CutRight /\ TakeUnit => CutRight'
<1> SUFFICES ASSUME CutRight, TakeUnit PROVE CutRight'
  OBVIOUS
<1>1. /\ at = "cut" /\ at' = "cut" /\ pending # <<>> /\ pending' = Tail(pending)
      /\ UNCHANGED <<textBlocks, block, tier>>
  BY DEF TakeUnit
<1>2. /\ textBlocks \in Seq(BlockRecords) /\ ChunksInOrder(cut) /\ EarlierDone(cut)
      /\ block \in DOMAIN textBlocks /\ tier \in 1 .. 2
  BY <1>1 DEF CutRight, TierGoesOn
<1>3. PICK u : u = UnitsIn(block, tier)
  OBVIOUS
<1>4. PICK m : CutSoFar(cut, u, block, tier, m, filling, pending)
  BY <1>1, <1>3 DEF CutRight, TierGoesOn
<1>5. Numbered(u) /\ cut \in Seq(CutChunks)
  BY <1>2, <1>3, UnitsNumbered DEF ChunksInOrder
<1>6. PICK kept : kept = overlapUnitsByTokens(filling, TierOverlap[tier])
  OBVIOUS
<1>7. PICK over \in BOOLEAN, again \in BOOLEAN :
        (over <=> TooLong(tier, filling, Head(pending))) /\ (again <=> TooLong(tier, kept, Head(pending)))
  BY Zenon
<1>8. /\ cut' = IF over THEN Append(cut, ClosedChunk(filling)) ELSE cut
      /\ filling' = Append(IF ~ over THEN filling ELSE IF again THEN <<>> ELSE kept, Head(pending))
  BY <1>6, <1>7 DEF TakeUnit, TooLong
<1>9. ChunksInOrder(cut') /\ EarlierDone(cut') /\ CutSoFar(cut', u, block, tier, m, filling', pending')
  <2>1. CASE ~ TooLong(tier, filling, Head(pending))
    <3>1. cut' = cut /\ filling' = Append(filling, Head(pending))
      BY <1>7, <1>8, <2>1
    <3>2. CutSoFar(cut, u, block, tier, m, Append(filling, Head(pending)), Tail(pending))
      BY <1>1, <1>2, <1>4, <1>5, <2>1, JoinChunk
    <3> QED BY <1>1, <1>2, <3>1, <3>2
  <2>2. CASE TooLong(tier, filling, Head(pending))
    <3>2. filling # <<>>
      BY <2>2 DEF TooLong
    <3>3. cut' = Append(cut, ClosedChunk(filling))
      BY <1>7, <1>8, <2>2
    <3>4. filling' = Append(RestOf(tier, kept, Head(pending)), Head(pending))
      <4>1. filling' = Append(IF again THEN <<>> ELSE kept, Head(pending))
        BY <1>7, <1>8, <2>2
      <4>2. RestOf(tier, kept, Head(pending)) = IF again THEN <<>> ELSE kept
        BY <1>7 DEF RestOf
      <4> QED BY <4>1, <4>2
    <3>5. FilledChunk(cut', u, m)
      BY <1>2, <1>3, <1>4, <3>2, <3>3, CloseFilling
    <3>6. ChunksInOrder(cut') /\ EarlierDone(cut') /\ Closed(cut', u, block, tier, m, filling)
      BY <3>5 DEF FilledChunk
    <3>7. cut' \in Seq(CutChunks)
      BY <3>6 DEF ChunksInOrder
    <3>8. CutSoFar(cut', u, block, tier, m, Append(RestOf(tier, kept, Head(pending)), Head(pending)), Tail(pending))
      BY <1>1, <1>2, <1>4, <1>5, <1>6, <2>2, <3>6, <3>7, CloseChunk
    <3> QED BY <1>1, <3>4, <3>6, <3>8
  <2> QED BY <2>1, <2>2
<1>10. ChunksInOrder(cut)' /\ EarlierDone(cut)' /\ TierGoesOn'
  BY <1>1, <1>2, <1>3, <1>9 DEF ChunksInOrder, EarlierDone, Earlier, UnitsIn, TierGoesOn
<1> QED BY <1>1, <1>2, <1>10 DEF CutRight

\* When the chunks of a tier are counted, it is done, and those before it still are.
CountedChunks(e, last) ==
    /\ ChunksInOrder(e) /\ EarlierDone(e) /\ DoneTier(e, UnitsIn(block, tier), block, tier) /\ e # <<>>
    /\ last => \A i \in DOMAIN e : e[i].count = Len(e)
LEMMA CountFilled ==
    ASSUME textBlocks \in Seq(BlockRecords), block \in DOMAIN textBlocks, tier \in 1 .. 2,
           NEW u, u = UnitsIn(block, tier), NEW m, NEW d, FilledChunk(d, u, m), End(filling) = Len(u),
           NEW last \in BOOLEAN, NEW e, e = WithCounts(d, last)
    PROVE  CountedChunks(e, last)
<1>1. ChunksInOrder(d) /\ EarlierDone(d) /\ Closed(d, u, block, tier, m, filling)
  BY DEF FilledChunk
<1>2. d \in Seq(CutChunks)
  BY <1>1 DEF ChunksInOrder
<1>3. CountedFrom(d, e, last)
  BY <1>2, CountsFacts
<1>4. Numbered(u)
  BY UnitsNumbered
<1>5. DoneTier(e, u, block, tier)
  BY <1>1, <1>2, <1>3, <1>4, TierDone
<1>6. ChunksInOrder(e)
  BY <1>1, <1>3, SMTT(30) DEF ChunksInOrder, CountedFrom
<1>7. ASSUME NEW b \in DOMAIN textBlocks, NEW t \in 1 .. 2, Earlier(b, t)
      PROVE  DoneTier(e, UnitsIn(b, t), b, t)
  <2>1. ~ (b = block /\ t = tier)
    BY <1>7 DEF Earlier
  <2>2. SameChunks(d, e, b, t)
    BY <1>3, <2>1, CountsOfOthers
  <2>3. DoneTier(d, UnitsIn(b, t), b, t)
    BY <1>1, <1>7 DEF EarlierDone
  <2> QED BY <1>2, <2>2, <2>3, DoneStays
<1>8. EarlierDone(e)
  BY <1>7 DEF EarlierDone
<1>9. e # <<>>
  <2>1. 1 \in DOMAIN d
    <3>1. m \in 1 .. Len(d)
      BY <1>1 DEF Closed
    <3>2. Len(d) \in Nat /\ DOMAIN d = 1 .. Len(d)
      BY <1>2, LenProperties
    <3> QED BY <3>1, <3>2
  <2>2. 1 \in DOMAIN e
    BY <1>3, <2>1 DEF CountedFrom
  <2> QED BY <2>2
<1>10. last => \A i \in DOMAIN e : e[i].count = Len(e)
  BY <1>3 DEF CountedFrom
<1> QED BY <1>5, <1>6, <1>8, <1>9, <1>10 DEF CountedChunks

\* buildRetrievalChunks: ending a tier leaves it done, and goes on with the next one or ends the job.
LEMMA EndStep == CutRight /\ EndTier => CutRight'
<1> SUFFICES ASSUME CutRight, EndTier PROVE CutRight'
  OBVIOUS
<1>1. at = "cut" /\ pending = <<>> /\ filling' = <<>> /\ UNCHANGED textBlocks
  BY DEF EndTier
<1>2. /\ textBlocks \in Seq(BlockRecords) /\ ChunksInOrder(cut) /\ EarlierDone(cut)
      /\ block \in DOMAIN textBlocks /\ tier \in 1 .. 2
  BY <1>1 DEF CutRight, TierGoesOn
<1>3. PICK N \in Nat : N = Len(textBlocks) /\ DOMAIN textBlocks = 1 .. N /\ block \in 1 .. N
  <2>1. Len(textBlocks) \in Nat /\ DOMAIN textBlocks = 1 .. Len(textBlocks)
    BY <1>2, LenProperties
  <2> QED BY <1>2, <2>1
<1>4. PICK u : u = UnitsIn(block, tier)
  OBVIOUS
<1>5. PICK m : CutSoFar(cut, u, block, tier, m, filling, pending)
  BY <1>1, <1>4 DEF CutRight, TierGoesOn
<1>6. Numbered(u)
  BY <1>2, <1>4, UnitsNumbered
<1>7. filling # <<>> /\ End(filling) = Len(u)
  BY <1>1, <1>2, <1>5, <1>6, AllTaken
<1>8. PICK d : d = Append(cut, ClosedChunk(filling)) /\ FilledChunk(d, u, m)
  BY <1>2, <1>4, <1>5, <1>7, CloseFilling
<1>9. PICK last \in BOOLEAN : last <=> block = N /\ tier = 2
  OBVIOUS
<1>10. PICK e : e = WithCounts(d, last) /\ CountedChunks(e, last)
  BY <1>2, <1>4, <1>7, <1>8, CountFilled
<1>11. Len(Tiers) = 2
  BY DEF Tiers
<1>12. /\ cut' = e
       /\ tier' = IF tier = 2 THEN 1 ELSE tier + 1
       /\ block' = IF tier = 2 /\ ~ last THEN block + 1 ELSE block
       /\ pending' = IF last THEN <<>> ELSE UnitsOf(textBlocks[block'].text, tier')
       /\ at' = IF ~ last THEN "cut" ELSE IF cut' = <<>> THEN "failed" ELSE "done"
  BY <1>3, <1>7, <1>8, <1>9, <1>10, <1>11 DEF EndTier
<1>13. /\ ChunksInOrder(e) /\ EarlierDone(e) /\ DoneTier(e, u, block, tier) /\ e # <<>>
       /\ last => \A i \in DOMAIN e : e[i].count = Len(e)
  BY <1>4, <1>10 DEF CountedChunks
<1>14. /\ e \in Seq(CutChunks)
       /\ \A i \in DOMAIN e : e[i].index = i - 1
       /\ \A i \in DOMAIN e : e[i].block < block \/ (e[i].block = block /\ e[i].tier <= tier)
  BY <1>13 DEF ChunksInOrder
<1>15. CASE last
  <2>1. at' = "done"
    BY <1>12, <1>13, <1>15
  <2>2. ASSUME NEW b \in DOMAIN textBlocks, NEW t \in 1 .. 2
        PROVE  DoneTier(e, UnitsIn(b, t), b, t)
    <3>1. CASE b = block /\ t = tier
      BY <1>4, <1>13, <3>1
    <3>2. CASE ~ (b = block /\ t = tier)
      <4>1. Earlier(b, t)
        BY <1>3, <1>9, <1>15, <3>2 DEF Earlier
      <4> QED BY <1>13, <4>1 DEF EarlierDone
    <3> QED BY <3>1, <3>2
  <2>3. \A i \in DOMAIN e : e[i].index = i - 1 /\ e[i].count = Len(e)
    BY <1>13, <1>14, <1>15
  <2>4. \A b \in DOMAIN textBlocks', t \in 1 .. 2 : DoneTier(cut', UnitsIn(b, t)', b, t)
    BY <1>1, <1>12, <2>2 DEF UnitsIn
  <2> QED BY <1>1, <1>2, <1>12, <1>14, <2>1, <2>3, <2>4 DEF CutRight
<1>16. CASE ~ last
  <2>1. at' = "cut"
    BY <1>12, <1>16
  <2>2. PICK b1 \in 1 .. N, t1 \in 1 .. 2 :
          /\ b1 = block' /\ t1 = tier'
          /\ (b1 = block /\ tier = 1 /\ t1 = 2) \/ (b1 = block + 1 /\ tier = 2 /\ t1 = 1)
    <3>1. CASE tier = 2
      <4>1. tier' = 1 /\ block' = block + 1 /\ block # N
        BY <1>9, <1>12, <1>16, <3>1
      <4>2. block + 1 \in 1 .. N
        BY <1>3, <4>1
      <4> QED BY <3>1, <4>1, <4>2
    <3>2. CASE tier # 2
      <4>1. tier = 1 /\ tier' = 2 /\ block' = block
        BY <1>2, <1>12, <3>2
      <4> QED BY <1>3, <4>1
    <3> QED BY <3>1, <3>2
  <2>3. PICK v : v = UnitsIn(b1, t1)
    OBVIOUS
  <2>4. pending' = v
    BY <1>12, <1>16, <2>2, <2>3 DEF UnitsIn
  <2>5. Own(e, b1, t1) = {}
    <3>1. ASSUME NEW i \in DOMAIN e PROVE ~ (e[i].block = b1 /\ e[i].tier = t1)
      BY <1>14, <2>2, <1>3
    <3> QED BY <3>1 DEF Own
  <2>6. CutSoFar(e, v, b1, t1, Len(e) + 1, <<>>, v)
    BY <1>14, <2>5, BeginTier
  <2>7. UnitsIn(block, tier)' = v
    BY <1>1, <2>2, <2>3 DEF UnitsIn
  <2>8. CutSoFar(cut', UnitsIn(block, tier)', block', tier', Len(e) + 1, filling', pending')
    BY <1>1, <1>12, <2>2, <2>4, <2>6, <2>7
  <2>9. TierGoesOn'
    BY <1>1, <1>3, <2>2, <2>8 DEF TierGoesOn
  <2>10. ChunksInOrder(cut)'
    <3>1. ASSUME NEW i \in DOMAIN e PROVE e[i].block < b1 \/ (e[i].block = b1 /\ e[i].tier <= t1)
      <4>1. e[i] \in CutChunks
        <5>1. e \in [1 .. Len(e) -> CutChunks] /\ DOMAIN e = 1 .. Len(e)
          BY <1>14, LenProperties
        <5> QED BY <5>1
      <4>2. e[i].block \in Nat /\ e[i].tier \in Nat
        BY <4>1 DEF CutChunks
      <4> QED BY <1>14, <2>2, <1>3, <4>2
    <3> QED BY <1>12, <1>14, <2>2, <3>1 DEF ChunksInOrder
  <2>11. EarlierDone(cut)'
    <3>1. ASSUME NEW b \in DOMAIN textBlocks, NEW t \in 1 .. 2, b < b1 \/ (b = b1 /\ t < t1)
          PROVE  DoneTier(e, UnitsIn(b, t), b, t)
      <4>1. CASE b = block /\ t = tier
        BY <1>4, <1>13, <4>1
      <4>2. CASE ~ (b = block /\ t = tier)
        <5>1. Earlier(b, t)
          BY <1>2, <1>3, <2>2, <3>1, <4>2 DEF Earlier
        <5> QED BY <1>13, <5>1 DEF EarlierDone
      <4> QED BY <4>1, <4>2
    <3> QED BY <1>1, <1>12, <2>2, <3>1 DEF EarlierDone, Earlier, UnitsIn
  <2> QED BY <1>1, <1>2, <2>1, <2>9, <2>10, <2>11 DEF CutRight
<1> QED BY <1>15, <1>16

\* The first tier of the first block begins.
LEMMA StartStep ==
    ASSUME CutRight, at \in {"parse", "blocks"}, NEW blocks \in Seq(BlockRecords), StartBlocks(blocks)
    PROVE  CutRight'
<1>1. /\ textBlocks' = blocks /\ cut = <<>> /\ cut' = <<>> /\ filling' = <<>>
      /\ block = 1 /\ tier = 1 /\ block' = 1 /\ tier' = 1
  BY DEF CutRight, StartBlocks
<1>2. CASE blocks = <<>>
  <2>1. at' = "failed"
    BY <1>2 DEF StartBlocks
  <2> QED BY <1>1, <2>1 DEF CutRight
<1>3. CASE blocks # <<>>
  <2>1. at' = "cut" /\ pending' = UnitsOf(blocks[1].text, 1)
    BY <1>3 DEF StartBlocks
  <2>2. 1 \in DOMAIN blocks
    BY <1>3, EmptySeq, LenProperties
  <2>3. PICK c \in Seq(CutChunks) : c = <<>> /\ DOMAIN c = {}
    <3>1. PICK c \in Seq(CutChunks) : c = <<>> /\ Len(c) = 0
      BY EmptySeq
    <3>2. DOMAIN c = {}
      <4>1. DOMAIN c = 1 .. 0
        BY <3>1, LenProperties
      <4>2. 1 .. 0 = {}
        OBVIOUS
      <4> QED BY <4>1, <4>2
    <3> QED BY <3>1, <3>2, Zenon
  <2>4. PICK v : v = UnitsOf(blocks[1].text, 1)
    OBVIOUS
  <2>5. Own(c, 1, 1) = {}
    BY <2>3 DEF Own
  <2>6. CutSoFar(c, v, 1, 1, Len(c) + 1, <<>>, v)
    BY <2>3, <2>5, BeginTier
  <2>7. UnitsIn(block, tier)' = v /\ pending' = v
    BY <1>1, <2>1, <2>4 DEF UnitsIn
  <2>8. TierGoesOn'
    <3>1. CutSoFar(cut', UnitsIn(block, tier)', block', tier', Len(c) + 1, filling', pending')
      BY <1>1, <2>3, <2>6, <2>7
    <3> QED BY <1>1, <2>2, <3>1 DEF TierGoesOn
  <2>9. ChunksInOrder(cut)'
    BY <1>1, <2>3 DEF ChunksInOrder
  <2>10. EarlierDone(cut)'
    <3>1. \A b \in DOMAIN blocks, t \in 1 .. 2 : ~ (b < 1 \/ (b = 1 /\ t < 1))
      <4>1. DOMAIN blocks = 1 .. Len(blocks) /\ Len(blocks) \in Nat
        BY LenProperties
      <4> QED BY <4>1
    <3> QED BY <1>1, <3>1 DEF EarlierDone, Earlier
  <2> QED BY <1>1, <2>1, <2>8, <2>9, <2>10 DEF CutRight
<1> QED BY <1>2, <1>3

-----------------------------------------------------------------------------
(* Pages *)

\* Pages that were read: those of a set of numbers, each once and in order.
Reads(s, S) ==
    \E n \in Nat :
        /\ s = [i \in 1 .. n |-> s[i]]
        /\ \A i \in 1 .. n : s[i].page \in S
        /\ \A p \in S : \E i \in 1 .. n : s[i].page = p
        /\ \A i, j \in 1 .. n : i < j => s[i].page < s[j].page
LEMMA ReadsPages ==
    ASSUME NEW s, NEW S, Reads(s, S)
    PROVE  PagesIn(s) = S /\ (s = <<>> <=> S = {})
<1>1. PICK n \in Nat :
        /\ s = [i \in 1 .. n |-> s[i]] /\ \A i \in 1 .. n : s[i].page \in S
        /\ \A p \in S : \E i \in 1 .. n : s[i].page = p
  BY DEF Reads
<1>2. DOMAIN s = 1 .. n
  BY <1>1
<1>3. PagesIn(s) = S
  BY <1>1, <1>2 DEF PagesIn
<1>4. s = <<>> => S = {}
  BY <1>3 DEF PagesIn
<1>5. ASSUME S = {} PROVE s = <<>>
  <2>1. 1 .. n = {}
    BY <1>1, <1>5
  <2> QED BY <1>1, <2>1
<1> QED BY <1>3, <1>4, <1>5

\* The page of a reading with a number.
LEMMA PageOfFacts ==
    ASSUME NEW s, NEW n \in Nat, DOMAIN s = 1 .. n, NEW p \in PagesIn(s)
    PROVE  \E i \in DOMAIN s : PageOf(s, p) = s[i] /\ s[i].page = p
<1>1. PICK T : T = {i \in DOMAIN s : s[i].page = p}
  OBVIOUS
<1>2. T \in SUBSET (0 .. n)
  BY <1>1
<1>3. T # {}
  BY <1>1 DEF PagesIn
<1>4. Max(T) \in T
  BY <1>2, <1>3, GreatestIs
<1>5. PageOf(s, p) = s[Max(T)]
  BY <1>1 DEF PageOf
<1> QED BY <1>1, <1>4, <1>5

\* A reading is a sequence.
LEMMA ReadsLength ==
    ASSUME NEW s, NEW S, Reads(s, S)
    PROVE  \E n \in Nat : DOMAIN s = 1 .. n
<1>1. PICK n \in Nat : s = [i \in 1 .. n |-> s[i]]
  BY DEF Reads
<1> QED BY <1>1

\* The numbers of a sequence of pages are finitely many.
LEMMA NumbersFinite ==
    ASSUME NEW s, NEW n \in Nat, DOMAIN s = 1 .. n
    PROVE  IsFiniteSet(PagesIn(s))
<1>1. IsFiniteSet(1 .. n)
  BY FS_Interval
<1>2. PICK g : g = [i \in 1 .. n |-> s[i].page]
  OBVIOUS
<1>3. PICK P : P = PagesIn(s)
  OBVIOUS
<1>4. P = {g[i] : i \in 1 .. n}
  BY <1>2, <1>3 DEF PagesIn
<1>5. g \in Surjection(1 .. n, P)
  BY <1>2, <1>4 DEF Surjection
<1> QED BY <1>1, <1>3, <1>5, FS_Surjection

\* A finite set of numbers and its numbers in order.
ListsInOrder(S, q) ==
    \E n \in Nat : /\ q \in [1 .. n -> S]
                   /\ \A i, j \in 1 .. n : i < j => q[i] < q[j]
                   /\ \A x \in S : \E k \in 1 .. n : q[k] = x
LEMMA NumbersListed ==
    ASSUME NEW S, S \in SUBSET Int, IsFiniteSet(S), NEW q, q = Ascending(S)
    PROVE  ListsInOrder(S, q)
<1>1. /\ Cardinality(S) \in Nat /\ q \in [1 .. Cardinality(S) -> S]
      /\ \A i, j \in 1 .. Cardinality(S) : i < j => q[i] < q[j]
      /\ \A x \in S : \E k \in 1 .. Cardinality(S) : q[k] = x
  BY NumbersInOrder
<1> QED BY <1>1 DEF ListsInOrder

\* A page that has an element for each number of a set, in their order.
LEMMA InOrderReads ==
    ASSUME NEW S, S \in SUBSET Nat, IsFiniteSet(S), NEW q, q = Ascending(S),
           NEW s, DOMAIN s = DOMAIN q, s = [i \in DOMAIN q |-> s[i]], \A i \in DOMAIN q : s[i].page = q[i]
    PROVE  Reads(s, S)
<1>2. S \in SUBSET Int
  OBVIOUS
<1>3. PICK n \in Nat :
        /\ q \in [1 .. n -> S]
        /\ \A i, j \in 1 .. n : i < j => q[i] < q[j]
        /\ \A x \in S : \E k \in 1 .. n : q[k] = x
  <2>1. ListsInOrder(S, q)
    BY <1>2, NumbersListed
  <2> QED BY <2>1 DEF ListsInOrder
<1>4. DOMAIN q = 1 .. n
  BY <1>3
<1>5. s = [i \in 1 .. n |-> s[i]] /\ \A i \in 1 .. n : s[i].page = q[i]
  BY <1>4
<1>6. \A i \in 1 .. n : s[i].page \in S
  BY <1>3, <1>5
<1>7. \A p \in S : \E i \in 1 .. n : s[i].page = p
  BY <1>3, <1>5
<1>8. \A i, j \in 1 .. n : i < j => s[i].page < s[j].page
  BY <1>3, <1>5
<1> QED BY <1>5, <1>6, <1>7, <1>8 DEF Reads

\* The pages of a PDF are finitely many.
LEMMA PdfPagesFinite ==
    ASSUME NEW S \in SUBSET PdfPageNos
    PROVE  S \in SUBSET Nat /\ IsFiniteSet(S)
<1>1. PageCount \in Nat
  BY ChunkingAssumption
<1>2. S \in SUBSET (1 .. PageCount)
  BY DEF PdfPageNos
<1>3. IsFiniteSet(1 .. PageCount)
  BY <1>1, FS_Interval
<1>4. S \in SUBSET Nat
  BY <1>1, <1>2
<1>5. IsFiniteSet(S)
  BY <1>2, <1>3, FS_Subset
<1> QED BY <1>4, <1>5

\* A tool reads the pages that have a text.
Method(s, methods, reading) == \A i \in DOMAIN s : s[i].method \in methods /\ s[i].quality = reading[s[i].page]
LEMMA ExtractedFacts ==
    ASSUME NEW method, NEW reading
    PROVE  Reads(Extracted(method, reading), Readable(reading)) /\ Method(Extracted(method, reading), {method}, reading)
<1>1. PICK q : q = Ascending(Readable(reading))
  OBVIOUS
<1>2. PICK s : s = Extracted(method, reading)
  OBVIOUS
<1>3. s = [i \in DOMAIN q |-> [page |-> q[i], method |-> method, quality |-> reading[q[i]]]]
  BY <1>1, <1>2 DEF Extracted, Extraction
<1>4. DOMAIN s = DOMAIN q /\ s = [i \in DOMAIN q |-> s[i]]
  BY <1>3
<1>5. \A i \in DOMAIN q : s[i].page = q[i] /\ s[i].method = method /\ s[i].quality = reading[q[i]]
  BY <1>3
<1>6. Readable(reading) \in SUBSET Nat /\ IsFiniteSet(Readable(reading))
  <2>1. Readable(reading) \in SUBSET PdfPageNos
    BY DEF Readable
  <2> QED BY <2>1, PdfPagesFinite
<1>7. Reads(s, Readable(reading))
  BY <1>1, <1>4, <1>5, <1>6, InOrderReads
<1>8. Method(s, {method}, reading)
  BY <1>4, <1>5 DEF Method
<1> QED BY <1>2, <1>7, <1>8

\* What the native tools can read, whether that is poor, and what the OCR reads then.
NativeMethods == {"pdftotext", "golib"}
OcrMethods == {"ocr-service", "paddleocr"}
NativeSet == IF file.tool = "none" THEN {} ELSE Readable(file.native)
Poor == NativeSet = {} \/ \E p \in NativeSet : isLowQualityPage(file.native[p])
OcrReads == IF OcrFails THEN {} ELSE Readable(file.ocr)
OcrSet == IF file.ocrEnabled /\ file.ocrTool # "none" /\ Poor THEN OcrReads ELSE {}
NativeRead(s) == Reads(s, NativeSet) /\ Method(s, NativeMethods, file.native)

\* An OCR reads pages under some numbers; under their own if it numbers them.
OcrRead(s) ==
    /\ \E n \in Nat : DOMAIN s = 1 .. n
    /\ \A i \in DOMAIN s : s[i].page \in Nat /\ s[i].method \in OcrMethods
    /\ OcrNumbersPages => PagesIn(s) = OcrReads

\* The native tools read them.
LEMMA NativeFacts ==
    ASSUME file.tool \in {"pdftotext", "golib", "none"}
    PROVE  NativeRead(parsePDFNativePages)
<1>1. PICK S : S = Readable(file.native)
  OBVIOUS
<1>2. PICK a : a = Extracted("pdftotext", file.native) /\ Reads(a, S) /\ Method(a, {"pdftotext"}, file.native)
  BY <1>1, ExtractedFacts
<1>3. PICK b : b = Extracted("golib", file.native) /\ Reads(b, S) /\ Method(b, {"golib"}, file.native)
  BY <1>1, ExtractedFacts
<1>4. Method(a, NativeMethods, file.native) /\ Method(b, NativeMethods, file.native)
  BY <1>2, <1>3 DEF Method, NativeMethods
<1>5. CASE file.tool = "none"
  <2>1. parsePDFNativePages = <<>>
    BY <1>5 DEF parsePDFNativePages, parsePDFPagesWithPdftotext, parsePDFPagesWithGoLib
  <2>2. NativeSet = {}
    BY <1>5 DEF NativeSet
  <2>3. Reads(<<>>, {})
    <3>1. 1 .. 0 = {}
      OBVIOUS
    <3>2. PICK s : s = <<>> /\ s = [i \in {} |-> s[i]]
      OBVIOUS
    <3> QED BY <3>1, <3>2 DEF Reads
  <2>4. Method(<<>>, NativeMethods, file.native)
    BY DEF Method
  <2> QED BY <2>1, <2>2, <2>3, <2>4 DEF NativeRead
<1>6. CASE file.tool # "none"
  <2>1. parsePDFNativePages = a \/ parsePDFNativePages = b
    BY <1>2, <1>3, <1>6 DEF parsePDFNativePages, parsePDFPagesWithPdftotext, parsePDFPagesWithGoLib
  <2>2. NativeSet = S
    BY <1>1, <1>6 DEF NativeSet
  <2> QED BY <1>2, <1>3, <1>4, <2>1, <2>2 DEF NativeRead
<1> QED BY <1>5, <1>6

\* OCR is needed when they read nothing or something poor, and there is an OCR.
LEMMA NeedsFacts ==
    ASSUME NEW s, NativeRead(s)
    PROVE  needsOCR(s) <=> file.ocrEnabled /\ Poor
<1>1. PagesIn(s) = NativeSet /\ (s = <<>> <=> NativeSet = {})
  BY ReadsPages DEF NativeRead
<1>2. (\E i \in DOMAIN s : isLowQualityPage(s[i].quality)) <=> \E p \in NativeSet : isLowQualityPage(file.native[p])
  <2>1. \A i \in DOMAIN s : s[i].quality = file.native[s[i].page]
    BY DEF NativeRead, Method
  <2> QED BY <1>1, <2>1 DEF PagesIn
<1> QED BY <1>1, <1>2 DEF needsOCR, Poor

\* The service reads the pages under their own numbers.
LEMMA ServiceFacts ==
    ASSUME file.ocrTool = "service"
    PROVE  OcrRead(parsePDFWithOCRService)
<1>1. PICK s : s = parsePDFWithOCRService
  OBVIOUS
<1>2. Reads(s, Readable(file.ocr)) /\ Method(s, {"ocr-service"}, file.ocr)
  BY <1>1, ExtractedFacts DEF parsePDFWithOCRService
<1>3. \E n \in Nat : DOMAIN s = 1 .. n
  BY <1>2, ReadsLength
<1>4. PagesIn(s) = Readable(file.ocr)
  BY <1>2, ReadsPages
<1>5. OcrReads = Readable(file.ocr)
  BY DEF OcrReads, OcrFails
<1>6. Readable(file.ocr) \subseteq Nat
  <2>1. Readable(file.ocr) \in SUBSET PdfPageNos
    BY DEF Readable
  <2> QED BY <2>1, PdfPagesFinite
<1>7. \A i \in DOMAIN s : s[i].page \in Nat /\ s[i].method \in OcrMethods
  BY <1>2, <1>4, <1>6 DEF PagesIn, Method, OcrMethods
<1> QED BY <1>1, <1>3, <1>4, <1>5, <1>7 DEF OcrRead

\* The place of an entry in its file.
PlaceOf(i) == Cardinality({j \in InFile(file.ocrOutput[i].file) : j <= i})

\* The command reads the entries with a text, each under the number it has or is given.
LEMMA CommandFacts ==
    ASSUME file.ocrTool = "command", file.ocrOutput \in OcrOutputs
    PROVE  OcrRead(parsePDFWithPaddleOCR)
<1>1. PICK o : o = file.ocrOutput
  OBVIOUS
<1>2. o \in Seq(OcrEntries) /\ {o[i].page : i \in DOMAIN o} = PdfPageNos
  BY <1>1, ChunkingAssumption
<1>3. PICK N \in Nat : DOMAIN o = 1 .. N
  BY <1>2
<1>4. PICK T : T = WithText
  OBVIOUS
<1>5. T = {i \in 1 .. N : file.ocr[o[i].page] # NoPage}
  BY <1>1, <1>3, <1>4 DEF WithText
<1>6. T \in SUBSET Int /\ IsFiniteSet(T)
  <2>1. IsFiniteSet(1 .. N)
    BY FS_Interval
  <2> QED BY <1>5, <2>1, FS_Subset
<1>7. PICK q : q = Ascending(T)
  OBVIOUS
<1>8. PICK n \in Nat : q \in [1 .. n -> T] /\ \A x \in T : \E k \in 1 .. n : q[k] = x
  <2>1. ListsInOrder(T, q)
    BY <1>6, <1>7, NumbersListed
  <2> QED BY <2>1 DEF ListsInOrder
<1>9. \A k \in 1 .. n : q[k] \in 1 .. N /\ o[q[k]] \in OcrEntries
  BY <1>2, <1>3, <1>5, <1>8
<1>10. PICK s : s = parsePDFWithPaddleOCR
  OBVIOUS
<1>11. CASE OcrFails
  <2>1. s = <<>>
    BY <1>10, <1>11 DEF parsePDFWithPaddleOCR
  <2>2. DOMAIN s = 1 .. 0 /\ PagesIn(s) = {}
    BY <2>1 DEF PagesIn
  <2> QED BY <1>10, <1>11, <2>2 DEF OcrRead, OcrReads
<1>12. CASE ~ OcrFails
  <2>1. s = [k \in 1 .. n |-> [page |-> PaddlePageNo(o[q[k]], PlaceOf(q[k])), method |-> "paddleocr",
                               quality |-> file.ocr[o[q[k]].page]]]
    BY <1>1, <1>4, <1>7, <1>8, <1>10, <1>12 DEF parsePDFWithPaddleOCR, PlaceOf
  <2>2. DOMAIN s = 1 .. n
    BY <2>1
  <2>3. \A k \in 1 .. n : s[k].page = PaddlePageNo(o[q[k]], PlaceOf(q[k])) /\ s[k].method = "paddleocr"
    BY <2>1
  <2>4. ASSUME NEW i \in 1 .. N PROVE PlaceOf(i) \in Nat
    <3>1. PICK P : P = {j \in InFile(file.ocrOutput[i].file) : j <= i}
      OBVIOUS
    <3>2. P \subseteq 1 .. N
      BY <1>1, <1>3, <3>1 DEF InFile
    <3>3. IsFiniteSet(1 .. N)
      BY FS_Interval
    <3>4. IsFiniteSet(P)
      BY <3>2, <3>3, FS_Subset
    <3>5. Cardinality(P) \in Nat
      BY <3>4, FS_CardinalityType
    <3> QED BY <3>1, <3>5 DEF PlaceOf
  <2>5. ASSUME NEW k \in 1 .. n PROVE s[k].page \in Nat
    <3>1. PICK e : e = o[q[k]] /\ e.n \in Nat
      BY <1>9 DEF OcrEntries
    <3>2. PICK i \in 1 .. N : i = q[k]
      BY <1>9
    <3>3. PICK p \in Nat : p = PlaceOf(i)
      BY <2>4
    <3>4. PaddlePageNo(e, p) \in Nat
      BY <3>1, <3>3 DEF PaddlePageNo
    <3> QED BY <2>3, <3>1, <3>2, <3>3, <3>4
  <2>6. ASSUME OcrNumbersPages PROVE PagesIn(s) = OcrReads
    <3>1. \A i \in 1 .. N : PaddlePageNo(o[i], PlaceOf(i)) = o[i].page
      BY <1>1, <1>3, <2>6 DEF OcrNumbersPages, PlaceOf
    <3>2. \A k \in 1 .. n : s[k].page = o[q[k]].page
      BY <1>9, <2>3, <3>1
    <3>3. PagesIn(s) = {o[q[k]].page : k \in 1 .. n}
      BY <2>2, <3>2 DEF PagesIn
    <3>4. {o[q[k]].page : k \in 1 .. n} = {o[i].page : i \in T}
      BY <1>8
    <3>5. {o[i].page : i \in T} = Readable(file.ocr)
      BY <1>2, <1>3, <1>5 DEF Readable
    <3> QED BY <1>12, <3>3, <3>4, <3>5 DEF OcrReads
  <2>7. \A k \in DOMAIN s : s[k].page \in Nat /\ s[k].method \in OcrMethods
    BY <2>2, <2>3, <2>5 DEF OcrMethods
  <2> QED BY <1>10, <2>2, <2>6, <2>7 DEF OcrRead
<1> QED BY <1>11, <1>12

\* What a file has depends on nothing else.
LEMMA SameFile ==
    ASSUME UNCHANGED file
    PROVE  /\ NativeSet' = NativeSet /\ (Poor' <=> Poor) /\ OcrSet' = OcrSet
           /\ (OcrFails' <=> OcrFails) /\ (OcrNumbersPages' <=> OcrNumbersPages)
<1>1. WithText' = WithText /\ \A n : InFile(n)' = InFile(n)
  BY Zenon DEF WithText, InFile
<1>2. OcrFails' <=> OcrFails
  BY <1>1 DEF OcrFails
<1>3. OcrNumbersPages' <=> OcrNumbersPages
  BY <1>1 DEF OcrNumbersPages
<1>4. NativeSet' = NativeSet
  BY Zenon DEF NativeSet
<1>5. Poor' <=> Poor
  BY <1>4 DEF Poor
<1>6. OcrReads' = OcrReads
  BY <1>2 DEF OcrReads
<1> QED BY <1>2, <1>3, <1>4, <1>5, <1>6 DEF OcrSet

\* The pages that a job goes on with: all that were read, unless the OCR confuses their
\* numbers, and an OCR of one that could be read natively only where that was poor.
OcrWherePoor(page) ==
    page.method \in Methods /\ (page.page \in NativeSet /\ page.method \in OcrMethods => isLowQualityPage(file.native[page.page]))
PagesRight(s) ==
    /\ \E S \in SUBSET Nat : /\ Reads(s, S) /\ NativeSet \subseteq S
                             /\ OcrNumbersPages => S = NativeSet \cup OcrSet
    /\ \A i \in DOMAIN s : OcrWherePoor(s[i])

\* The native pages where no OCR follows, or one that reads nothing.
LEMMA NativeRight ==
    ASSUME NEW s, NativeRead(s), OcrNumbersPages => OcrSet = {}
    PROVE  PagesRight(s)
<1>1. NativeSet \in SUBSET Nat
  <2>1. NativeSet \in SUBSET PdfPageNos
    BY DEF NativeSet, Readable
  <2> QED BY <2>1, PdfPagesFinite
<1>2. \A i \in DOMAIN s : s[i].method \in NativeMethods
  BY DEF NativeRead, Method
<1>3. \A i \in DOMAIN s : OcrWherePoor(s[i])
  BY <1>2 DEF OcrWherePoor, NativeMethods, OcrMethods, Methods
<1> QED BY <1>1, <1>3 DEF PagesRight, NativeRead

\* The merge of both.
LEMMA MergeRight ==
    ASSUME NEW a, NativeRead(a), NEW b, OcrRead(b), OcrSet = OcrReads
    PROVE  PagesRight(mergePDFPages(a, b))
<1>0. PICK B : B = PagesIn(b)
  OBVIOUS
<1>1. PagesIn(a) = NativeSet /\ PagesIn(b) = B /\ (OcrNumbersPages => B = OcrSet)
  BY <1>0, ReadsPages DEF NativeRead, OcrRead
<1>2. PICK S : S = NativeSet \cup B
  OBVIOUS
<1>3. S \in SUBSET Nat /\ IsFiniteSet(S)
  <2>1. NativeSet \in SUBSET PdfPageNos
    BY DEF NativeSet, Readable
  <2>2. NativeSet \in SUBSET Nat /\ IsFiniteSet(NativeSet)
    BY <2>1, PdfPagesFinite
  <2>3. B \in SUBSET Nat
    BY <1>0 DEF OcrRead, PagesIn
  <2>4. IsFiniteSet(B)
    BY <1>0, NumbersFinite DEF OcrRead
  <2>5. IsFiniteSet(NativeSet \cup B)
    BY <2>2, <2>4, FS_Union
  <2> QED BY <1>2, <2>2, <2>3, <2>5
<1>4. PICK q : q = Ascending(S)
  OBVIOUS
<1>5. PICK N \in Nat : q \in [1 .. N -> S]
  <2>1. S \in SUBSET Int
    BY <1>3
  <2> QED BY <1>3, <1>4, <2>1, NumbersListed DEF ListsInOrder
<1>6. ASSUME NEW p \in NativeSet
      PROVE  PageOf(a, p).page = p /\ PageOf(a, p).method \in NativeMethods /\ PageOf(a, p).quality = file.native[p]
  <2>1. PICK i \in DOMAIN a : PageOf(a, p) = a[i] /\ a[i].page = p
    BY <1>1, PageOfFacts, ReadsLength DEF NativeRead
  <2> QED BY <2>1 DEF NativeRead, Method
<1>7. ASSUME NEW p \in B PROVE PageOf(b, p).page = p /\ PageOf(b, p).method \in OcrMethods
  <2>1. PICK i \in DOMAIN b : PageOf(b, p) = b[i] /\ b[i].page = p
    BY <1>1, PageOfFacts DEF OcrRead
  <2> QED BY <2>1 DEF OcrRead
<1>8. ASSUME NEW x, NEW y PROVE Pick(x, y) = x \/ (Pick(x, y) = y /\ isLowQualityPage(x.quality))
  BY DEF Pick
<1>9. PICK s : s = mergePDFPages(a, b)
  OBVIOUS
<1>10. s = [i \in DOMAIN q |->
               CASE q[i] \notin B         -> PageOf(a, q[i])
                 [] q[i] \notin NativeSet -> PageOf(b, q[i])
                 [] OTHER                 -> Pick(PageOf(a, q[i]), PageOf(b, q[i]))]
  BY <1>1, <1>2, <1>4, <1>9 DEF mergePDFPages
<1>11. DOMAIN s = DOMAIN q /\ s = [i \in DOMAIN q |-> s[i]]
  BY <1>10
<1>12. ASSUME NEW i \in DOMAIN q PROVE s[i].page = q[i] /\ OcrWherePoor(s[i])
  <2>1. PICK p \in S : p = q[i]
    BY <1>5
  <2>2. s[i] = CASE p \notin B         -> PageOf(a, p)
                 [] p \notin NativeSet -> PageOf(b, p)
                 [] OTHER              -> Pick(PageOf(a, p), PageOf(b, p))
    BY <1>10, <2>1
  <2>3. CASE p \notin B
    <3>1. p \in NativeSet
      BY <1>2, <2>3
    <3>2. s[i] = PageOf(a, p)
      BY <2>2, <2>3, <3>1
    <3>3. PICK x : x = PageOf(a, p) /\ x.page = p /\ x.method \in NativeMethods
      BY <1>6, <3>1
    <3> QED BY <2>1, <3>2, <3>3 DEF OcrWherePoor, NativeMethods, OcrMethods, Methods
  <2>4. CASE p \in B /\ p \notin NativeSet
    <3>1. s[i] = PageOf(b, p)
      BY <2>2, <2>4
    <3>2. PICK x : x = PageOf(b, p) /\ x.page = p /\ x.method \in OcrMethods
      BY <1>7, <2>4
    <3> QED BY <2>1, <2>4, <3>1, <3>2 DEF OcrWherePoor, OcrMethods, Methods
  <2>5. CASE p \in B /\ p \in NativeSet
    <3>1. PICK x : x = PageOf(a, p) /\ x.page = p /\ x.method \in NativeMethods /\ x.quality = file.native[p]
      BY <1>6, <2>5
    <3>2. PICK y : y = PageOf(b, p) /\ y.page = p /\ y.method \in OcrMethods
      BY <1>7, <2>5
    <3>3. s[i] = Pick(x, y)
      BY <2>2, <2>5, <3>1, <3>2
    <3>4. s[i] = x \/ (s[i] = y /\ isLowQualityPage(x.quality))
      BY <1>8, <3>3
    <3> QED BY <2>1, <3>1, <3>2, <3>4 DEF OcrWherePoor, NativeMethods, OcrMethods, Methods
  <2> QED BY <2>3, <2>4, <2>5
<1>13. Reads(s, S)
  BY <1>3, <1>4, <1>11, <1>12, InOrderReads
<1>14. NativeSet \subseteq S /\ (OcrNumbersPages => S = NativeSet \cup OcrSet)
  BY <1>1, <1>2
<1> QED BY <1>3, <1>9, <1>11, <1>12, <1>13, <1>14 DEF PagesRight

\* What the files hold.
FileTypes ==
    /\ file.kind = "pdf" => file.tool \in {"pdftotext", "golib", "none"} /\ file.ocrTool \in {"service", "command", "none"}
    /\ file.ocrTool = "command" => file.ocrOutput \in OcrOutputs
    /\ file.kind = "text" => file.text \in Texts
    /\ file.kind = "epub" => \E n \in Nat : DOMAIN file.sections = 1 .. n
PagesHeld ==
    /\ at = "ocr" => file.kind = "pdf" /\ NativeRead(pages) /\ needsOCR(pages)
    /\ at = "blocks" => file.kind = "pdf" /\ PagesRight(pages)
    /\ file.kind = "pdf" /\ at \in {"cut", "done"} => PagesKept
ChunkingInv == FileTypes /\ PagesHeld /\ CutRight

\* The invariant holds of a file that nothing was read of, before parse begins.
LEMMA ChunkingInitially == ChunkingInit => ChunkingInv
<1> SUFFICES ASSUME ChunkingInit PROVE ChunkingInv
  OBVIOUS
<1>1. FileTypes
  <2>1. file \in PdfFiles \/ file \in EpubFiles \/ file \in TextFiles
    BY DEF ChunkingInit, Files
  <2>2. CASE file \in PdfFiles
    <3>1. /\ file.kind = "pdf"
          /\ file.tool \in {"pdftotext", "golib", "none"} /\ file.ocrTool \in {"service", "command", "none"}
          /\ file.ocrTool = "command" => file.ocrOutput \in OcrOutputs
      <4>1. CASE \E native \in NativeReadings : file = Pdf("pdftotext", native, FALSE, "none", <<>>, <<>>)
        <5>1. PICK native \in NativeReadings : file = Pdf("pdftotext", native, FALSE, "none", <<>>, <<>>)
          BY <4>1
        <5>2. file.kind = "pdf" /\ file.tool = "pdftotext" /\ file.ocrTool = "none"
          BY <5>1 DEF Pdf, NoFile
        <5> QED BY <5>2
      <4>2. CASE \E read \in NativeTools \X NativeReadings \X OcrTools \X OcrReadings :
                   file = Pdf(read[1], read[2], TRUE, read[3][1], read[3][2], read[4])
        <5>1. PICK read \in NativeTools \X NativeReadings \X OcrTools \X OcrReadings :
                file = Pdf(read[1], read[2], TRUE, read[3][1], read[3][2], read[4])
          BY <4>2
        <5>2. PICK tool \in NativeTools, ocr \in OcrTools : tool = read[1] /\ ocr = read[3]
          BY <5>1
        <5>3. ocr[1] \in {"service", "command", "none"} /\ (ocr[1] = "command" => ocr[2] \in OcrOutputs) /\ tool \in {"pdftotext", "golib", "none"}
          BY <5>2 DEF OcrTools, NativeTools
        <5>4. file.kind = "pdf" /\ file.tool = tool /\ file.ocrTool = ocr[1] /\ file.ocrOutput = ocr[2]
          BY <5>1, <5>2 DEF Pdf, NoFile
        <5> QED BY <5>3, <5>4
      <4> QED BY <2>2, <4>1, <4>2 DEF PdfFiles
    <3> QED BY <3>1 DEF FileTypes
  <2>3. CASE file \in EpubFiles
    <3>1. PICK s \in UNION {[1 .. n -> {"error", "other", "blank", "text"}] : n \in 0 .. MaxSections} :
            file = [NoFile EXCEPT !.kind = "epub", !.sections = s]
      BY <2>3 DEF EpubFiles
    <3>2. file.kind = "epub" /\ file.sections = s /\ file.ocrTool = "none"
      BY <3>1 DEF NoFile
    <3>3. PICK n \in 0 .. MaxSections : s \in [1 .. n -> {"error", "other", "blank", "text"}]
      OBVIOUS
    <3>4. n \in Nat /\ DOMAIN s = 1 .. n
      BY <3>3
    <3> QED BY <3>2, <3>4 DEF FileTypes
  <2>4. CASE file \in TextFiles
    <3>1. file.kind = "text" /\ file.text \in TheTexts /\ file.ocrTool = "none"
      BY <2>4 DEF TextFiles, NoFile
    <3> QED BY <3>1 DEF FileTypes, Texts
  <2> QED BY <2>1, <2>2, <2>3, <2>4
<1>2. PagesHeld
  BY DEF ChunkingInit, PagesHeld
<1>3. CutRight
  <2>1. textBlocks \in Seq(BlockRecords)
    BY EmptySeq DEF ChunkingInit
  <2> QED BY <2>1 DEF ChunkingInit, CutRight
<1> QED BY <1>1, <1>2, <1>3 DEF ChunkingInv

\* A page's text is one.
LEMMA PageTextIs == PageText \in Readables /\ \A text \in Texts : HasText(text) => text \in Readables
BY ChunkingAssumption DEF Texts, Readables, Lines

\* The job goes on without a block yet.
LEMMA NoBlockYet ==
    ASSUME CutRight, at \in {"parse", "ocr"}, Unread, at' \in {"ocr", "blocks", "failed"}
    PROVE  CutRight'
BY DEF CutRight, Unread

\* parsePDF hands native pages to the OCR where one is needed, or goes on with them.
LEMMA ParseStep == ChunkingInv /\ parsePDF => ChunkingInv'
<1> SUFFICES ASSUME ChunkingInv, parsePDF PROVE ChunkingInv'
  OBVIOUS
<1>1. file.kind = "pdf" /\ at = "parse" /\ Unread /\ file' = file /\ pages' = parsePDFNativePages
  BY DEF parsePDF, Unread
<1>2. NativeRead(pages')
  BY <1>1, NativeFacts DEF ChunkingInv, FileTypes
<1>3. needsOCR(pages') <=> file.ocrEnabled /\ Poor
  BY <1>2, NeedsFacts
<1>4. /\ at' \in {"ocr", "blocks", "failed"}
      /\ at' = "ocr" => needsOCR(pages')
      /\ at' = "blocks" => ~ needsOCR(pages')
  <2>1. at' = CASE needsOCR(pages')                   -> "ocr"
                [] pages' = <<>> /\ ~ file.ocrEnabled -> "failed"
                [] OTHER                              -> "blocks"
    BY DEF parsePDF
  <2>2. PICK o \in BOOLEAN, e \in BOOLEAN : (o <=> needsOCR(pages')) /\ (e <=> pages' = <<>> /\ ~ file.ocrEnabled)
    BY Zenon
  <2>3. ~ (o /\ e)
    BY <1>3, <2>2
  <2>4. at' = CASE o -> "ocr" [] e -> "failed" [] OTHER -> "blocks"
    BY <2>1, <2>2
  <2> QED BY <2>2, <2>3, <2>4
<1>5. CutRight'
  BY <1>1, <1>4, NoBlockYet DEF ChunkingInv
<1>6. FileTypes'
  BY <1>1 DEF ChunkingInv, FileTypes
<1>7. at' = "blocks" => PagesRight(pages')
  <2> SUFFICES ASSUME at' = "blocks" PROVE PagesRight(pages')
    OBVIOUS
  <2>1. OcrSet = {}
    BY <1>3, <1>4 DEF OcrSet
  <2> QED BY <1>2, <2>1, NativeRight
<1>8. PagesHeld'
  <2>1. at' = "ocr" => NativeRead(pages)' /\ needsOCR(pages)'
    BY <1>1, <1>2, <1>4 DEF NativeRead, NativeSet, needsOCR
  <2>2. at' = "blocks" => PagesRight(pages)'
    BY <1>1, <1>7, SameFile DEF PagesRight, OcrWherePoor
  <2> QED BY <1>1, <1>4, <2>1, <2>2 DEF PagesHeld
<1> QED BY <1>5, <1>6, <1>8 DEF ChunkingInv

\* The OCR's pages are merged where it read any, and stand alone where nothing else was read.
LEMMA OcrStep == ChunkingInv /\ ReadByOCR => ChunkingInv'
<1> SUFFICES ASSUME ChunkingInv, ReadByOCR PROVE ChunkingInv'
  OBVIOUS
<1>1. at = "ocr" /\ Unread /\ file' = file
  BY DEF ReadByOCR, Unread
<1>2. file.kind = "pdf" /\ NativeRead(pages) /\ needsOCR(pages) /\ file.ocrTool \in {"service", "command", "none"}
  BY <1>1 DEF ChunkingInv, PagesHeld, FileTypes
<1>3. file.ocrEnabled /\ Poor
  BY <1>2, NeedsFacts
<1>4. PICK ocr : ocr = CASE file.ocrTool = "service" -> parsePDFWithOCRService
                         [] file.ocrTool = "command" -> parsePDFWithPaddleOCR
                         [] OTHER                    -> <<>>
  OBVIOUS
<1>5. /\ pages' = IF ocr = <<>> THEN pages ELSE mergePDFPages(pages, ocr)
      /\ at' = IF pages' = <<>> THEN "failed" ELSE "blocks"
  BY <1>4 DEF ReadByOCR
<1>6. PagesRight(pages')
  <2>1. CASE file.ocrTool = "none"
    <3>1. ocr = <<>>
      BY <1>4, <2>1
    <3>2. OcrSet = {}
      BY <2>1 DEF OcrSet
    <3> QED BY <1>2, <1>5, <3>1, <3>2, NativeRight
  <2>2. CASE file.ocrTool # "none"
    <3>1. OcrRead(ocr)
      <4>1. file.ocrTool = "command" => file.ocrOutput \in OcrOutputs
        BY DEF ChunkingInv, FileTypes
      <4> QED BY <1>2, <1>4, <2>2, <4>1, ServiceFacts, CommandFacts
    <3>2. OcrSet = OcrReads
      BY <1>3, <2>2 DEF OcrSet
    <3>3. CASE ocr = <<>>
      <4>1. OcrNumbersPages => OcrSet = {}
        BY <3>1, <3>2, <3>3 DEF OcrRead, PagesIn
      <4> QED BY <1>2, <1>5, <3>3, <4>1, NativeRight
    <3>4. CASE ocr # <<>>
      BY <1>2, <1>5, <3>1, <3>2, <3>4, MergeRight
    <3> QED BY <3>3, <3>4
  <2> QED BY <2>1, <2>2
<1>7. at' \in {"blocks", "failed"}
  BY <1>5
<1>8. CutRight'
  BY <1>1, <1>7, NoBlockYet DEF ChunkingInv
<1>9. FileTypes'
  BY <1>1 DEF ChunkingInv, FileTypes
<1>10. PagesHeld'
  <2>1. PagesRight(pages)'
    BY <1>1, <1>6, SameFile DEF PagesRight, OcrWherePoor
  <2> QED BY <1>1, <1>2, <1>7, <2>1 DEF PagesHeld
<1> QED BY <1>8, <1>9, <1>10 DEF ChunkingInv

\* buildPDFChunks: a block for each page that was read.
LEMMA BlocksStep == ChunkingInv /\ buildPDFChunks => ChunkingInv'
<1> SUFFICES ASSUME ChunkingInv, buildPDFChunks PROVE ChunkingInv'
  OBVIOUS
<1>1. PICK blocks : /\ blocks = [i \in DOMAIN pages |-> TextBlock(pages[i].page, pages[i].method, PageText)]
                    /\ StartBlocks(blocks) /\ at = "blocks"
  BY DEF buildPDFChunks
<1>2. file.kind = "pdf" /\ PagesRight(pages) /\ CutRight /\ FileTypes
  BY <1>1 DEF ChunkingInv, PagesHeld
<1>3. file' = file /\ textBlocks' = blocks /\ at' \in {"cut", "failed"}
  BY <1>1 DEF StartBlocks
<1>4. PICK S \in SUBSET Nat : /\ Reads(pages, S) /\ NativeSet \subseteq S
                              /\ OcrNumbersPages => S = NativeSet \cup OcrSet
  BY <1>2 DEF PagesRight
<1>5. PICK n \in Nat :
        /\ pages = [i \in 1 .. n |-> pages[i]]
        /\ \A i \in 1 .. n : pages[i].page \in S
        /\ \A p \in S : \E i \in 1 .. n : pages[i].page = p
        /\ \A i, j \in 1 .. n : i < j => pages[i].page < pages[j].page
  <2>1. Reads(pages, S)
    BY <1>4
  <2> QED BY ONLY <2>1 DEF Reads
<1>6. DOMAIN pages = 1 .. n
  BY <1>5
<1>7. DOMAIN blocks = 1 .. n
  BY <1>1, <1>6
<1>8. ASSUME NEW i \in 1 .. n
      PROVE  blocks[i] \in BlockRecords /\ blocks[i].no = pages[i].page /\ blocks[i].method = pages[i].method
  <2>1. blocks[i] = [no |-> pages[i].page, method |-> pages[i].method, text |-> PageText]
    BY <1>1, <1>6 DEF TextBlock
  <2>2. pages[i].page \in Nat
    BY <1>4, <1>5
  <2>3. pages[i].method \in Methods
    BY <1>2, <1>6 DEF PagesRight, OcrWherePoor
  <2> QED BY <2>1, <2>2, <2>3, PageTextIs DEF BlockRecords
<1>9. blocks \in Seq(BlockRecords)
  <2>1. blocks \in [1 .. n -> BlockRecords]
    BY <1>1, <1>6, <1>7, <1>8
  <2> QED BY <2>1
<1>10. CutRight'
  BY <1>1, <1>2, <1>9, StartStep
<1>11. PagesKept'
  <2>1. {blocks[i].no : i \in DOMAIN blocks} = S
    BY <1>5, <1>7, <1>8
  <2>2. \A i, j \in DOMAIN blocks : i < j => blocks[i].no < blocks[j].no
    BY <1>5, <1>7, <1>8
  <2>3. ASSUME NEW i \in DOMAIN blocks, blocks[i].no \in NativeSet, blocks[i].method \in OcrMethods
        PROVE  isLowQualityPage(file.native[blocks[i].no])
    <3>1. OcrWherePoor(pages[i])
      BY <1>2, <1>6, <1>7 DEF PagesRight
    <3> QED BY <1>7, <1>8, <2>3, <3>1 DEF OcrWherePoor
  <2>4. {textBlocks[i].no : i \in DOMAIN textBlocks}' = S
    BY <1>3, <2>1
  <2>5. \A i, j \in DOMAIN textBlocks' : i < j => textBlocks'[i].no < textBlocks'[j].no
    BY <1>3, <2>2
  <2>6. \A i \in DOMAIN textBlocks' : textBlocks'[i].no \in NativeSet /\ textBlocks'[i].method \in OcrMethods
                                      => isLowQualityPage(file.native[textBlocks'[i].no])
    BY <1>3, <2>3
  <2>7. OcrSet = IF file.ocrEnabled /\ file.ocrTool # "none" /\ Poor /\ ~ OcrFails THEN Readable(file.ocr) ELSE {}
    BY DEF OcrSet, OcrReads
  <2>8. (OcrNumbersPages' <=> OcrNumbersPages) /\ (OcrFails' <=> OcrFails)
    BY <1>3, SameFile
  <2>9. NativeSet \subseteq S /\ (OcrNumbersPages => S = NativeSet \cup OcrSet)
    BY <1>4
  <2> QED BY ONLY <1>3, <2>4, <2>5, <2>6, <2>7, <2>8, <2>9 DEF PagesKept, NativeSet, Poor, OcrMethods
<1>12. PagesHeld' /\ FileTypes'
  BY <1>2, <1>3, <1>11 DEF PagesHeld, FileTypes
<1> QED BY <1>10, <1>12 DEF ChunkingInv

\* parseEPUB: a block for each section with a text.
LEMMA EpubStep == ChunkingInv /\ parseEPUB => ChunkingInv'
<1> SUFFICES ASSUME ChunkingInv, parseEPUB PROVE ChunkingInv'
  OBVIOUS
<1>1. PICK html, blocks :
        /\ html = Ascending({i \in DOMAIN file.sections : file.sections[i] = "text"})
        /\ blocks = IF \E i \in DOMAIN file.sections : file.sections[i] = "error" THEN <<>>
                    ELSE [i \in DOMAIN html |-> TextBlock(html[i], "parser", PageText)]
        /\ StartBlocks(blocks) /\ at = "parse" /\ file.kind = "epub"
  BY DEF parseEPUB
<1>2. CutRight /\ FileTypes
  BY DEF ChunkingInv
<1>3. file' = file /\ at' \in {"cut", "failed"}
  BY <1>1 DEF StartBlocks
<1>4. PICK S : S = {i \in DOMAIN file.sections : file.sections[i] = "text"}
  OBVIOUS
<1>5. PICK n \in Nat : DOMAIN file.sections = 1 .. n
  BY <1>1, <1>2 DEF FileTypes
<1>6. PICK N \in Nat : html \in [1 .. N -> S]
  <2>1. S \in SUBSET (1 .. n)
    BY <1>4, <1>5
  <2>2. IsFiniteSet(1 .. n)
    BY FS_Interval
  <2>3. IsFiniteSet(S)
    BY <2>1, <2>2, FS_Subset
  <2>4. S \in SUBSET Int
    BY <2>1
  <2> QED BY <1>1, <1>4, <2>3, <2>4, NumbersListed DEF ListsInOrder
<1>7. blocks \in Seq(BlockRecords)
  <2>1. CASE blocks = <<>>
    BY <2>1, EmptySeq
  <2>2. CASE blocks # <<>>
    <3>1. blocks = [i \in 1 .. N |-> [no |-> html[i], method |-> "parser", text |-> PageText]]
      BY <1>1, <1>6, <2>2 DEF TextBlock
    <3>2. \A i \in 1 .. N : html[i] \in Nat
      BY <1>4, <1>5, <1>6
    <3>3. \A i \in 1 .. N : blocks[i] \in BlockRecords
      BY <3>1, <3>2, PageTextIs DEF BlockRecords, Methods
    <3>4. blocks \in [1 .. N -> BlockRecords]
      BY <3>1, <3>3
    <3> QED BY <3>4
  <2> QED BY <2>1, <2>2
<1>8. CutRight'
  BY <1>1, <1>2, <1>7, StartStep
<1>9. PagesHeld' /\ FileTypes'
  BY <1>1, <1>2, <1>3 DEF PagesHeld, FileTypes
<1> QED BY <1>8, <1>9 DEF ChunkingInv

\* parseText: a text file with a text is one block.
LEMMA TextStep == ChunkingInv /\ parseText => ChunkingInv'
<1> SUFFICES ASSUME ChunkingInv, parseText PROVE ChunkingInv'
  OBVIOUS
<1>1. PICK blocks :
        /\ blocks = IF HasText(file.text) THEN <<TextBlock(1, "parser", file.text)>> ELSE <<>>
        /\ StartBlocks(blocks) /\ at = "parse" /\ file.kind = "text"
  BY DEF parseText
<1>2. CutRight /\ FileTypes
  BY DEF ChunkingInv
<1>3. file' = file /\ at' \in {"cut", "failed"}
  BY <1>1 DEF StartBlocks
<1>4. blocks \in Seq(BlockRecords)
  <2>1. CASE ~ HasText(file.text)
    <3>1. blocks = <<>>
      BY <1>1, <2>1
    <3> QED BY <3>1, EmptySeq
  <2>2. CASE HasText(file.text)
    <3>1. file.text \in Readables
      BY <1>1, <1>2, <2>2, PageTextIs DEF FileTypes
    <3>2. PICK x : x = TextBlock(1, "parser", file.text)
      OBVIOUS
    <3>3. x \in BlockRecords
      BY <3>1, <3>2 DEF TextBlock, BlockRecords, Methods
    <3>4. blocks = <<x>>
      BY <1>1, <2>2, <3>2
    <3> QED BY <3>3, <3>4
  <2> QED BY <2>1, <2>2
<1>5. CutRight'
  BY <1>1, <1>2, <1>4, StartStep
<1>6. PagesHeld' /\ FileTypes'
  BY <1>1, <1>2, <1>3 DEF PagesHeld, FileTypes
<1> QED BY <1>5, <1>6 DEF ChunkingInv

\* Cutting leaves the pages as they are.
LEMMA PagesStay ==
    ASSUME FileTypes, PagesHeld, UNCHANGED <<file, pages, textBlocks>>, at = "cut", at' \in {"cut", "failed", "done"}
    PROVE  PagesHeld' /\ FileTypes'
<1>1. FileTypes'
  BY DEF FileTypes
<1>2. file.kind = "pdf" => PagesKept'
  BY SameFile DEF PagesHeld, PagesKept
<1> QED BY <1>1, <1>2 DEF PagesHeld

\* Every step of a job keeps the invariant.
LEMMA ChunkingStep == ChunkingInv /\ [ChunkingNext]_chunkingVars => ChunkingInv'
<1> SUFFICES ASSUME ChunkingInv, [ChunkingNext]_chunkingVars PROVE ChunkingInv'
  OBVIOUS
<1>1. ASSUME TakeUnit PROVE ChunkingInv'
  <2>1. UNCHANGED <<file, pages, textBlocks>> /\ at = "cut" /\ at' = "cut"
    BY <1>1 DEF TakeUnit
  <2>2. PagesHeld' /\ FileTypes'
    BY <2>1, PagesStay DEF ChunkingInv
  <2> QED BY <1>1, <2>2, TakeStep DEF ChunkingInv
<1>2. ASSUME EndTier PROVE ChunkingInv'
  <2>1. UNCHANGED <<file, pages, textBlocks>> /\ at = "cut" /\ at' \in {"cut", "failed", "done"}
    BY <1>2 DEF EndTier
  <2>2. PagesHeld' /\ FileTypes'
    BY <2>1, PagesStay DEF ChunkingInv
  <2> QED BY <1>2, <2>2, EndStep DEF ChunkingInv
<1>3. ASSUME UNCHANGED chunkingVars PROVE ChunkingInv'
  <2>1. UNCHANGED <<file, at, pages, textBlocks, block, tier, pending, filling, cut>>
    BY <1>3 DEF chunkingVars
  <2>2. FileTypes'
    BY <2>1 DEF ChunkingInv, FileTypes
  <2>3. PagesHeld'
    BY <2>1, SameFile DEF ChunkingInv, PagesHeld, PagesKept, PagesRight, OcrWherePoor, NativeRead, needsOCR
  <2>4. CutRight'
    BY <2>1 DEF ChunkingInv, CutRight, ChunksInOrder, EarlierDone, Earlier, TierGoesOn, UnitsIn
  <2> QED BY <2>2, <2>3, <2>4 DEF ChunkingInv
<1> QED BY <1>1, <1>2, <1>3, ParseStep, OcrStep, BlocksStep, EpubStep, TextStep DEF ChunkingNext

\* When a job is done, nothing that was read is lost and nothing is out of order, for any
\* file, tools and sizes: every page that a tool read is one block, in order, unless it is
\* an OCR that gives pages the number of others, and the OCR stands only for a poor one
\* (mergePDFPages); the units hold what the lines hold
\* (buildSentenceUnits); and the chunks of a block in a tier are runs of its units from the
\* first to the last that overlap no more than they need to and fit their size
\* (chunkTextByTokens), with their places and counts (buildRetrievalChunks).
THEOREM TextKeptCorrect == ChunkingSpec => []TextKept
<1>1. ChunkingInv => TextKept
  <2> SUFFICES ASSUME ChunkingInv, at = "done" PROVE TextKept
    BY DEF TextKept
  <2>1. file.kind = "pdf" => PagesKept
    BY DEF ChunkingInv, PagesHeld
  <2>2. /\ textBlocks \in Seq(BlockRecords) /\ cut \in Seq(CutChunks)
        /\ \A i \in DOMAIN cut : cut[i].index = i - 1 /\ cut[i].count = Len(cut)
        /\ \A b \in DOMAIN textBlocks, t \in 1 .. 2 : DoneTier(cut, UnitsIn(b, t), b, t)
    BY DEF ChunkingInv, CutRight
  <2>3. ASSUME NEW b \in DOMAIN textBlocks, NEW t \in 1 .. 2
        PROVE  TierKept(b, t) /\ UnitsKept(b, t)
    <3>1. Numbered(UnitsIn(b, t)) /\ UnitsKept(b, t)
      BY <2>2, UnitsNumbered
    <3>2. DoneTier(cut, UnitsIn(b, t), b, t)
      BY <2>2
    <3> QED BY <2>2, <3>1, <3>2, DoneIsKept DEF UnitsIn
  <2> QED BY <2>1, <2>2, <2>3 DEF TextKept
<1> QED BY ChunkingInitially, ChunkingStep, <1>1, PTL DEF ChunkingSpec
=============================================================================
