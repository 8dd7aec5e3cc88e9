----------------------------- MODULE Retrieval ------------------------------
(***************************************************************************)
(* Finding evidence for a question: every query of a question is run       *)
(* against the vectors and the terms of a book, the hits of both are fused *)
(* by their ranks, loaded from the database, ranked again and packed.      *)
(*                                                                         *)
(* A chunk is a part of a block of the book, a page or a section; the      *)
(* pipeline keeps one hit of a block, the best.  The vectors hold the      *)
(* semantic chunks and the terms the lexical ones.                         *)
(***************************************************************************)
EXTENDS Orders

CONSTANTS
    DenseChunks,     \* the chunks with vectors: numbers, in the order of their ids
    LexicalChunks,   \* the chunks with terms: numbers, in the order of their ids
    BlockOf,         \* chunk_family: the block of each chunk
    TextOf,          \* content_sha256: the text of each chunk
    LengthOf,        \* the length of each chunk
    MaxQueries,      \* bound: queries of a question
    RecallTopK,      \* denseTopK, lexicalTopK: hits of one search
    FusionTopK,      \* hits kept by the fusion
    RerankTopN,      \* hits kept by the reranker
    EvidenceTopK,    \* topK: hits of the result
    ContextBudget,   \* length of the result
    DenseWeight, LexicalWeight,
    ScoreScale       \* what makes the scores of all ranks whole numbers

IndexedChunks == DenseChunks \cup LexicalChunks
Blocks == {BlockOf[c] : c \in IndexedChunks}

ASSUME RetrievalAssumption ==
    /\ IndexedChunks \subseteq Nat \ {0} /\ IsFiniteSet(IndexedChunks) /\ DenseChunks \cap LexicalChunks = {}
    /\ \A c \in IndexedChunks : LengthOf[c] \in Nat
    /\ {MaxQueries, RecallTopK, FusionTopK, RerankTopN, EvidenceTopK} \subseteq Nat \ {0}
    /\ ContextBudget \in Nat /\ DenseWeight \in Int /\ LexicalWeight \in Int
    /\ ScoreScale \in Nat \ {0} /\ \A r \in 1 .. RecallTopK : ScoreScale % (60 + r) = 0

Modes == {"hybrid_best", "hybrid_no_rerank", "dense_only", "lexical_only"}

VARIABLES
    mode,            \* retrievalMode
    stage,           \* where the pipeline is
    queries,         \* queries run
    denseHits, lexicalHits,  \* the best hit of each block
    ranked,          \* the hits in order, from the fusion on
    loaded,          \* the chunks found in the database
    rank             \* history: the best rank of each block, by the search

retrievalVars == <<mode, stage, queries, denseHits, lexicalHits, ranked, loaded, rank>>

NoHit == [chunk |-> 0, score |-> 0]
NoRank == RecallTopK + 1
Found(hits) == {b \in Blocks : hits[b] # NoHit}

RetrievalTypeOK ==
    /\ mode \in Modes /\ stage \in {"search", "load", "rerank", "pack", "done"}
    /\ queries \in 0 .. MaxQueries
    /\ \A b \in Blocks : /\ denseHits[b].chunk \in DenseChunks \cup {0}
                         /\ lexicalHits[b].chunk \in LexicalChunks \cup {0}
    /\ loaded \subseteq IndexedChunks
    /\ rank \in [{"dense", "lexical"} -> [Blocks -> 1 .. NoRank]]

-----------------------------------------------------------------------------
(* Searching and fusing *)

\* normalizedFusionWeights, up to a factor that both have.
Weights ==
    IF DenseWeight <= 0 /\ LexicalWeight <= 0 THEN [dense |-> 1, lexical |-> 1]
    ELSE [dense   |-> IF DenseWeight < 0 THEN 0 ELSE DenseWeight,
          lexical |-> IF LexicalWeight < 0 THEN 0 ELSE LexicalWeight]

\* 1 / (61 + rank), ranks from 0, on the scale of whole numbers.
reciprocalRank(r) == ScoreScale \div (60 + r)

\* What a search can return: distinct chunks, the best first; or nothing when it fails.
Answers(chunks) ==
    UNION {{s \in [1 .. n -> chunks] : IsInjective(s)} : n \in 0 .. RecallTopK}

DenseAnswers == IF mode = "lexical_only" THEN {<<>>} ELSE Answers(DenseChunks)
LexicalAnswers == IF mode = "dense_only" THEN {<<>>} ELSE Answers(LexicalChunks)

\* The hit of a list for a block: its first, as the scores fall.
Ranks(list, b) == {r \in DOMAIN list : BlockOf[list[r]] = b}
FirstRank(list, b) == CHOOSE r \in Ranks(list, b) : \A s \in Ranks(list, b) : r <= s
HitFor(list, b, weight) ==
    IF Ranks(list, b) = {} THEN NoHit
    ELSE LET r == FirstRank(list, b) IN [chunk |-> list[r], score |-> reciprocalRank(r) * weight]

\* As it would be if the hit of the last query were kept.
LastHit(old, new) == IF new # NoHit THEN new ELSE old

\* A hit gives way to one with a higher score.
mergeStageHit(old, new) ==
    IF old = NoHit \/ (new # NoHit /\ new.score > old.score) THEN new ELSE old

accumulateStageHits(target, list, weight) ==
    [b \in Blocks |-> mergeStageHit(target[b], HitFor(list, b, weight))]

BestRanks(old, list) ==
    [b \in Blocks |-> IF Ranks(list, b) # {} /\ FirstRank(list, b) < old[b] THEN FirstRank(list, b) ELSE old[b]]

\* One query: both searches, unless the mode leaves one out.
SearchQuery ==
    \E dense \in DenseAnswers, lexical \in LexicalAnswers :
        /\ stage = "search" /\ queries < MaxQueries
        /\ queries' = queries + 1
        /\ denseHits' = accumulateStageHits(denseHits, dense, Weights.dense)
        /\ lexicalHits' = accumulateStageHits(lexicalHits, lexical, Weights.lexical)
        /\ rank' = [dense |-> BestRanks(rank["dense"], dense), lexical |-> BestRanks(rank["lexical"], lexical)]
        /\ UNCHANGED <<mode, stage, ranked, loaded>>

\* The hit of a block in both: the chunk of the vectors, the sum of the scores.
Fused(b) ==
    CASE denseHits[b] = NoHit   -> lexicalHits[b]
      [] lexicalHits[b] = NoHit -> denseHits[b]
      [] OTHER -> [denseHits[b] EXCEPT !.score = @ + lexicalHits[b].score]

Before(g, h) == IF g.score = h.score THEN g.chunk < h.chunk ELSE g.score > h.score
Ranked(hits) == InOrder(hits, Before)
orderedStageHits(hits, topK) == Leading(Ranked(hits), topK)
HitsOf(hits) == {hits[b] : b \in Found(hits)}

fuseStageHits ==
    orderedStageHits({Fused(b) : b \in Found(denseHits) \cup Found(lexicalHits)}, FusionTopK)

\* After the last query: nothing was found, or the hits of the mode are put in order.
Fuse ==
    /\ stage = "search" /\ queries > 0
    /\ ranked' = CASE mode = "dense_only"   -> orderedStageHits(HitsOf(denseHits), RecallTopK)
                   [] mode = "lexical_only" -> orderedStageHits(HitsOf(lexicalHits), RecallTopK)
                   [] OTHER                 -> fuseStageHits
    /\ stage' = IF ranked' = <<>> THEN "done" ELSE "load"
    /\ UNCHANGED <<mode, queries, denseHits, lexicalHits, loaded, rank>>

-----------------------------------------------------------------------------
(* Loading, ranking again and packing *)

ChunksOf(s) == {s[i].chunk : i \in DOMAIN s}
TotalLength(s) == SumOf([i \in DOMAIN s |-> LengthOf[s[i].chunk]])

\* Any of the chunks may be gone, replaced since they were indexed; all of them count as
\* gone when the database does not answer.
hydrateStageHits ==
    /\ stage = "load"
    /\ loaded' \in SUBSET ChunksOf(ranked)
    /\ stage' = IF mode = "hybrid_best" THEN "rerank" ELSE "pack"
    /\ UNCHANGED <<mode, queries, denseHits, lexicalHits, ranked, rank>>

\* ServiceReranker: any order of the hits with a text, each once.
ServiceOrders ==
    LET texts == {i \in DOMAIN ranked : ranked[i].chunk \in loaded}
        most  == IF Cardinality(texts) < RerankTopN THEN Cardinality(texts) ELSE RerankTopN
    IN  UNION {{s \in [1 .. n -> texts] : IsInjective(s)} : n \in 1 .. most}

\* FallbackReranker, when the service fails or returns nothing: all hits, in an order
\* that depends on the words they share with the question.
FallbackOrders ==
    {Leading(s, RerankTopN) : s \in {t \in [DOMAIN ranked -> DOMAIN ranked] : IsInjective(t)}}

Rerank ==
    /\ stage = "rerank"
    /\ \E order \in ServiceOrders \cup FallbackOrders :
        ranked' = [i \in DOMAIN order |-> ranked[order[i]]]
    /\ stage' = "pack"
    /\ UNCHANGED <<mode, queries, denseHits, lexicalHits, loaded, rank>>

\* A hit is packed when it has a text, one that is new, and fits; the first always fits.
Fits(out, hit) ==
    /\ hit.chunk \in loaded
    /\ TextOf[hit.chunk] \notin {TextOf[c] : c \in ChunksOf(out)}
    /\ out # <<>> => TotalLength(out) + LengthOf[hit.chunk] <= ContextBudget
    /\ Len(out) < EvidenceTopK

Packed(hits) == FoldLeft(LAMBDA out, hit : IF Fits(out, hit) THEN Append(out, hit) ELSE out, <<>>, hits)

packStageHits ==
    /\ stage = "pack"
    /\ ranked' = Packed(ranked)
    /\ stage' = "done"
    /\ UNCHANGED <<mode, queries, denseHits, lexicalHits, loaded, rank>>

-----------------------------------------------------------------------------
RetrievalInit ==
    /\ mode \in Modes
    /\ stage = "search" /\ queries = 0
    /\ denseHits = [b \in Blocks |-> NoHit] /\ lexicalHits = [b \in Blocks |-> NoHit]
    /\ ranked = <<>> /\ loaded = {}
    /\ rank = [s \in {"dense", "lexical"} |-> [b \in Blocks |-> NoRank]]

RetrievalNext == SearchQuery \/ Fuse \/ hydrateStageHits \/ Rerank \/ packStageHits

RetrievalSpec == RetrievalInit /\ [][RetrievalNext]_retrievalVars

-----------------------------------------------------------------------------
(* What the pipeline promises *)

BlockAt(i) == BlockOf[ranked[i].chunk]

\* A block that ranks at least as well as another in every search, and better in one.
Outranks(b, d) ==
    /\ rank["dense"][b] <= rank["dense"][d] /\ rank["lexical"][b] <= rank["lexical"][d]
    /\ \/ Weights.dense > 0 /\ rank["dense"][b] < rank["dense"][d]
       \/ Weights.lexical > 0 /\ rank["lexical"][b] < rank["lexical"][d]

\* The fusion puts no block before one that outranks it, and keeps none where it leaves
\* out one that does, whatever the order of the queries (pipeline.go fuseStageHits).
RanksRespected ==
    stage = "load" =>
        \A i \in DOMAIN ranked, b \in Blocks :
            Outranks(b, BlockAt(i)) => \E j \in 1 .. i - 1 : BlockAt(j) = b

\* The result names a block and a text once, holds only chunks the database still has, is
\* no longer than the context, and is empty only when a chunk that was found is gone.
PackedOnce ==
    stage = "done" /\ Found(denseHits) \cup Found(lexicalHits) # {} =>
        /\ \A i, j \in DOMAIN ranked :
            BlockAt(i) = BlockAt(j) \/ TextOf[ranked[i].chunk] = TextOf[ranked[j].chunk] => i = j
        /\ ChunksOf(ranked) \subseteq loaded
        /\ TotalLength(ranked) <= ContextBudget \/ Len(ranked) = 1
        /\ ranked = <<>> => \E b \in Blocks : Fused(b) # NoHit /\ Fused(b).chunk \notin loaded

\* The evidence is the best there is, and none of it counts twice.
BestEvidence == RanksRespected /\ PackedOnce
=============================================================================
