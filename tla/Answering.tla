----------------------------- MODULE Answering ------------------------------
(***************************************************************************)
(* Answering the questions of a conversation from a book: a question is    *)
(* routed and planned by its words and the answers before it, evidence is  *)
(* retrieved and selected, the model is asked, and its answer is kept only *)
(* if it holds to the evidence.  Meanwhile the book may be processed       *)
(* again, which gives all of its chunks new ids.                           *)
(*                                                                         *)
(* A question is the words that the code looks for, in order, and its      *)
(* length.  One word stands for all that are in the same lists of the      *)
(* code; its gloss is given where the list is.  A chunk is a generation of *)
(* the book, a block and a part of the block.  What retrieval returns is   *)
(* what module Retrieval shows: loaded chunks of different blocks.         *)
(***************************************************************************)
EXTENDS Orders, FiniteSetsExt

CONSTANTS
    Questions,       \* the questions asked, and what a model may rewrite one to
    BookParts,       \* the chunks of one generation: pairs of a block and a part
    MinEvidence,     \* minEvidenceCount
    SelectTopK,      \* topK
    HistoryLimit,    \* exchanges of the conversation that are read
    MaxFacts,        \* bound: facts of the book that a question asks for
    MaxTurns,        \* bound: answers
    MaxGenerations   \* bound: generations of the book

ASSUME AnsweringAssumption ==
    /\ {MinEvidence, SelectTopK, MaxTurns, MaxGenerations} \subseteq Nat \ {0}
    /\ {HistoryLimit, MaxFacts} \subseteq Nat /\ 2 <= SelectTopK /\ MinEvidence <= SelectTopK
    /\ IsFiniteSet(BookParts)
    /\ \A q \in Questions : q.words # <<>> /\ q.runes \in Nat
    /\ \A p \in BookParts : p[1] \in Nat \ {0} /\ p[2] \in Nat

VARIABLES
    abstainEnabled,  \* the service's configuration
    hasSummary,      \* whether the book has a summary
    generation,      \* of the chunks in the database
    indexed,         \* of the chunks in the indexes
    answers,         \* the assistant's messages of the conversation
    turn             \* the question being answered

answeringVars == <<abstainEnabled, hasSummary, generation, indexed, answers, turn>>

Chunk(g, p) == <<g, p[1], p[2]>>
ChunksIn(g) == {Chunk(g, p) : p \in BookParts}
BlockNumbers == {p[1] : p \in BookParts}
Profile == <<0, 0, 0>>    \* the hit made of the book's summary, no chunk of the database
NoPlan == [route |-> "none", type |-> "none", need |-> 0, reuse |-> <<>>, fact |-> FALSE]
NoTurn == [pc |-> "idle", plan |-> NoPlan, stream |-> FALSE, hits |-> <<>>, live |-> {}]

-----------------------------------------------------------------------------
(* Routing *)

Words(q) == {q.words[i] : i \in DOMAIN q.words}
Has(q, list) == Words(q) \cap list # {}

RealtimeTerms == {"weather", "beijingWeather"}
TimeTerms == {"today"}
DocTokens == {"inTheBook", "thisBookIs"}
RefTokens == {"justSaid"}
FollowUpPrefixes == {"goOn", "summarize"}
FollowUps == {"goOn", "whatDoesThisMean"}
OverviewQuestions == {"whatIsThis", "thisBookIs"}
OverviewPatterns == {"whatIsThis", "whatDoesThisMean", "thisFile"}

\* Every saved answer has a text, so the history has a reply when it has an exchange.
Recent == SubSeq(answers, IF Len(answers) > HistoryLimit THEN Len(answers) - HistoryLimit + 1 ELSE 1, Len(answers))
hasRecentAssistantReply == Recent # <<>>

looksLikeConversationReference(q) == Has(q, RefTokens)
hasDocumentAnchor(q) == Has(q, DocTokens)
OnlyWord(q, list) == Len(q.words) = 1 /\ Has(q, list)

isHistoryOnlyFollowUp(q) ==
    \/ OnlyWord(q, FollowUps)
    \/ Head(q.words) \in FollowUpPrefixes
    \/ q.runes <= 48 /\ looksLikeConversationReference(q)

isDocumentOverviewQuestion(q) ==
    OnlyWord(q, OverviewQuestions) \/ (q.runes <= 40 /\ Has(q, OverviewPatterns))

isClearlyOutOfScopeRealtime(q) ==
    Has(q, RealtimeTerms) /\ (Has(q, TimeTerms) \/ OnlyWord(q, {"beijingWeather"}))

decideQueryRoute(q) ==
    CASE hasRecentAssistantReply /\ isHistoryOnlyFollowUp(q) -> "history_only"
      [] isDocumentOverviewQuestion(q) -> "document_overview"
      [] /\ isClearlyOutOfScopeRealtime(q)
         /\ ~ hasDocumentAnchor(q) /\ ~ looksLikeConversationReference(q) -> "out_of_scope_reject"
      [] OTHER -> "rag"

-----------------------------------------------------------------------------
(* Planning *)

ComplexTerms == {"why", "summarize", "mainContent"}
FactTerms == {"who"}
FactKeyTerms == {"who"}
AskingTokens == {"who", "what", "why", "thisFile", "whatIsThis", "whatDoesThisMean", "thisBookIs"}
SummaryTokens == {"summarize", "mainContent"}
AnalysisTokens == {"why"}

isSingleFactQuestion(q) == q.runes <= 42 /\ ~ Has(q, ComplexTerms) /\ Has(q, FactTerms)

needsConversationAwareRetrieval(q) ==
    /\ hasRecentAssistantReply
    /\ looksLikeConversationReference(q) \/ (q.runes <= 36 /\ Has(q, AskingTokens))

\* The model rewrites a question that refers to the history to anything; when it fails
\* the history and the question are put together, which is longer than any limit.
RewrittenQuestion(q) == Questions \cup {[words |-> q.words, runes |-> 180]}

contextualizeRetrievalQuestion(q) ==
    IF needsConversationAwareRetrieval(q) THEN RewrittenQuestion(q) ELSE {q}

classifyQuestionType(route, q, s) ==
    LET single == isSingleFactQuestion(q) \/ isSingleFactQuestion(s)
        HasOne(list) == Has(q, list) \/ Has(s, list)
    IN  CASE route = "document_overview"   -> "overview"
          [] route = "history_only"        -> "follow_up"
          [] route = "out_of_scope_reject" -> "out_of_scope"
          [] OTHER -> CASE single                             -> "single_fact"
                        [] needsConversationAwareRetrieval(q) -> "follow_up"
                        [] HasOne(SummaryTokens)              -> "summary"
                        [] HasOne(AnalysisTokens)             -> "analysis"
                        [] OTHER                              -> "rag"

AtLeast(n, m) == IF n < m THEN m ELSE n
requiredEvidenceCount(q, s) == IF isSingleFactQuestion(q) \/ isSingleFactQuestion(s) THEN 1 ELSE MinEvidence
RequiredFor(route, type, n) ==
    CASE route = "document_overview" -> 1
      [] type = "analysis"           -> AtLeast(n, MinEvidence)
      [] type = "summary"            -> AtLeast(n, 2)
      [] OTHER                       -> n

\* The citations of the last answer that has some; their chunks are looked up again.
Cited == {i \in DOMAIN Recent : Recent[i].cites # <<>>}
latestAssistantSources == IF Cited = {} THEN <<>> ELSE Recent[Max(Cited)].cites

\* The keys of a fact question are those of the rewritten question, or else of its own.
factKeysForQuestion(q, s) == Has(s, FactKeyTerms) \/ Has(q, FactKeyTerms)

buildQueryPlan(q) ==
    LET route == decideQueryRoute(q)
        Plan(s) == LET type == classifyQuestionType(route, q, s)
                   IN  [route |-> route, type |-> type,
                        need |-> RequiredFor(route, type, requiredEvidenceCount(q, s)),
                        reuse |-> latestAssistantSources, fact |-> factKeysForQuestion(q, s)]
    IN  {Plan(s) : s \in IF route = "rag" THEN contextualizeRetrievalQuestion(q) ELSE {q}}

\* The book is ready when it is indexed.  A turn takes a route; the rejection is dropped
\* where the service answers in any case.
askQuestion ==
    \E q \in Questions, stream \in BOOLEAN :
        /\ turn = NoTurn /\ Len(answers) < MaxTurns
        /\ generation = indexed
        /\ \E plan \in buildQueryPlan(q) :
            turn' = [NoTurn EXCEPT !.plan = plan, !.stream = stream, !.live = ChunksIn(generation),
                       !.pc = CASE plan.route = "history_only"                           -> "history"
                                [] plan.route = "document_overview"                      -> "overview"
                                [] plan.route = "out_of_scope_reject" /\ abstainEnabled  -> "reject"
                                [] OTHER                                                 -> "retrieve"]
        /\ UNCHANGED <<abstainEnabled, hasSummary, generation, indexed, answers>>

-----------------------------------------------------------------------------
(* Saving an answer *)

\* What the model can do: state something, say that the evidence is insufficient, say
\* nothing, or fail.
Outcomes == {"claim", "insufficient", "empty", "error"}

Save(abstained, says, cites) ==
    /\ answers' = Append(answers, [route |-> turn.plan.route, type |-> turn.plan.type,
                                   need |-> turn.plan.need, live |-> turn.live,
                                   abstained |-> abstained, says |-> says, cites |-> cites])
    /\ turn' = NoTurn
    /\ UNCHANGED <<abstainEnabled, hasSummary, generation, indexed>>

\* An error of a store, of a stream, or of the transaction that saves the exchange.
TurnFails ==
    /\ turn # NoTurn
    /\ turn' = NoTurn
    /\ UNCHANGED <<abstainEnabled, hasSummary, generation, indexed, answers>>

RejectOutOfScope ==
    /\ turn.pc = "reject"
    /\ Save(TRUE, "insufficient", <<>>)

\* From the history alone: the citations are those of the answer it goes on from.
answerFromHistoryWithChunk ==
    \E out \in Outcomes :
        /\ turn.pc = "history"
        /\ out = "error" => ~ turn.stream
        /\ IF out = "empty" \/ (abstainEnabled /\ out \in {"insufficient", "error"})
           THEN Save(TRUE, "insufficient", <<>>)
           ELSE Save(FALSE, IF out = "claim" THEN "claim" ELSE "insufficient", latestAssistantSources)

\* The first chunk of each block, in order, up to four.
selectOverviewChunks(g) ==
    LET First(b) == CHOOSE p \in BookParts : p[1] = b /\ \A r \in BookParts : r[1] = b => p[2] <= r[2]
        blocks   == Ascending(BlockNumbers)
    IN  [i \in 1 .. (IF Len(blocks) < 4 THEN Len(blocks) ELSE 4) |-> Chunk(g, First(blocks[i]))]

\* Fewer, where chunks behind the first page and the first eight are no candidates; if the
\* book loses its chunks meanwhile, its summary, or nothing.
buildOverviewSources ==
    {Leading(selectOverviewChunks(generation), n) : n \in 1 .. 4}
        \cup {IF hasSummary THEN <<Profile>> ELSE <<>>}

\* A stream, or a model that does not help, gets a text made of what is known.
answerDocumentOverview ==
    /\ turn.pc = "overview"
    /\ \E citations \in buildOverviewSources : Save(FALSE, "claim", citations)

-----------------------------------------------------------------------------
(* Retrieving, selecting, generating *)

DistinctBlocks(s) == \A i, j \in DOMAIN s : s[i][2] = s[j][2] => i = j
HitsFrom(chunks) ==
    {s \in UNION {[1 .. n -> chunks] : n \in 0 .. Cardinality(BlockNumbers)} : DistinctBlocks(s)}

\* Chunks that are indexed and still in the database.
retrieveEvidenceForPlan ==
    \E hits \in HitsFrom(ChunksIn(indexed) \cap ChunksIn(generation)) :
        /\ turn.pc = "retrieve"
        /\ turn' = [turn EXCEPT !.pc = "select", !.hits = Leading(hits, SelectTopK)]
        /\ UNCHANGED <<abstainEnabled, hasSummary, generation, indexed, answers>>

\* chunk_family: the hits of one block are one.
EvidenceKey(hit) == hit[2]

\* A hit is kept unless one with its key was seen before.
selectUniqueEvidenceHits(hits) ==
    LET Seen(i) == \E j \in 1 .. i - 1 : EvidenceKey(hits[j]) = EvidenceKey(hits[i])
    IN  Leading(ElementsAt(hits, {i \in DOMAIN hits : ~ Seen(i)}), SelectTopK)

\* The book's summary, where the question asks for one.
ProfileHit(plan) == IF plan.type = "summary" /\ hasSummary THEN <<Profile>> ELSE <<>>

\* For each fact that the question asks for, the first chunk that has it: any chunk, and
\* the same one again for another fact.
FactHits(plan) ==
    UNION {[1 .. n -> ChunksIn(generation)] :
             n \in IF plan.type = "single_fact" /\ plan.fact THEN 0 .. MaxFacts ELSE {0}}

\* As it would be if the citations were repeated as they are.
CitedChunks(ids) == ids

\* The chunks of some ids that are still in the database.
GetChunksByIDs(ids) == ElementsAt(ids, {i \in DOMAIN ids : ids[i] \in ChunksIn(generation)})

\* The facts and the summary first, then what was retrieved, then the chunks cited before
\* that are still there.
selectEvidence ==
    \E facts \in FactHits(turn.plan) :
        LET reused == GetChunksByIDs(turn.plan.reuse)
        IN  /\ turn.pc = "select"
            /\ turn' = [turn EXCEPT !.pc = "generate",
                  !.hits = selectUniqueEvidenceHits(facts \o ProfileHit(turn.plan) \o turn.hits \o reused)]
            /\ UNCHANGED <<abstainEnabled, hasSummary, generation, indexed, answers>>

validateEvidenceSelection == ~ abstainEnabled \/ Len(turn.hits) >= turn.plan.need

\* A text that says the evidence is insufficient passes; another one needs words in common
\* with what it cites.
Validate(says, cites) ==
    IF says = "insufficient" THEN {TRUE} ELSE IF cites = <<>> THEN {FALSE} ELSE BOOLEAN

\* Too little evidence: no model is asked.
AbstainEarly ==
    /\ turn.pc = "generate" /\ ~ validateEvidenceSelection
    /\ Save(TRUE, "insufficient", turn.hits)

\* A model that fails leaves the text of a refusal, which then passes as an answer.
generateAnswerText ==
    \E out \in Outcomes :
        LET says == IF out = "claim" THEN "claim" ELSE "insufficient"
        IN  /\ turn.pc = "generate" /\ validateEvidenceSelection
            /\ out = "error" => ~ turn.stream
            /\ IF out = "empty" THEN Save(TRUE, says, turn.hits)
               ELSE \E valid \in IF abstainEnabled THEN Validate(says, turn.hits) ELSE {TRUE} :
                        IF valid THEN Save(FALSE, says, turn.hits) ELSE Save(TRUE, "insufficient", <<>>)

-----------------------------------------------------------------------------
(* The book is processed again: the rows are replaced, then the indexes. *)

ReplaceChunkRows ==
    /\ generation = indexed /\ generation < MaxGenerations
    /\ generation' = generation + 1
    /\ turn' = IF turn = NoTurn THEN turn ELSE [turn EXCEPT !.live = @ \cup ChunksIn(generation + 1)]
    /\ UNCHANGED <<abstainEnabled, hasSummary, indexed, answers>>

Reindex ==
    /\ indexed < generation
    /\ indexed' = generation
    /\ UNCHANGED <<abstainEnabled, hasSummary, generation, answers, turn>>

-----------------------------------------------------------------------------
AnsweringInit ==
    /\ abstainEnabled \in BOOLEAN /\ hasSummary \in BOOLEAN
    /\ generation = 1 /\ indexed = 1
    /\ answers = <<>> /\ turn = NoTurn

AnsweringNext ==
    \/ askQuestion \/ TurnFails \/ RejectOutOfScope \/ answerFromHistoryWithChunk
    \/ answerDocumentOverview \/ retrieveEvidenceForPlan \/ selectEvidence
    \/ AbstainEarly \/ generateAnswerText \/ ReplaceChunkRows \/ Reindex

AnsweringSpec == AnsweringInit /\ [][AnsweringNext]_answeringVars

-----------------------------------------------------------------------------
(* What the service promises *)

AnsweringTypeOK ==
    /\ generation \in 1 .. MaxGenerations /\ indexed \in {generation - 1, generation}
    /\ turn.pc \in {"idle", "history", "overview", "reject", "retrieve", "select", "generate"}
    /\ Len(turn.hits) <= AtLeast(SelectTopK, 1)
    /\ \A i \in DOMAIN answers : answers[i].says \in {"claim", "insufficient"}

CitedBlocks(a) == {a.cites[i][2] : i \in DOMAIN a.cites}

\* An answer that claims something from retrieved evidence, where the service may refuse,
\* cites as many different pieces of evidence as its kind of question requires: blocks of
\* the book, of which several chunks are one, and its summary, which counts as the code
\* counts it.
ClaimsHaveEvidence ==
    abstainEnabled =>
        \A i \in DOMAIN answers :
            LET a == answers[i]
            IN  a.route = "rag" /\ ~ a.abstained /\ a.says = "claim"
                => Cardinality(CitedBlocks(a)) >= a.need /\ a.need >= 1

\* What an answer cites was in the database while it was made; only an answer from the
\* history repeats citations, of the one answer before it that it goes on from.
CitesAreReal ==
    \A i \in DOMAIN answers :
        LET a == answers[i]
        IN  IF a.route = "history_only"
            THEN a.cites # <<>> => \E j \in 1 .. i - 1 : a.cites = answers[j].cites
            ELSE \A k \in DOMAIN a.cites : a.cites[k] \in a.live \cup {Profile}

\* Answers rest on evidence (README.md: the answers carry citations and refuse without
\* evidence), over the turns of a conversation and while the book is processed again.
AnswersAreGrounded == ClaimsHaveEvidence /\ CitesAreReal
=============================================================================
