----------------------------- MODULE MCRequests -----------------------------
(***************************************************************************)
(* What a request of a reader passes through, for TLC: the routes of the   *)
(* gateway, its rate limit, the exchange of a conversation, and how a      *)
(* question is answered: the book cut into chunks, the evidence retrieved, *)
(* the answer given.  Each behaviour follows one of them, the scenario;    *)
(* the others stay in their initial states, so that the run is the sum of  *)
(* the components' state spaces.                                           *)
(***************************************************************************)
EXTENDS ApiRoutes, RateLimiter, ChatExchange, Chunking, Retrieval, Answering

VARIABLE scenario
Scenarios == {"routes", "limiter", "exchanges", "chunking", "retrieval", "answering"}

requestVars == <<apiVars, limiterVars, chatVars, chunkingVars, retrievalVars, answeringVars, scenario>>

-----------------------------------------------------------------------------
(* Paths: all that the services serve, and each of them with a segment more. *)

Under(prefix, paths) == {prefix \o p : p \in paths}
AuthPaths == Under(<<"auth">>, {
    <<"signup">>, <<"signup", "complete">>, <<"login">>, <<"login", "password">>, <<"login", "methods">>,
    <<"verification", "send">>, <<"verification", "verify">>, <<"otp", "send">>, <<"otp", "verify">>,
    <<"password", "reset", "verify">>, <<"password", "reset", "complete">>, <<"refresh">>, <<"logout">>,
    <<"jwks">>, <<"oauth", "id", "start">>, <<"oauth", "id", "callback">>})
UserPaths == Under(<<"users">>, {<<"me">>, <<"me", "avatar">>, <<"me", "password">>, <<"id", "avatar">>})
ReaderPaths == {
    <<"books">>, <<"books", "id">>, <<"books", "id", "download">>, <<"books", "id", "content">>,
    <<"books", "id", "reprocess">>, <<"chats">>, <<"conversations">>, <<"conversations", "id">>,
    <<"conversations", "id", "messages">>}
AdminPaths == Under(<<"admin">>, {
    <<"users">>, <<"users", "id">>, <<"users", "id", "disable">>, <<"users", "id", "enable">>, <<"books">>,
    <<"books", "id">>, <<"books", "id", "index-status">>, <<"books", "id", "reprocess">>,
    <<"books", "id", "repair-index">>, <<"audit-logs">>, <<"overview">>})
EvalPaths == Under(<<"admin", "evals">>, {
    <<"overview">>, <<"datasets">>, <<"datasets", "id">>, <<"runs">>, <<"runs", "id">>,
    <<"runs", "id", "cancel">>, <<"runs", "id", "per-query">>, <<"runs", "id", "artifacts", "id">>})
KnownPaths == AuthPaths \cup UserPaths \cup ReaderPaths \cup AdminPaths \cup EvalPaths
AllPaths == KnownPaths \cup {Append(p, "other") : p \in KnownPaths} \cup {<<>>, <<"other">>}

-----------------------------------------------------------------------------
(* Files: two pages, read well or poorly; texts of up to four lines. *)

Line(runes, ends) == [runes |-> runes, ends |-> ends]
SomeLines == {Line(0, FALSE), Line(1, TRUE), Line(2, FALSE), Line(4, TRUE), Line(11, TRUE)}
SomeTexts == UNION {[1 .. n -> SomeLines] : n \in 1 .. 4}
APageText == <<Line(2, TRUE), Line(0, FALSE), Line(4, TRUE)>>
Page(score, short, conf) == [score |-> score, short |-> short, conf |-> conf]
SomeNativePages == {Page(3, FALSE, 0), Page(3, TRUE, 0), Page(8, TRUE, 0), Page(8, FALSE, 0)}
SomeOcrPages == {Page(4, FALSE, 0), Page(4, FALSE, 1), Page(9, FALSE, 9)}
\* The command writes one file or one for each page, with indices, numbers or neither.
Entry(n, page, by, no) == [file |-> n, page |-> page, by |-> by, n |-> no]
SomeOutputs == {
    <<Entry(1, 1, "page_index", 0), Entry(1, 2, "page_index", 1)>>,
    <<Entry(1, 1, "page", 1), Entry(1, 2, "page", 0)>>,
    <<Entry(1, 2, "page", 2), Entry(2, 1, "place", 0)>>,
    <<Entry(1, 1, "place", 0), Entry(2, 2, "place", 0)>>,
    <<Entry(1, 2, "bare", 0), Entry(2, 1, "bare", 0)>>}
Sizes == <<2, 3>>
Overlaps == <<1, 2>>

(* An index: three blocks, of which two have vectors and terms and one shares a text. *)

ABlockOf == <<"A", "A", "B", "B", "A", "C">>
ATextOf == <<"x", "y", "z", "w", "u", "x">>
ALengthOf == <<2, 1, 2, 1, 1, 2>>

(* Questions: each word that a list of the code has, alone or with one that overrides it, *)
(* and some above the length that the code takes for a short question.                    *)

Question(words, runes) == [words |-> words, runes |-> runes]
AskedQuestions ==
    {Question(<<w>>, 12) : w \in {"beijingWeather", "goOn", "whatIsThis", "thisBookIs", "whatDoesThisMean",
                                  "who", "what", "why", "summarize"}}
    \cup {Question(w, 20) : w \in {<<"today", "weather">>, <<"inTheBook", "today", "weather">>,
                                   <<"inTheBook", "mainContent">>, <<"who", "why">>}}
    \cup {Question(<<w>>, 60) : w \in {"justSaid", "thisFile", "who"}}
SomeParts == {<<1, 1>>, <<1, 2>>, <<2, 1>>}

-----------------------------------------------------------------------------
\* A component that stays as it is begins in one state.
Init ==
    /\ scenario \in Scenarios
    /\ IF scenario = "routes" THEN TRUE ELSE api = CHOOSE r \in ApiRequests : r.path = <<>>
    /\ IF scenario = "chunking" THEN TRUE ELSE file = [NoFile EXCEPT !.kind = "epub"]
    /\ IF scenario = "retrieval" THEN TRUE ELSE mode = "hybrid_best"
    /\ IF scenario = "answering" THEN TRUE ELSE abstainEnabled = TRUE /\ hasSummary = TRUE
    /\ ApiRoutesInit /\ RateLimiterInit /\ ChatExchangeInit
    /\ ChunkingInit /\ RetrievalInit /\ AnsweringInit
    /\ abstainEnabled \/ hasSummary

RoutesStep ==
    /\ scenario = "routes" /\ ApiRoutesNext
    /\ UNCHANGED <<limiterVars, chatVars, chunkingVars, retrievalVars, answeringVars, scenario>>

LimiterStep ==
    /\ scenario = "limiter" /\ RateLimiterNext
    /\ UNCHANGED <<apiVars, chatVars, chunkingVars, retrievalVars, answeringVars, scenario>>

ExchangesStep ==
    /\ scenario = "exchanges" /\ ChatExchangeNext
    /\ UNCHANGED <<apiVars, limiterVars, chunkingVars, retrievalVars, answeringVars, scenario>>

ChunkingStep ==
    /\ scenario = "chunking" /\ ChunkingNext
    /\ UNCHANGED <<apiVars, limiterVars, chatVars, retrievalVars, answeringVars, scenario>>

RetrievalStep ==
    /\ scenario = "retrieval" /\ RetrievalNext
    /\ UNCHANGED <<apiVars, limiterVars, chatVars, chunkingVars, answeringVars, scenario>>

\* The book is processed again after the first answer.
AnsweringStep ==
    /\ scenario = "answering" /\ AnsweringNext
    /\ answers = <<>> => generation' = 1
    /\ UNCHANGED <<apiVars, limiterVars, chatVars, chunkingVars, retrievalVars, scenario>>

Next == RoutesStep \/ LimiterStep \/ ExchangesStep \/ ChunkingStep \/ RetrievalStep \/ AnsweringStep
Spec == Init /\ [][Next]_requestVars
=============================================================================
