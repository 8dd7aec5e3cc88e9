SPECIFICATION Spec
CHECK_DEADLOCK FALSE
CONSTANTS
    ApiPaths <- AllPaths
    ApiMethods = {"GET", "HEAD", "POST", "PATCH", "DELETE"}
    Window = 2
    Limit = 2
    MaxDelay = 1
    LimiterCalls = {"c1", "c2"}
    MaxClock = 3
    ChatKeys = {"k1"}
    Conversations = {1, 2}
    ChatBooks = {"b1", "b2"}
    ChatCalls = {"c1", "c2"}
    MaxExchanges = 2
    PageCount = 2
    NativePages <- SomeNativePages
    OcrPages <- SomeOcrPages
    OcrOutputs <- SomeOutputs
    TheTexts <- SomeTexts
    PageText <- APageText
    MaxSections = 2
    PdfMinScore = 5
    PdfScoreDiff = 1
    RunesPerToken = 2
    UnitFactor = 4
    MinUnit = 4
    TierSize <- Sizes
    TierOverlap <- Overlaps
    DenseChunks = {1, 3, 5, 6}
    LexicalChunks = {2, 4}
    BlockOf <- ABlockOf
    TextOf <- ATextOf
    LengthOf <- ALengthOf
    MaxQueries = 2
    RecallTopK = 2
    ScoreScale = 3782
    FusionTopK = 2
    RerankTopN = 2
    EvidenceTopK = 2
    ContextBudget = 3
    DenseWeight = 45
    LexicalWeight = 55
    Questions <- AskedQuestions
    BookParts <- SomeParts
    MinEvidence = 2
    SelectTopK = 2
    HistoryLimit = 1
    MaxFacts = 2
    MaxTurns = 2
    MaxGenerations = 2
INVARIANTS
    CallsLand
    QuotaHolds
    OneAnswerPerKey
    ConversationKeepsBook
    TextKept
    BestEvidence
    AnswersAreGrounded
