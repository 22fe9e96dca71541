SPECIFICATION AskSpec
CONSTANTS
    Items = {1, 2, 3, 4, 5, 6, 7}
    Text <- MCText
    Exact = {7}
    IdTokens = 1
    PromptTokens = 2
    RepairTokens = 4
    MaxChunkTokens = 4
    ContextBudget = 14
    Threshold = 2
    Scenarios <- MCScenarios
    Databases <- MCDatabases
    VectorScore <- MCVectorScore
    KeywordScore <- MCKeywordScore
    StructuredOf <- MCStructuredOf
    GraphOf <- MCGraphOf
    CandidateK = 5
    IncludeSnippets = TRUE
    Answers <- MCAnswers
    Question <- MCQuestion
    HeaderTerms <- MCHeaderTerms
    Long <- MCLong
    MaxEdits = 1
    Touched = {3}
INVARIANTS
    SelectionIsAccounted
    BudgetIsKept
    CallsAreAuthorized
    AnswersAreGrounded
    TextSurvives
    RowsTellFailures
CHECK_DEADLOCK FALSE
