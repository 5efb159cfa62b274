\* Three lines on one budget of five turns and four tokens, and two backends.
SPECIFICATION ChatSpec
CONSTANTS
    Chain <- TwoBackends
    NoCarrier = "none"
    MaxTurns = 5
    MaxTokens = 4
    MaxInt = 9
    HasValidator = FALSE
    MaxFinalRejections = 0
    ParallelTools = TRUE
    MaxParallelToolCalls = 2
    Responses <- ChatResponses
    ErrorKinds = {"provider", "other"}
    MaxLines = 3
INVARIANTS
    SessionWithinBudget
    TotalsMatchLog
PROPERTIES
    KeepsLogContract
