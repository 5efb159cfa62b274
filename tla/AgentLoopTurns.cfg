\* Three turns, every mixture of rulings on up to three calls, a chain of backends.
SPECIFICATION FairSpec
CONSTANTS
    Chain <- ThreeBackends
    NoCarrier = "none"
    ArrayCarriers = {"anthropic"}
    MaxTurns = 3
    MaxTokens = 5
    MaxInt = 9
    HasValidator = TRUE
    MaxFinalRejections = 1
    ParallelTools = TRUE
    MaxParallelToolCalls = 2
    Responses <- TurnResponses
    ErrorKinds = {"provider", "other"}
INVARIANTS
    LogTellsTheConversation
    CarriersStayHome
    AskWithinBudget
    ConcurrencyIsGuarded
    EffectsArePermitted
    AccountingMatchesLog
    RequestsAreAccepted
    PinIsThePreviousMark
PROPERTIES
    KeepsLogContract
    Terminates
