\* The documented effect of changing the model on a resume.
SPECIFICATION RunSpec
CONSTANTS
    Chain <- TwoBackends
    NoCarrier = "none"
    MaxTurns = 2
    MaxTokens = 0
    MaxInt = 9
    HasValidator = TRUE
    MaxFinalRejections = 0
    ParallelTools = TRUE
    MaxParallelToolCalls = 2
    Responses <- ResumeResponses
    ErrorKinds = {"provider"}
    NoFile = 0
    MaxChainLinks = 32
    Models = {"m1", "m2"}
    ResumedTurns = 1
    MaxRuns = 2
    MaxChainedEvents = 3
    FollowedRuns = 2
INVARIANTS
    ModelChangeStillResumes
