\* One run with two calls at once.
SPECIFICATION Spec
CONSTANTS
    Runs = {p1, p2}
    Calls = {a, b}
    None = nil
    Owners <- OnlyOneRun
    Margin <- MCMargin
    Life = 2
    MaxMinted = 3
    ClientConfigured = FALSE
    MaxCommands = 0
PROPERTY
    ReplacementSurvives
CONSTANTS
    p1 = p1
    p2 = p2
    a = a
    b = b
