\* Two calls of one run, or one of each of two runs, beside a login or a logout.
SPECIFICATION FairSpec
CONSTANTS
    Runs = {p1, p2}
    Calls = {a, b}
    None = nil
    Owners <- Either
    Margin <- MCMargin
    Life = 2
    MaxMinted = 3
    ClientConfigured = FALSE
    MaxCommands = 1
INVARIANTS
    RefreshedOnce
PROPERTIES
    StoreAdvances
    CallsEnd
CONSTANTS
    p1 = p1
    p2 = p2
    a = a
    b = b
