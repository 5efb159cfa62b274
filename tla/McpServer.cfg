\* Three calls that share one connection, closed at any moment.
SPECIFICATION FairSpec
CONSTANTS
    Calls = {c1, c2, c3}
    First = s0
    None = nil
    ClosesEarly = TRUE
INVARIANTS
    OneConnection
    NothingLeaks
    OnlyTheLostAreCondemned
    FailuresCountOnce
PROPERTIES
    WaitersAreReleased
