\* Every guard over its inputs, and every way a child or a server may end a call.
SPECIFICATION Spec
CONSTANTS
    Setups <- AllSetups
    Quiet <- AllQuiet
    MaxOutput = 2
    MaxWritten = 3
    Typed <- AllTyped
    MaxToolNameLen = 6
    MaxCleanedLen = 4
    Foreign = {".", "*", " "}
    Symbols <- AllSymbols
INVARIANTS
    OnlyThePermittedRuns
    ResultTellsTheEnd
PROPERTIES
    CallIsBounded
CHECK_DEADLOCK FALSE
