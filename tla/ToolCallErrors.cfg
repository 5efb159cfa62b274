\* What a comment promises of the errors of a command.
SPECIFICATION Spec
CONSTANTS
    Setups <- AllSetups
    Quiet <- AllQuiet
    MaxOutput = 2
    MaxWritten = 3
    Typed <- AllTyped
    MaxToolNameLen = 6
    MaxCleanedLen = 4
    Foreign = {".", "*", " "}
    Symbols <- AllSymbols
INVARIANTS
    ErrorsAreHarnessFailures
CHECK_DEADLOCK FALSE
