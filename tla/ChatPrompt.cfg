\* Six keys, after no entry or after two.
SPECIFICATION PromptSpec
CONSTANTS
    MaxLine = 3
    MaxHistory = 2
    Room = 2
    Chars <- Letters
    ControlKeys <- Controls
    EscSequences <- Arrows
    Histories <- Entries
    MaxKeys = 6
INVARIANTS
    TerminalIsHandedBack
    EditsAreMeant
PROPERTIES
    WaitIsInterruptible
