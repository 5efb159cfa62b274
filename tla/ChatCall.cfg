\* An answer of thinking, a text and two calls in three fragments each, and three attempts.
SPECIFICATION Spec
CONSTANTS
    Kinds <- Answer
    Frags = 3
    MaxAttempts = 3
INVARIANTS
    SinkTellsTheAnswer
    AnswerIsWhole
    EnforcementIsTold
