SPECIFICATION Spec
CONSTANTS
    Letters = {"a", "b"}
    Digits = {"1", "01", "2024", "99"}
    DateForm <- MCDateForm
    TimestampForm = {}
    TooLarge <- MCTooLarge
    TooWide <- MCTooWide
    Alphabet <- MCAlphabet
    Sample <- MCSample
    MaxAny = 1
    MaxWords = 6
INVARIANTS
    SyntaxErrorsAreThrown
CHECK_DEADLOCK FALSE
