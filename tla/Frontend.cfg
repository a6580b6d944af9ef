SPECIFICATION Spec
CONSTANTS
    Letters = {"a", "b"}
    Digits = {"1", "01", "2024", "99"}
    DateForm <- MCDateForm
    TimestampForm = {}
    TooLarge <- MCTooLarge
    TooWide <- MCTooWide
    Alphabet <- MCAlphabet
    Sample <- MCSample
    MaxAny = 3
    MaxWords = 9
INVARIANTS
    LexesWhatIsMeant
    TreeIsTheText
    TextParsesBack
    PastEndOnlyForAValue
CHECK_DEADLOCK FALSE
