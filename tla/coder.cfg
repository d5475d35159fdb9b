SPECIFICATION CoderSpec
CONSTANTS
    Sizes <- MCSizes
    Word = 64
    MaxCount = 200
    Nested <- MCNested
CHECK_DEADLOCK FALSE
INVARIANTS
    Fits
    RoundTrip
    UntypedNeverMistaken
