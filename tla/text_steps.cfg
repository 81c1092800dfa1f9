CONSTANTS
    Symbols <- MCSymbols
    ResourceTexts <- MCResourceTexts
    Target = 6
    Overlap = 2
    Least = 2
    Most = 5
    Letters <- MCLetters
    Categories <- MCCategories
    Place <- MCPlace
    Length <- MCLength
    Batches <- MCBatches
    Overrides <- MCOverrides
SPECIFICATION TextSpec
INVARIANTS
    TextTypeOK TextKept ChunksAreSmall
    HardDropped ReleasedIsAudited SpansGone
\* A call ends.
CHECK_DEADLOCK FALSE
