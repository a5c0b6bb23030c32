SPECIFICATION Spec
CONSTANTS
    FetchedWords <- MCWords
CHECK_DEADLOCK FALSE
INVARIANTS
    DecoderCovers
    PairsIndependent
    VnopConflicts
