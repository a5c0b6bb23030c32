SPECIFICATION Spec
CONSTANTS
    FetchedWords <- MCPairWords
CHECK_DEADLOCK FALSE
INVARIANTS
    AllPairsIndependent
