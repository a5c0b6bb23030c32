SPECIFICATION VectorSpec
CONSTANTS
    Bits = 3
    MemorySize = 128
    Base = 256
    Bases <- MCBases
    Programs <- MCPrograms
    InitData <- MCData
    InitVectors <- MCVectors
    VectorRegisters <- MCRegisters
    Idioms <- MCIdioms
    Highs <- Number
    Lows <- Number
    Leftovers <- MCLeftovers
    Factors <- MCFactors
    Values <- MCValues
    Flags <- MCFlags
    Dividends <- MCElements
    Parts = {"memory", "operands", "lane", "quantizer", "multiplied", "selected",
             "control", "divider"}
    Powered = TRUE
INVARIANTS
    MovesExactly
    AtOnce
    ArithmeticIsWide
    SelectionsAreWide
    QuantizedIsOdd
    HalvesAgree
    DivisionIsAccurate
PROPERTIES
    StoresStayInReach
    ReadsAreNumbers
CHECK_DEADLOCK FALSE
