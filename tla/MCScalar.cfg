SPECIFICATION ScalarSpec
CONSTANTS
    Size = 8
    Base = 2
    Registers = {1}
    Addresses <- MCAddresses
    Bits = 4
    ScalarIdioms <- MCIdioms
    ScalarHighs <- MCHighs
    ScalarZeros <- MCZeros
VIEW WithoutHistory
INVARIANTS
    TypeOK
    ViewsAgree
    SequencesCompute
PROPERTY
    ImplementsByteMemory
CHECK_DEADLOCK FALSE
