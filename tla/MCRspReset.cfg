SPECIFICATION HistorySpec
CONSTANTS
    Gpr <- MCGpr
    Zero = 0
    Vr <- MCVr
    Vc = {0, 1, 2, 3}
    ImemWords = 4
    PcRange <- MCPcRange
    Instrs <- AllInstrs
    Nop <- MCNop
    Programs <- SomeImages
    Images <- SomeImages
    RegTargets <- OddTargets
    MovedWords <- HaltWord
PROPERTIES
    ResetDropsBranch
