SPECIFICATION HistorySpec
CONSTANTS
    Gpr <- MCGpr
    Zero = 0
    Vr <- MCVr
    Vc = {0, 1, 2, 3}
    ImemWords = 4
    PcRange <- MCPcRange
    Instrs <- AllInstrs
    Nop <- MCNop
    Programs <- AllPrograms
    Images <- OtherImage
    RegTargets <- OddTargets
    MovedWords <- MCMoved
INVARIANTS
    TypeOK
    BranchSettled
    DelaySlotAlone
PROPERTIES
    ImplementsIsa
    HaltedFrozen
    OddTargetAlone
