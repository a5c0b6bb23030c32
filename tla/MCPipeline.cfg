SPECIFICATION Spec
CONSTANTS
    Gpr <- MCGpr
    Zero = 0
    Vr <- MCVr
    Vc = {0, 1, 2, 3}
    Ops <- MCOps
INVARIANTS
    TypeOK
    DelaySlotAlone
PROPERTIES
    CostBound
    PairCostBound
    HazardFree
    ImplementsScoreboard
