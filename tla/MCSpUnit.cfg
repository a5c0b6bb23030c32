SPECIFICATION Spec
CONSTANTS
    MovedRegs <- MCRegs
    MovedWords <- MCWords
    Costs <- MCCosts
CONSTRAINT OneUse
INVARIANTS
    TypeOK
    QueueConsistent
    DmaAligned
    SemaphoreGrantedOnce
PROPERTIES
    RunningTransferFrozen
    StartedTransferDue
    StatusLayouts
