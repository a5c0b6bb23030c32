------------------------------ MODULE MCSpUnit ------------------------------
(* Programs that use the DMA registers, and programs that use the status   *)
(* register and the semaphore.                                             *)
EXTENDS SpUnit

(* A transfer of 1 group takes 3 clocks and one of 3 groups 9: some are    *)
(* due with the MTC0 that starts them, others several steps later.         *)
MCCosts == {3, 6}

(* Lengths of 1 and 3 groups of 8 bytes, every field of the registers, and *)
(* bits that ioWrite must drop.                                            *)
DmaWords == { {}, {0, 1, 4, 12, 23} }
DmaRegs == {SP_PBUS_ADDRESS, SP_DRAM_ADDRESS, SP_READ_LENGTH, SP_WRITE_LENGTH,
            SP_DMA_BUSY}

(* Set, clear, both and none, for flags at both ends of the layout.        *)
StatusWords == { {}, {0}, {1}, {0, 1}, {2, 6}, {5, 8}, {7, 9, 24}, {10, 23},
                 {9, 10, 13}, {14, 23, 24}, {11, 14, 15, 18, 19, 22},
                 {12, 13, 16, 17, 20, 21} }
StatusRegs == {SP_STATUS, SP_SEMAPHORE}

MCRegs  == DmaRegs \cup StatusRegs
MCWords == [reg \in MCRegs |-> IF reg \in DmaRegs THEN DmaWords ELSE StatusWords]

(* Explored: programs that use the DMA registers, and programs that use    *)
(* the status register and the semaphore.  Neither looks at the other.     *)
OneUse == \/ dma = InitDma
          \/ status = [InitStatus EXCEPT !.halted = status.halted, !.broken = status.broken]
=============================================================================
