----------------------------- MODULE MCRspCore -----------------------------
(* Every program of a few words over one instruction of each kind, on an   *)
(* IMEM of that size with a program counter of two IMEM lengths.  The      *)
(* instructions are decoded from their words; those chosen have no data    *)
(* hazards among themselves (MCPipeline has them).                         *)
EXTENDS RspCore

D == INSTANCE Decoder

Instruction(kind, imm, link, op, rs, rt, rd, func) ==
    [kind |-> kind, imm |-> imm, link |-> link,
     info |-> D!decoderEXECUTE([op |-> op, rs |-> rs, rt |-> rt, rd |-> rd,
                                sa |-> 0, func |-> func])]

MCNop    == Instruction("plain", 0, FALSE, 0, 0, 0, 0, 0)         \* SLL $0, $0, 0
VectorOp == Instruction("plain", 0, FALSE, 18, 16, 0, 0, 55)      \* VNOP
Jump     == Instruction("jump", 4, TRUE, 3, 0, 0, 0, 0)           \* JAL 4
Back     == Instruction("cond", -8, FALSE, 5, 9, 0, 0, 0)         \* BNE $9, $0, -8
Return   == Instruction("return", 0, FALSE, 0, 31, 0, 0, 8)       \* JR $ra
JumpReg  == Instruction("register", 0, TRUE, 0, 9, 0, 31, 9)      \* JALR $ra, $9
Break    == Instruction("break", 0, FALSE, 0, 0, 0, 0, 13)        \* BREAK
Mtc0     == Instruction("mtc0", SP_STATUS, FALSE, 16, 4, 9, 4, 0) \* MTC0 $9, SP_STATUS
Lock     == Instruction("mfc0", SP_SEMAPHORE, FALSE, 16, 0, 9, 7, 0)
Dma0     == Instruction("mtc0", SP_READ_LENGTH, FALSE, 16, 4, 9, 2, 0)

MCGpr == 0..31
MCVr  == 0..31

MCInstrs   == {MCNop, VectorOp, Jump, Back, Break, Mtc0}
MCPrograms == [0..3 -> MCInstrs]
MCPcRange  == 32
MCMoved    == {{1}, {0, 10}}

(* Programs with all instructions, and one to load at any time.            *)
AllInstrs  == MCInstrs \cup {Return, JumpReg, Lock, Dma0}
Image(a, b, c, d) ==
    [n \in 0..3 |-> CASE n = 0 -> a [] n = 1 -> b [] n = 2 -> c [] OTHER -> d]
SomeImages == { Image(Jump, JumpReg, VectorOp, Lock),
                Image(VectorOp, Mtc0, Break, Return),
                Image(JumpReg, Dma0, Return, Back) }
OddTargets == {4, 9}
AllPrograms == MCPrograms \cup SomeImages
OtherImage == {Image(VectorOp, Back, MCNop, Return)}
HaltWord   == {{1}}
=============================================================================
