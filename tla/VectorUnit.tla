----------------------------- MODULE VectorUnit -----------------------------
(***************************************************************************)
(* The vector unit: loads and stores (VectorMemory), registers and element *)
(* fields (VectorOperands), the arithmetic of a lane (VectorIdioms, at two *)
(* widths), both compiled halves of an instruction (VectorHalves),         *)
(* quantization, the control registers and the divider.  No part shares a  *)
(* variable with another, so that interleaving them adds nothing: a        *)
(* behaviour chooses the part that runs, and the others keep one of their  *)
(* initial states.                                                         *)
(***************************************************************************)
EXTENDS VectorHalves, VectorIdioms

CONSTANTS Parts,                        \* the parts to run
          MemorySize, Base, Bases, Programs, InitData, InitVectors, \* loads and stores
          VectorRegisters,              \* operands
          Factors,                      \* quantization
          Values, Flags,                \* control registers
          Dividends, Powered            \* divider

ASSUME RegistersAssumption == VectorRegisters # {} /\ VectorRegisters \subseteq 0 .. 31
ASSUME FlagsAssumption == \A f \in Flags : f \in Nat /\ f <= 65535
ASSUME MemoryAssumption == MemorySize \in Nat /\ MemorySize >= 128 /\ MemorySize % 8 = 0
ASSUME BasesAssumption == Bases # {} /\ Bases \subseteq Int
ASSUME BaseAssumption == Base \in Nat /\ Base >= 2 /\ Base % 2 = 0
ASSUME DividendsAssumption == \A t \in Dividends : t \in Nat /\ t <= 65535
ASSUME FactorsAssumption == \A f \in Factors : f \in Int /\ -32768 <= f /\ f <= 32767

VARIABLES part,
          data, vr, program, base, rt, pc,                      \* loads and stores
          file, accl, kind, field, vd, vs, vt, vte, lane,       \* operands
          high, middle, low, level, exact, executed,            \* quantization
          vc, number,                                           \* control registers
          divin, divout, divdp, quotient, last, asked           \* divider

memoryVars  == <<data, vr, program, base, rt, pc>>
operandVars == <<file, accl, kind, field, vd, vs, vt, vte, lane>>
halfVars    == vars
levelVars   == <<high, middle, low, level, exact, executed>>
controlVars == <<vc, number>>
dividerVars == <<divin, divout, divdp, quotient, last, asked>>

vectorVars == <<part, memoryVars, operandVars, idiomVars, halfVars, levelVars,
                controlVars, dividerVars>>

Memory == INSTANCE VectorMemory WITH
    Size <- MemorySize, Idioms <- Programs, idiom <- program
Operands == INSTANCE VectorOperands WITH
    Registers <- VectorRegisters, r <- file, e <- field, n <- lane
Quantizer == INSTANCE Quantization WITH h <- high, m <- middle, l <- low, vd <- level
Control == INSTANCE ControlRegisters WITH rt <- number
Divider == INSTANCE Reciprocal WITH Elements <- Dividends, vd <- quotient

ASSUME ContentsAssumption ==
    InitData \in Memory!Data /\ InitVectors \in [0..7 -> Memory!Vector]

(* Programs consist of instructions of the unit, in any order; one that is *)
(* said to copy or to transpose is one of the sequences of VectorCode.     *)
ASSUME ProgramsAssumption ==
    /\ Programs # {}
    /\ \A i \in Programs :
           /\ i.code \in Seq(Memory!Transfers)
           /\ i.goal = "copy" => i \in Memory!Copies
           /\ i.goal = "transpose" => i \in Memory!Transposition

(* The multiplications neither read nor write the control registers, and   *)
(* the others do not read the accumulator: one part for each.              *)
Multiplications ==
    {"VMULF", "VMULU", "VMUDL", "VMUDM", "VMUDN", "VMUDH", "VMACF", "VMACU",
     "VMADL", "VMADM", "VMADN", "VMADH"}
Others ==
    {"VADD", "VSUB", "VABS", "VADDC", "VSUBC", "VZERO", "VLT", "VEQ", "VNE", "VGE",
     "VCL", "VCH", "VCR", "VMRG", "VNAND", "VNOR", "VNXOR"}

-----------------------------------------------------------------------------
(* An initial state for each part that does not run.                       *)
IdleMemory ==
    /\ program = CHOOSE i \in Programs : TRUE
    /\ base = CHOOSE i \in [{"from", "to"} -> Bases] : TRUE
IdleOperands ==
    /\ kind = "looped" /\ field = 0
    /\ vd = (CHOOSE k \in VectorRegisters : TRUE) /\ vs = vd /\ vt = vd
IdleLane ==
    /\ idiom = CHOOSE i \in Idioms : TRUE
    /\ first = (CHOOSE i \in Wide : TRUE) /\ second = first
    /\ slice = CHOOSE s \in Leftovers : TRUE

VectorInit ==
    /\ part \in Parts
    /\ (IF part = "memory" THEN TRUE ELSE IdleMemory) /\ Memory!Init
    /\ (IF part = "operands" THEN TRUE ELSE IdleOperands) /\ Operands!Init
    /\ (IF part = "lane" THEN TRUE ELSE IdleLane) /\ IdiomInit
    /\ Quantizer!Init
    /\ Init
    /\ Control!Init
    /\ Divider!Init

VectorNext ==
    /\ UNCHANGED part
    /\ \/ part = "memory" /\ Memory!Next
          /\ UNCHANGED <<operandVars, idiomVars, halfVars, levelVars, controlVars, dividerVars>>
       \/ part = "operands" /\ Operands!Next
          /\ UNCHANGED <<memoryVars, idiomVars, halfVars, levelVars, controlVars, dividerVars>>
       \/ part = "lane" /\ Step
          /\ UNCHANGED <<memoryVars, operandVars, halfVars, levelVars, controlVars, dividerVars>>
       \/ part = "quantizer" /\ Quantizer!Next
          /\ UNCHANGED <<memoryVars, operandVars, idiomVars, halfVars, controlVars, dividerVars>>
       \/ part = "multiplied" /\ Run(Multiplications)
          /\ UNCHANGED <<memoryVars, operandVars, idiomVars, levelVars, controlVars, dividerVars>>
       \/ part = "selected" /\ Run(Others)
          /\ UNCHANGED <<memoryVars, operandVars, idiomVars, levelVars, controlVars, dividerVars>>
       \/ part = "control" /\ Control!Next
          /\ UNCHANGED <<memoryVars, operandVars, idiomVars, halfVars, levelVars, dividerVars>>
       \/ part = "divider" /\ Divider!Next
          /\ UNCHANGED <<memoryVars, operandVars, idiomVars, halfVars, levelVars, controlVars>>

VectorSpec == VectorInit /\ [][VectorNext]_vectorVars

-----------------------------------------------------------------------------
(* What each part promises; its module says what of the code is meant.     *)

(* Loads and stores copy and transpose what lies in memory, and a store    *)
(* stays in its line or window (interpreter-vpu.cpp, LBV .. STV).          *)
MovesExactly == part = "memory" => Memory!MovesExactly
StoresStayInReach == Memory!StoresStayInReach

(* Every lane computes from what the registers held before the instruction *)
(* began, and only vd is written (r128::operator() and the lane loops).    *)
AtOnce == Operands!AtOnce

(* Of the lane and of the two halves: ArithmeticIsWide, SelectionsAreWide  *)
(* (VectorIdioms) and HalvesAgree (VectorHalves).                          *)

(* VMULQ and VMACQ leave an odd number of steps.                           *)
QuantizedIsOdd == Quantizer!QuantizedIsOdd

(* CFC2 reads the numbers whose bits are the flags of the lanes.           *)
ReadsAreNumbers == Control!ReadsAreNumbers

(* "16-bit little endian", "8-bit little endian": CTC2 stores the number   *)
(* that it is given.                                                       *)
WritesAreNumbers == Control!WritesAreNumbers

(* VRCP, VRSQ and their lower and upper halves are accurate and fall with  *)
(* their operand.                                                          *)
DivisionIsAccurate == part = "divider" => Divider!DivisionIsAccurate
=============================================================================
