----------------------------- MODULE Interpreter -----------------------------
(***************************************************************************)
(* Which registers and memories interpreterEXECUTE really touches for a    *)
(* word, read off the dispatch of interpreter.cpp and the bodies of the    *)
(* operations (interpreter-ipu.cpp, interpreter-scc.cpp,                   *)
(* interpreter-vpu.cpp).  It knows nothing of the decoder.                 *)
(***************************************************************************)
EXTENDS Decoder

Effects ==
    [rRead : SUBSET (0..31), rWrite : SUBSET (0..31),
     vRead : SUBSET (0..31), vWrite : SUBSET (0..31),
     vcRead : SUBSET (0..3), vcWrite : SUBSET (0..3),
     dmemRead : BOOLEAN, dmemWrite : BOOLEAN, branches : BOOLEAN]

NoEffect ==
    [rRead |-> {}, rWrite |-> {}, vRead |-> {}, vWrite |-> {},
     vcRead |-> {}, vcWrite |-> {},
     dmemRead |-> FALSE, dmemWrite |-> FALSE, branches |-> FALSE]

Scalar(reads, writes) == [NoEffect EXCEPT !.rRead = reads, !.rWrite = writes]
Control(reads, writes) == [Scalar(reads, writes) EXCEPT !.branches = TRUE]

interpreterSPECIAL(w) ==
    CASE w.func \in {0, 2, 3}              -> Scalar({w.rt}, {w.rd})
      [] w.func \in {4, 6, 7}              -> Scalar({w.rs, w.rt}, {w.rd})
      [] w.func = 8                        -> Control({w.rs}, {})
      [] w.func = 9                        -> Control({w.rs}, {w.rd})
      [] w.func = 13                       -> Control({}, {})
      [] w.func \in (32..39) \cup {42, 43} -> Scalar({w.rs, w.rt}, {w.rd})
      [] OTHER                             -> Scalar({w.rs}, {w.rd})  \* SPECIAL_INVALID

interpreterREGIMM(w) ==
    CASE w.rt \in {0, 1}   -> Control({w.rs}, {})
      [] w.rt \in {16, 17} -> Control({w.rs}, {31})
      [] OTHER             -> NoEffect

(* MFC0 and MTC0 of the RDP's registers (rd bit 3) do nothing.             *)
OfRdp(rd) == (rd \div 8) % 2 = 1

interpreterSCC(w) ==
    CASE w.rs = 0 /\ ~OfRdp(w.rd) -> Scalar({}, {w.rt})
      [] w.rs = 4 /\ ~OfRdp(w.rd) -> Scalar({w.rt}, {})
      [] OTHER                    -> NoEffect

-----------------------------------------------------------------------------
(* Coprocessor 2 moves.  CFC2 and CTC2 take control register 3 for VCE.    *)

ControlRegister(rd) == IF rd % 4 = 3 THEN VCE ELSE rd % 4

CFC2(w) == [Scalar({}, {w.rt}) EXCEPT !.vcRead = {ControlRegister(w.rd)}]
CTC2(w) == [Scalar({w.rt}, {}) EXCEPT !.vcWrite = {ControlRegister(w.rd)}]
MFC2(w) == [Scalar({}, {w.rt}) EXCEPT !.vRead = {VS(w)}]
MTC2(w) == [Scalar({w.rt}, {}) EXCEPT !.vWrite = {VS(w)}]

-----------------------------------------------------------------------------
(* Vector operations, by what their bodies touch besides the accumulator.  *)

Lanes(reads, w) == [NoEffect EXCEPT !.vRead = reads, !.vWrite = {VD(w)}]
TwoSources(w)   == Lanes({VS(w), VT(w)}, w)     \* products, logic, VABS, VZERO
OneSource(w)    == Lanes({VT(w)}, w)            \* VRND., VMOV, VRCP., VRSQ.
NoSource(w)     == Lanes({}, w)                 \* VMACQ, VSAR

UsesControl(w, reads, writes) ==
    [TwoSources(w) EXCEPT !.vcRead = reads, !.vcWrite = writes]

Sum(w)      == UsesControl(w, {VCO}, {VCO})         \* VADD VSUB
CarrySum(w) == UsesControl(w, {}, {VCO})            \* VADDC VSUBC
Compare(w)  == UsesControl(w, {VCO}, {VCO, VCC})    \* VLT VEQ VNE VGE
Merge(w)    == UsesControl(w, {VCC}, {VCO})         \* VMRG

(* VCL reads what VCH left; VCH and VCR write all three.                   *)
Clip(w) ==
    UsesControl(w, IF w.func = 36 THEN {VCO, VCC, VCE} ELSE {}, {VCO, VCC, VCE})

Compute(w) ==
    CASE w.func \in {55, 63}               -> NoEffect      \* VNOP, VNULL
      [] w.func \in {11, 29}               -> NoSource(w)
      [] w.func \in {2, 10} \cup (48..54)  -> OneSource(w)
      [] w.func \in {16, 17}               -> Sum(w)
      [] w.func \in {20, 21}               -> CarrySum(w)
      [] w.func \in 32..35                 -> Compare(w)
      [] w.func \in 36..38                 -> Clip(w)
      [] w.func = 39                       -> Merge(w)
      [] OTHER                             -> TwoSources(w)

interpreterVU(w) ==
    CASE w.rs = 0   -> MFC2(w)
      [] w.rs = 2   -> CFC2(w)
      [] w.rs = 4   -> MTC2(w)
      [] w.rs = 6   -> CTC2(w)
      [] w.rs >= 16 -> Compute(w)
      [] OTHER      -> NoEffect

-----------------------------------------------------------------------------
(* Vector loads and stores.  LTV and STV spread over a group of eight      *)
(* registers.                                                              *)

VectorLoad(w) ==
    [Scalar({w.rs}, {}) EXCEPT !.vWrite = {VT(w)}, !.dmemRead = TRUE]

TransposedLoad(w) ==
    [Scalar({w.rs}, {}) EXCEPT !.vWrite = Group(VT(w)), !.dmemRead = TRUE]

VectorStore(w) ==
    [Scalar({w.rs}, {}) EXCEPT !.vRead = {VT(w)}, !.dmemWrite = TRUE]

TransposedStore(w) ==
    [Scalar({w.rs}, {}) EXCEPT !.vRead = Group(VT(w)), !.dmemWrite = TRUE]

interpreterLWC2(w) ==
    CASE w.rd \in 0..9 -> VectorLoad(w)
      [] w.rd = 11     -> TransposedLoad(w)
      [] OTHER         -> NoEffect

interpreterSWC2(w) ==
    CASE w.rd \in 0..10 -> VectorStore(w)
      [] w.rd = 11      -> TransposedStore(w)
      [] OTHER          -> NoEffect

-----------------------------------------------------------------------------
(* Scalar loads and stores, and the primary opcode.                        *)

ScalarLoad(w)  == [Scalar({w.rs}, {w.rt}) EXCEPT !.dmemRead = TRUE]
ScalarStore(w) == [Scalar({w.rs, w.rt}, {}) EXCEPT !.dmemWrite = TRUE]

interpreterEXECUTE(w) ==
    CASE w.op = 0        -> interpreterSPECIAL(w)
      [] w.op = 1        -> interpreterREGIMM(w)
      [] w.op = 2        -> Control({}, {})
      [] w.op = 3        -> Control({}, {31})
      [] w.op \in {4, 5} -> Control({w.rs, w.rt}, {})
      [] w.op \in {6, 7} -> Control({w.rs}, {})
      [] w.op \in 8..14  -> Scalar({w.rs}, {w.rt})
      [] w.op = 15       -> Scalar({}, {w.rt})
      [] w.op = 16       -> interpreterSCC(w)
      [] w.op = 18       -> interpreterVU(w)
      [] w.op \in {32, 33, 35, 36, 37, 39} -> ScalarLoad(w)
      [] w.op \in {40, 41, 43}             -> ScalarStore(w)
      [] w.op = 50       -> interpreterLWC2(w)
      [] w.op = 58       -> interpreterSWC2(w)
      [] OTHER           -> NoEffect
=============================================================================
