------------------------------- MODULE Decoder -------------------------------
(***************************************************************************)
(* decoder.cpp: the hazard information (OpInfo) of an instruction word.    *)
(*                                                                         *)
(* A word is the record of the fields the decoder's switches and register  *)
(* macros extract: op (31..26), rs (25..21), rt (20..16), rd (15..11),     *)
(* sa (10..6), func (5..0).  VS and VT are rd and rt, VD is sa.            *)
(***************************************************************************)
EXTENDS Integers

VCO == 0
VCC == 1
VCE == 2

INSTANCE Pipeline WITH Gpr <- 0..31, Zero <- 0, Vr <- 0..31, Vc <- 0..3

Word ==
    [op : 0..63, rs : 0..31, rt : 0..31, rd : 0..31, sa : 0..31, func : 0..63]

VS(w) == w.rd
VT(w) == w.rt
VD(w) == w.sa

INVALID ==
    [flags |-> {}, vfake |-> {}, rUse |-> {}, rDef |-> {},
     vUse |-> {}, vDef |-> {}, vcUse |-> {}, vcDef |-> {}]

(* VGUse/VGDef: the aligned group of eight vector registers of LTV/STV.    *)
Group(n) == {m \in 0..31 : m \div 8 = n \div 8}

-----------------------------------------------------------------------------
(* decoderEXECUTE: the primary opcode.                                     *)

Branches(use, def) ==
    [INVALID EXCEPT !.rUse = use, !.rDef = def,
                    !.flags = {"Branch"} \cup (IF def = {} THEN {} ELSE {"Bypass"})]

Arithmetic(use, def) ==
    [INVALID EXCEPT !.rUse = use, !.rDef = def, !.flags = {"Bypass"}]

decoderSPECIAL(w) ==
    CASE w.func \in {0, 2, 3}                 -> Arithmetic({w.rt}, {w.rd})
      [] w.func \in {4, 6, 7}                 -> Arithmetic({w.rt, w.rs}, {w.rd})
      [] w.func = 8 (* JR *)                  -> Branches({w.rs}, {})
      [] w.func = 9 (* JALR *)                -> Branches({w.rs}, {w.rd})
      [] w.func = 13 (* BREAK *)              -> Branches({}, {})
      [] w.func \in (32..39) \cup {42, 43}    -> Arithmetic({w.rs, w.rt}, {w.rd})
      [] OTHER                                -> INVALID

decoderREGIMM(w) ==
    CASE w.rt \in {0, 1}   -> Branches({w.rs}, {})      \* BLTZ, BGEZ
      [] w.rt \in {16, 17} -> Branches({w.rs}, {31})    \* BLTZAL, BGEZAL
      [] OTHER             -> INVALID

(* Moves between the units may touch DMA state: Load and Store together.   *)
Move == [INVALID EXCEPT !.flags = {"Load", "Store"}]

decoderSCC(w) ==
    CASE w.rs = 0 -> [Move EXCEPT !.rDef = {w.rt}]      \* MFC0
      [] w.rs = 4 -> [Move EXCEPT !.rUse = {w.rt}]      \* MTC0
      [] OTHER    -> INVALID

-----------------------------------------------------------------------------
(* decoderVU: coprocessor 2 moves (bit 25 clear) and vector operations.    *)

decoderMove2(w) ==
    CASE w.rs = 0 -> [Move EXCEPT !.rDef = {w.rt}, !.vUse = {VS(w)}]        \* MFC2
      [] w.rs = 2 -> [Move EXCEPT !.rDef = {w.rt}, !.vcUse = {w.rd % 4}]    \* CFC2
      [] w.rs = 4 -> [Move EXCEPT !.rUse = {w.rt}, !.vDef = {VS(w)},        \* MTC2
                                  !.flags = @ \cup {"VNopGroup"}]
      [] w.rs = 6 -> [Move EXCEPT !.rUse = {w.rt}, !.vcDef = {w.rd % 4}]    \* CTC2
      [] OTHER    -> INVALID

VRNDx  == {2, 10}                  \* VRNDP, VRNDN: VS is an immediate
VMACQx == {11, 29}                 \* VMACQ, VSAR: only a destination
VZEROx == {18} \cup (22..28) \cup {30, 31, 46, 47} \cup (56..62)
VADDx  == {16, 17, 19, 20, 21}     \* VADD VSUB VABS VADDC VSUBC: VCO
VLTx   == (32..35) \cup {39}       \* VLT VEQ VNE VGE VMRG: VCO, VCC
VCLx   == 36..38                   \* VCL VCH VCR: VCO, VCC, VCE
VRCPx  == 48..54                   \* VRCP .. VRSQH: VS is an element number
VNOP   == 55
VNULL  == 63

(* Mutant of VCRefs: the compares do not declare VCC.                      *)
VCRefs_NoVcc(w) ==
    CASE w.func \in VADDx \cup VLTx -> {VCO}
      [] w.func \in VCLx            -> {VCO, VCC, VCE}
      [] OTHER                      -> {}

VCRefs(w) ==
    CASE w.func \in VADDx -> {VCO}
      [] w.func \in VLTx  -> {VCO, VCC}
      [] w.func \in VCLx  -> {VCO, VCC, VCE}
      [] OTHER            -> {}

VOp == [INVALID EXCEPT !.flags = {"Vector"}]

decoderCompute(w) ==
    CASE w.func \in VZEROx \cup {VNULL} -> VOp
      [] w.func = VNOP    -> [VOp EXCEPT !.vfake = {VD(w)}, !.flags = @ \cup {"VNopGroup"}]
      [] w.func \in VMACQx -> [VOp EXCEPT !.vDef = {VD(w)}]
      [] w.func \in VRNDx -> [VOp EXCEPT !.vDef = {VD(w)}, !.vUse = {VT(w)}]
      [] w.func \in VRCPx -> [VOp EXCEPT !.vDef = {VD(w)}, !.vUse = {VT(w)},
                                         !.vfake = {VS(w)}]
      [] OTHER            -> [VOp EXCEPT !.vDef = {VD(w)}, !.vUse = {VS(w), VT(w)},
                                         !.vcUse = VCRefs(w), !.vcDef = VCRefs(w)]

decoderVU(w) == IF w.rs < 16 THEN decoderMove2(w) ELSE decoderCompute(w)

-----------------------------------------------------------------------------
(* Vector loads and stores: the function is the rd field.                  *)

VLoads  == (0..9) \cup {11}     \* LBV .. LFV, LTV; LWV does not exist
VStores == 0..11                \* SBV .. STV
LTV     == 11
STV     == 11

decoderLWC2(w) ==
    IF w.rd \in VLoads
    THEN [INVALID EXCEPT
             !.rUse  = {w.rs},
             !.vDef  = IF w.rd = LTV THEN Group(VT(w)) ELSE {VT(w)},
             !.flags = {"Load"} \cup (IF w.rd = LTV THEN {"VNopGroup"} ELSE {})]
    ELSE INVALID

decoderSWC2(w) ==
    IF w.rd \in VStores
    THEN [INVALID EXCEPT
             !.rUse  = {w.rs},
             !.vUse  = IF w.rd = STV THEN Group(VT(w)) ELSE {VT(w)},
             !.flags = {"Store"}]
    ELSE INVALID

Loads  == {32, 33, 35, 36, 37, 39}    \* LB LH LW LBU LHU LWU
Stores == {40, 41, 43}                \* SB SH SW

decoderEXECUTE(w) ==
    CASE w.op = 0          -> decoderSPECIAL(w)
      [] w.op = 1          -> decoderREGIMM(w)
      [] w.op = 2          -> Branches({}, {})                    \* J
      [] w.op = 3          -> Branches({}, {31})                  \* JAL
      [] w.op \in {4, 5}   -> Branches({w.rs, w.rt}, {})          \* BEQ, BNE
      [] w.op \in {6, 7}   -> Branches({w.rs}, {})                \* BLEZ, BGTZ
      [] w.op \in 8..14    -> Arithmetic({w.rs}, {w.rt})
      [] w.op = 15         -> Arithmetic({}, {w.rt})              \* LUI
      [] w.op = 16         -> decoderSCC(w)
      [] w.op = 18         -> decoderVU(w)
      [] w.op \in Loads    -> [INVALID EXCEPT !.rUse = {w.rs}, !.rDef = {w.rt},
                                              !.flags = {"Load"}]
      [] w.op \in Stores   -> [INVALID EXCEPT !.rUse = {w.rs, w.rt},
                                              !.flags = {"Store"}]
      [] w.op = 50         -> decoderLWC2(w)
      [] w.op = 58         -> decoderSWC2(w)
      [] OTHER             -> INVALID
=============================================================================
