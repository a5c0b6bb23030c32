--------------------------- MODULE DualIssueProofs ---------------------------
(***************************************************************************)
(* The decoder against the interpreter, for every word that IMEM can hold  *)
(* and every two of them.                                                  *)
(***************************************************************************)
EXTENDS DualIssue, TLAPS

(* The vector operations, and the three instructions of the "VNOP group".  *)
IsCompute(w) == w.op = 18 /\ w.rs >= 16
IsVnop(w) == IsCompute(w) /\ w.func = VNOP
IsMtc2(w) == w.op = 18 /\ w.rs = 4
IsLtv(w)  == w.op = 50 /\ w.rd = LTV

(* What the invariants need of the decoding of a word and of its effects:  *)
(* for a documented one the former covers the latter; the flags say which  *)
(* words use the vector unit, and these touch nothing else; and only three *)
(* kinds of word are in the VNOP group.                                    *)
Sound(w, info, effects) ==
    /\ Documented(w) => Covers(info, effects)
    /\ Vector(info) <=> IsCompute(w)
    /\ Vector(info) => /\ effects.rRead = {} /\ effects.rWrite = {}
                       /\ ~effects.dmemRead /\ ~effects.dmemWrite
    /\ "VNopGroup" \in info.flags <=> IsMtc2(w) \/ IsLtv(w) \/ IsVnop(w)
    /\ IsVnop(w) => /\ info.vUse = {} /\ info.vDef = {} /\ info.vcDef = {}
                    /\ info.vcUse = {} /\ info.vfake = {VD(w)}

-----------------------------------------------------------------------------
(* The records that either side builds by EXCEPT, field by field.          *)
Info(d, flags, vfake, rUse, rDef, vUse, vDef, vcUse, vcDef) ==
    /\ d.flags = flags /\ d.vfake = vfake /\ d.rUse = rUse /\ d.rDef = rDef
    /\ d.vUse = vUse /\ d.vDef = vDef /\ d.vcUse = vcUse /\ d.vcDef = vcDef

Touched(t, rRead, rWrite, vRead, vWrite, vcRead, vcWrite, dmemRead, dmemWrite, branches) ==
    /\ t.rRead = rRead /\ t.rWrite = rWrite /\ t.vRead = vRead /\ t.vWrite = vWrite
    /\ t.vcRead = vcRead /\ t.vcWrite = vcWrite
    /\ t.dmemRead = dmemRead /\ t.dmemWrite = dmemWrite /\ t.branches = branches

LEMMA InfoRecords ==
    /\ Info(INVALID, {}, {}, {}, {}, {}, {}, {}, {})
    /\ \A use, def :
          /\ Info(Arithmetic(use, def), {"Bypass"}, {}, use, def, {}, {}, {}, {})
          /\ Info(Branches(use, def), {"Branch"} \cup (IF def = {} THEN {} ELSE {"Bypass"}),
                  {}, use, def, {}, {}, {}, {})
BY DEF INVALID, Arithmetic, Branches, Info

LEMMA MoveRecord == Info(Move, {"Load", "Store"}, {}, {}, {}, {}, {}, {}, {})
BY DEF INVALID, Move, Info

LEMMA VOpRecord == Info(VOp, {"Vector"}, {}, {}, {}, {}, {}, {}, {})
BY DEF INVALID, VOp, Info

LEMMA ScalarRecords ==
    /\ Touched(NoEffect, {}, {}, {}, {}, {}, {}, FALSE, FALSE, FALSE)
    /\ \A reads, writes :
          /\ Touched(Scalar(reads, writes), reads, writes, {}, {}, {}, {}, FALSE, FALSE, FALSE)
          /\ Touched(Control(reads, writes), reads, writes, {}, {}, {}, {}, FALSE, FALSE, TRUE)
BY DEF NoEffect, Scalar, Control, Touched

LEMMA LaneRecords ==
    /\ \A w, reads :
          Touched(Lanes(reads, w), {}, {}, reads, {VD(w)}, {}, {}, FALSE, FALSE, FALSE)
    /\ \A w, reads, writes :
          Touched(UsesControl(w, reads, writes), {}, {}, {VS(w), VT(w)}, {VD(w)},
                  reads, writes, FALSE, FALSE, FALSE)
BY DEF NoEffect, Lanes, UsesControl, TwoSources, Touched

-----------------------------------------------------------------------------
(* The switches.  Each case lists the guards that do not hold, what either *)
(* side is then, and why the two are sound.                                *)

(* ALU operations and register jumps; the rest is undocumented.            *)
LEMMA SpecialSound ==
    ASSUME NEW w \in Word, w.op = 0
    PROVE  Sound(w, decoderSPECIAL(w), interpreterSPECIAL(w))
<1>. USE DEF Sound, Documented, Covers, Load, Store, Branch, Vector,
             IsCompute, IsMtc2, IsLtv, IsVnop
<1>1. CASE w.func \in {0, 2, 3}
  <2>1. /\ w.func \notin {4, 6, 7}
        /\ w.func # 8
        /\ w.func # 9
        /\ w.func # 13
        /\ w.func \notin (32..39) \cup {42, 43}
      BY <1>1 DEF Word
  <2>2. /\ decoderSPECIAL(w) = Arithmetic({w.rt}, {w.rd})
        /\ interpreterSPECIAL(w) = Scalar({w.rt}, {w.rd})
      BY <1>1, <2>1, Zenon DEF decoderSPECIAL, interpreterSPECIAL
  <2>. QED BY <1>1, <2>1, <2>2, InfoRecords, ScalarRecords DEF Word, Info, Touched
<1>2. CASE w.func \in {4, 6, 7}
  <2>1. /\ w.func \notin {0, 2, 3}
        /\ w.func # 8
        /\ w.func # 9
        /\ w.func # 13
        /\ w.func \notin (32..39) \cup {42, 43}
      BY <1>2 DEF Word
  <2>2. /\ decoderSPECIAL(w) = Arithmetic({w.rt, w.rs}, {w.rd})
        /\ interpreterSPECIAL(w) = Scalar({w.rs, w.rt}, {w.rd})
      BY <1>2, <2>1, Zenon DEF decoderSPECIAL, interpreterSPECIAL
  <2>. QED BY <1>2, <2>1, <2>2, InfoRecords, ScalarRecords DEF Word, Info, Touched
<1>3. CASE w.func = 8
  <2>1. /\ w.func \notin {0, 2, 3}
        /\ w.func \notin {4, 6, 7}
        /\ w.func # 9
        /\ w.func # 13
        /\ w.func \notin (32..39) \cup {42, 43}
      BY <1>3 DEF Word
  <2>2. /\ decoderSPECIAL(w) = Branches({w.rs}, {})
        /\ interpreterSPECIAL(w) = Control({w.rs}, {})
      BY <1>3, <2>1, Zenon DEF decoderSPECIAL, interpreterSPECIAL
  <2>. QED BY <1>3, <2>1, <2>2, InfoRecords, ScalarRecords DEF Word, Info, Touched
<1>4. CASE w.func = 9
  <2>1. /\ w.func \notin {0, 2, 3}
        /\ w.func \notin {4, 6, 7}
        /\ w.func # 8
        /\ w.func # 13
        /\ w.func \notin (32..39) \cup {42, 43}
      BY <1>4 DEF Word
  <2>2. /\ decoderSPECIAL(w) = Branches({w.rs}, {w.rd})
        /\ interpreterSPECIAL(w) = Control({w.rs}, {w.rd})
      BY <1>4, <2>1, Zenon DEF decoderSPECIAL, interpreterSPECIAL
  <2>. QED BY <1>4, <2>1, <2>2, InfoRecords, ScalarRecords DEF Word, Info, Touched
<1>5. CASE w.func = 13
  <2>1. /\ w.func \notin {0, 2, 3}
        /\ w.func \notin {4, 6, 7}
        /\ w.func # 8
        /\ w.func # 9
        /\ w.func \notin (32..39) \cup {42, 43}
      BY <1>5 DEF Word
  <2>2. /\ decoderSPECIAL(w) = Branches({}, {})
        /\ interpreterSPECIAL(w) = Control({}, {})
      BY <1>5, <2>1, Zenon DEF decoderSPECIAL, interpreterSPECIAL
  <2>. QED BY <1>5, <2>1, <2>2, InfoRecords, ScalarRecords DEF Word, Info, Touched
<1>6. CASE w.func \in (32..39) \cup {42, 43}
  <2>1. /\ w.func \notin {0, 2, 3}
        /\ w.func \notin {4, 6, 7}
        /\ w.func # 8
        /\ w.func # 9
        /\ w.func # 13
      BY <1>6 DEF Word
  <2>2. /\ decoderSPECIAL(w) = Arithmetic({w.rs, w.rt}, {w.rd})
        /\ interpreterSPECIAL(w) = Scalar({w.rs, w.rt}, {w.rd})
      BY <1>6, <2>1, Zenon DEF decoderSPECIAL, interpreterSPECIAL
  <2>. QED BY <1>6, <2>1, <2>2, InfoRecords, ScalarRecords DEF Word, Info, Touched
<1>7. CASE w.func \notin {0, 2, 3} \cup {4, 6, 7} \cup {8, 9, 13} \cup (32..39) \cup {42, 43}
  <2>1. /\ w.func \notin {0, 2, 3}
        /\ w.func \notin {4, 6, 7}
        /\ w.func # 8
        /\ w.func # 9
        /\ w.func # 13
        /\ w.func \notin (32..39) \cup {42, 43}
      BY <1>7 DEF Word
  <2>2. /\ decoderSPECIAL(w) = INVALID
        /\ interpreterSPECIAL(w) = Scalar({w.rs}, {w.rd})
      BY <1>7, <2>1, Zenon DEF decoderSPECIAL, interpreterSPECIAL
  <2>. QED BY <1>7, <2>1, <2>2, InfoRecords, ScalarRecords DEF Word, Info, Touched
<1>. QED BY <1>1, <1>2, <1>3, <1>4, <1>5, <1>6, <1>7

(* Branches on the sign of a register.                                     *)
LEMMA RegimmSound ==
    ASSUME NEW w \in Word, w.op = 1
    PROVE  Sound(w, decoderREGIMM(w), interpreterREGIMM(w))
<1>. USE DEF Sound, Documented, Covers, Load, Store, Branch, Vector,
             IsCompute, IsMtc2, IsLtv, IsVnop
<1>1. CASE w.rt \in {0, 1}
  <2>1. /\ w.rt \notin {16, 17}
      BY <1>1 DEF Word
  <2>2. /\ decoderREGIMM(w) = Branches({w.rs}, {})
        /\ interpreterREGIMM(w) = Control({w.rs}, {})
      BY <1>1, <2>1, Zenon DEF decoderREGIMM, interpreterREGIMM
  <2>. QED BY <1>1, <2>1, <2>2, InfoRecords, ScalarRecords DEF Word, Info, Touched
<1>2. CASE w.rt \in {16, 17}
  <2>1. /\ w.rt \notin {0, 1}
      BY <1>2 DEF Word
  <2>2. /\ decoderREGIMM(w) = Branches({w.rs}, {31})
        /\ interpreterREGIMM(w) = Control({w.rs}, {31})
      BY <1>2, <2>1, Zenon DEF decoderREGIMM, interpreterREGIMM
  <2>. QED BY <1>2, <2>1, <2>2, InfoRecords, ScalarRecords DEF Word, Info, Touched
<1>3. CASE w.rt \notin {0, 1, 16, 17}
  <2>1. /\ w.rt \notin {0, 1}
        /\ w.rt \notin {16, 17}
      BY <1>3 DEF Word
  <2>2. /\ decoderREGIMM(w) = INVALID
        /\ interpreterREGIMM(w) = NoEffect
      BY <1>3, <2>1, Zenon DEF decoderREGIMM, interpreterREGIMM
  <2>. QED BY <1>3, <2>1, <2>2, InfoRecords, ScalarRecords DEF Word, Info, Touched
<1>. QED BY <1>1, <1>2, <1>3

(* The registers of the unit SP and of the RDP: the decoder declares the    *)
(* moves of either.                                                        *)
LEMMA SccSound ==
    ASSUME NEW w \in Word, w.op = 16
    PROVE  Sound(w, decoderSCC(w), interpreterSCC(w))
<1>. USE DEF Sound, Documented, Covers, Load, Store, Branch, Vector,
             IsCompute, IsMtc2, IsLtv, IsVnop
<1>1. CASE w.rs = 0
  <2>0. w.rs # 4
      BY <1>1
  <2>1. decoderSCC(w) = [Move EXCEPT !.rDef = {w.rt}]
      BY <1>1, <2>0, Zenon DEF decoderSCC
  <2>2. interpreterSCC(w) \in {Scalar({}, {w.rt}), NoEffect}
      BY <1>1, <2>0, Zenon DEF interpreterSCC
  <2>. QED BY <1>1, <2>1, <2>2, MoveRecord, ScalarRecords DEF Info, Touched
<1>2. CASE w.rs = 4
  <2>0. w.rs # 0
      BY <1>2
  <2>1. decoderSCC(w) = [Move EXCEPT !.rUse = {w.rt}]
      BY <1>2, <2>0, Zenon DEF decoderSCC
  <2>2. interpreterSCC(w) \in {Scalar({w.rt}, {}), NoEffect}
      BY <1>2, <2>0, Zenon DEF interpreterSCC
  <2>. QED BY <1>2, <2>1, <2>2, MoveRecord, ScalarRecords DEF Info, Touched
<1>3. CASE w.rs # 0 /\ w.rs # 4
  <2>1. decoderSCC(w) = INVALID /\ interpreterSCC(w) = NoEffect
      BY <1>3, Zenon DEF decoderSCC, interpreterSCC
  <2>. QED BY <1>3, <2>1, InfoRecords, ScalarRecords DEF Info, Touched
<1>. QED BY <1>1, <1>2, <1>3

(* The moves between the scalar and the vector unit.                       *)
LEMMA MoveSound ==
    ASSUME NEW w \in Word, w.op = 18, w.rs < 16
    PROVE  Sound(w, decoderVU(w), interpreterVU(w))
<1>. USE DEF Sound, Documented, Covers, Load, Store, Branch, Vector,
             IsCompute, IsMtc2, IsLtv, IsVnop
<1>0. ~(w.rs >= 16) /\ decoderVU(w) = decoderMove2(w)
  BY DEF decoderVU, Word
<1>a. Documented(w) => (w.rs \in {2, 6} => ControlRegister(w.rd) = w.rd % 4)
  BY DEF ControlRegister, Word
<1>1. CASE w.rs = 0
  <2>1. w.rs # 2 /\ w.rs # 4 /\ w.rs # 6
      BY <1>1
  <2>2. /\ decoderMove2(w) = [Move EXCEPT !.rDef = {w.rt}, !.vUse = {VS(w)}]
        /\ interpreterVU(w) = MFC2(w)
      BY <1>1, <1>0, <2>1, Zenon DEF decoderMove2, interpreterVU
  <2>. QED BY <1>0, <1>a, <1>1, <2>1, <2>2, MoveRecord, ScalarRecords
           DEF Info, Touched, MFC2
<1>2. CASE w.rs = 2
  <2>1. w.rs # 0 /\ w.rs # 4 /\ w.rs # 6
      BY <1>2
  <2>2. /\ decoderMove2(w) = [Move EXCEPT !.rDef = {w.rt}, !.vcUse = {w.rd % 4}]
        /\ interpreterVU(w) = CFC2(w)
      BY <1>2, <1>0, <2>1, Zenon DEF decoderMove2, interpreterVU
  <2>. QED BY <1>0, <1>a, <1>2, <2>1, <2>2, MoveRecord, ScalarRecords
           DEF Info, Touched, CFC2
<1>3. CASE w.rs = 4
  <2>1. w.rs # 0 /\ w.rs # 2 /\ w.rs # 6
      BY <1>3
  <2>2. /\ decoderMove2(w) = [Move EXCEPT !.rUse = {w.rt}, !.vDef = {VS(w)},
                                  !.flags = @ \cup {"VNopGroup"}]
        /\ interpreterVU(w) = MTC2(w)
      BY <1>3, <1>0, <2>1, Zenon DEF decoderMove2, interpreterVU
  <2>. QED BY <1>0, <1>a, <1>3, <2>1, <2>2, MoveRecord, ScalarRecords
           DEF Info, Touched, MTC2
<1>4. CASE w.rs = 6
  <2>1. w.rs # 0 /\ w.rs # 2 /\ w.rs # 4
      BY <1>4
  <2>2. /\ decoderMove2(w) = [Move EXCEPT !.rUse = {w.rt}, !.vcDef = {w.rd % 4}]
        /\ interpreterVU(w) = CTC2(w)
      BY <1>4, <1>0, <2>1, Zenon DEF decoderMove2, interpreterVU
  <2>. QED BY <1>0, <1>a, <1>4, <2>1, <2>2, MoveRecord, ScalarRecords
           DEF Info, Touched, CTC2
<1>5. CASE w.rs \notin {0, 2, 4, 6}
  <2>1. w.rs # 0 /\ w.rs # 2 /\ w.rs # 4 /\ w.rs # 6
      BY <1>5
  <2>2. decoderMove2(w) = INVALID /\ interpreterVU(w) = NoEffect
      BY <1>0, <2>1, Zenon DEF decoderMove2, interpreterVU
  <2>. QED BY <1>0, <2>1, <2>2, InfoRecords, ScalarRecords DEF Info, Touched
<1>. QED BY <1>1, <1>2, <1>3, <1>4, <1>5

(* The computational operations: the decoder groups them by the registers  *)
(* that it declares, the interpreter by their bodies.                      *)
LEMMA ComputeSound ==
    ASSUME NEW w \in Word, w.op = 18, w.rs >= 16
    PROVE  Sound(w, decoderVU(w), interpreterVU(w))
<1>. USE DEF Sound, Documented, Covers, Load, Store, Branch, Vector,
             IsCompute, IsMtc2, IsLtv, IsVnop
<1>0. /\ decoderVU(w) = decoderCompute(w) /\ interpreterVU(w) = Compute(w)
  <2>1. ~(w.rs < 16) /\ w.rs # 0 /\ w.rs # 2 /\ w.rs # 4 /\ w.rs # 6
      BY DEF Word
  <2>. QED BY <2>1, Zenon DEF decoderVU, interpreterVU
<1>1. CASE w.func = 55
  <2>1. /\ w.func \notin VZEROx \cup {VNULL} /\ w.func = VNOP
        /\ w.func \notin VMACQx /\ w.func \notin VRNDx /\ w.func \notin VRCPx
        /\ w.func \in {55, 63} /\ w.func \notin {11, 29} /\ w.func \notin {2, 10} \cup (48..54)
        /\ w.func \notin {16, 17} /\ w.func \notin {20, 21} /\ w.func \notin 32..35
        /\ w.func \notin 36..38 /\ w.func # 39
      BY <1>1 DEF Word, VZEROx, VNULL, VNOP, VMACQx, VRNDx, VRCPx, VADDx, VLTx, VCLx
  <2>2. decoderCompute(w) = [VOp EXCEPT !.vfake = {VD(w)}, !.flags = @ \cup {"VNopGroup"}]
      BY <2>1, Zenon DEF decoderCompute
  <2>3. Compute(w) = NoEffect
      BY <2>1, Zenon DEF Compute
  <2>. QED BY <1>0, <1>1, <2>1, <2>2, <2>3, VOpRecord, ScalarRecords
           DEF Info, Touched, VNOP, VNULL, VZEROx, VMACQx
<1>2. CASE w.func = 63
  <2>1. /\ w.func \in VZEROx \cup {VNULL} /\ w.func # VNOP
        /\ w.func \notin VMACQx /\ w.func \notin VRNDx /\ w.func \notin VRCPx
        /\ w.func \in {55, 63} /\ w.func \notin {11, 29} /\ w.func \notin {2, 10} \cup (48..54)
        /\ w.func \notin {16, 17} /\ w.func \notin {20, 21} /\ w.func \notin 32..35
        /\ w.func \notin 36..38 /\ w.func # 39
      BY <1>2 DEF Word, VZEROx, VNULL, VNOP, VMACQx, VRNDx, VRCPx, VADDx, VLTx, VCLx
  <2>2. decoderCompute(w) = VOp
      BY <2>1, Zenon DEF decoderCompute
  <2>3. Compute(w) = NoEffect
      BY <2>1, Zenon DEF Compute
  <2>. QED BY <1>0, <1>2, <2>1, <2>2, <2>3, VOpRecord, ScalarRecords
           DEF Info, Touched, VNOP, VNULL, VZEROx, VMACQx
<1>3. CASE w.func \in VZEROx
  <2>1. /\ w.func \in VZEROx \cup {VNULL} /\ w.func # VNOP
        /\ w.func \notin VMACQx /\ w.func \notin VRNDx /\ w.func \notin VRCPx
        /\ w.func \notin {55, 63} /\ w.func \notin {11, 29} /\ w.func \notin {2, 10} \cup (48..54)
        /\ w.func \notin {16, 17} /\ w.func \notin {20, 21} /\ w.func \notin 32..35
        /\ w.func \notin 36..38 /\ w.func # 39
      BY <1>3 DEF Word, VZEROx, VNULL, VNOP, VMACQx, VRNDx, VRCPx, VADDx, VLTx, VCLx
  <2>2. decoderCompute(w) = VOp
      BY <2>1, Zenon DEF decoderCompute
  <2>3. Compute(w) = TwoSources(w)
      BY <2>1, Zenon DEF Compute
  <2>. QED BY <1>0, <1>3, <2>1, <2>2, <2>3, VOpRecord, LaneRecords
           DEF Info, Touched, VNOP, VNULL, VZEROx, VMACQx, TwoSources
<1>4. CASE w.func \in {11, 29}
  <2>1. /\ w.func \notin VZEROx \cup {VNULL} /\ w.func # VNOP
        /\ w.func \in VMACQx /\ w.func \notin VRNDx /\ w.func \notin VRCPx
        /\ w.func \notin {55, 63} /\ w.func \in {11, 29} /\ w.func \notin {2, 10} \cup (48..54)
        /\ w.func \notin {16, 17} /\ w.func \notin {20, 21} /\ w.func \notin 32..35
        /\ w.func \notin 36..38 /\ w.func # 39
      BY <1>4 DEF Word, VZEROx, VNULL, VNOP, VMACQx, VRNDx, VRCPx, VADDx, VLTx, VCLx
  <2>2. decoderCompute(w) = [VOp EXCEPT !.vDef = {VD(w)}]
      BY <2>1, Zenon DEF decoderCompute
  <2>3. Compute(w) = NoSource(w)
      BY <2>1, Zenon DEF Compute
  <2>. QED BY <1>0, <1>4, <2>1, <2>2, <2>3, VOpRecord, LaneRecords
           DEF Info, Touched, VNOP, VNULL, VZEROx, VMACQx, NoSource
<1>5. CASE w.func \in {2, 10}
  <2>1. /\ w.func \notin VZEROx \cup {VNULL} /\ w.func # VNOP
        /\ w.func \notin VMACQx /\ w.func \in VRNDx /\ w.func \notin VRCPx
        /\ w.func \notin {55, 63} /\ w.func \notin {11, 29} /\ w.func \in {2, 10} \cup (48..54)
        /\ w.func \notin {16, 17} /\ w.func \notin {20, 21} /\ w.func \notin 32..35
        /\ w.func \notin 36..38 /\ w.func # 39
      BY <1>5 DEF Word, VZEROx, VNULL, VNOP, VMACQx, VRNDx, VRCPx, VADDx, VLTx, VCLx
  <2>2. decoderCompute(w) = [VOp EXCEPT !.vDef = {VD(w)}, !.vUse = {VT(w)}]
      BY <2>1, Zenon DEF decoderCompute
  <2>3. Compute(w) = OneSource(w)
      BY <2>1, Zenon DEF Compute
  <2>. QED BY <1>0, <1>5, <2>1, <2>2, <2>3, VOpRecord, LaneRecords
           DEF Info, Touched, VNOP, VNULL, VZEROx, VMACQx, OneSource
<1>6. CASE w.func \in 48..54
  <2>1. /\ w.func \notin VZEROx \cup {VNULL} /\ w.func # VNOP
        /\ w.func \notin VMACQx /\ w.func \notin VRNDx /\ w.func \in VRCPx
        /\ w.func \notin {55, 63} /\ w.func \notin {11, 29} /\ w.func \in {2, 10} \cup (48..54)
        /\ w.func \notin {16, 17} /\ w.func \notin {20, 21} /\ w.func \notin 32..35
        /\ w.func \notin 36..38 /\ w.func # 39
      BY <1>6 DEF Word, VZEROx, VNULL, VNOP, VMACQx, VRNDx, VRCPx, VADDx, VLTx, VCLx
  <2>2. decoderCompute(w) = [VOp EXCEPT !.vDef = {VD(w)}, !.vUse = {VT(w)},
                                     !.vfake = {VS(w)}]
      BY <2>1, Zenon DEF decoderCompute
  <2>3. Compute(w) = OneSource(w)
      BY <2>1, Zenon DEF Compute
  <2>. QED BY <1>0, <1>6, <2>1, <2>2, <2>3, VOpRecord, LaneRecords
           DEF Info, Touched, VNOP, VNULL, VZEROx, VMACQx, OneSource
<1>7. CASE w.func \in {16, 17}
  <2>1. /\ w.func \notin VZEROx \cup {VNULL} /\ w.func # VNOP
        /\ w.func \notin VMACQx /\ w.func \notin VRNDx /\ w.func \notin VRCPx
        /\ w.func \in VADDx /\ w.func \notin VLTx /\ w.func \notin VCLx
        /\ w.func \notin {55, 63} /\ w.func \notin {11, 29} /\ w.func \notin {2, 10} \cup (48..54)
        /\ w.func \in {16, 17} /\ w.func \notin {20, 21} /\ w.func \notin 32..35
        /\ w.func \notin 36..38 /\ w.func # 39
      BY <1>7 DEF Word, VZEROx, VNULL, VNOP, VMACQx, VRNDx, VRCPx, VADDx, VLTx, VCLx
  <2>2. decoderCompute(w) = [VOp EXCEPT !.vDef = {VD(w)}, !.vUse = {VS(w), VT(w)},
                                     !.vcUse = VCRefs(w), !.vcDef = VCRefs(w)]
      BY <2>1, Zenon DEF decoderCompute
  <2>3. Compute(w) = Sum(w)
      BY <2>1, Zenon DEF Compute
  <2>4. VCRefs(w) = {VCO}
      BY <2>1, Zenon DEF VCRefs
  <2>. QED BY <1>0, <1>7, <2>1, <2>2, <2>3, <2>4, VOpRecord, LaneRecords
           DEF Info, Touched, VNOP, VNULL, VZEROx, VMACQx, Sum
<1>8. CASE w.func = 19
  <2>1. /\ w.func \notin VZEROx \cup {VNULL} /\ w.func # VNOP
        /\ w.func \notin VMACQx /\ w.func \notin VRNDx /\ w.func \notin VRCPx
        /\ w.func \in VADDx /\ w.func \notin VLTx /\ w.func \notin VCLx
        /\ w.func \notin {55, 63} /\ w.func \notin {11, 29} /\ w.func \notin {2, 10} \cup (48..54)
        /\ w.func \notin {16, 17} /\ w.func \notin {20, 21} /\ w.func \notin 32..35
        /\ w.func \notin 36..38 /\ w.func # 39
      BY <1>8 DEF Word, VZEROx, VNULL, VNOP, VMACQx, VRNDx, VRCPx, VADDx, VLTx, VCLx
  <2>2. decoderCompute(w) = [VOp EXCEPT !.vDef = {VD(w)}, !.vUse = {VS(w), VT(w)},
                                     !.vcUse = VCRefs(w), !.vcDef = VCRefs(w)]
      BY <2>1, Zenon DEF decoderCompute
  <2>3. Compute(w) = TwoSources(w)
      BY <2>1, Zenon DEF Compute
  <2>4. VCRefs(w) = {VCO}
      BY <2>1, Zenon DEF VCRefs
  <2>. QED BY <1>0, <1>8, <2>1, <2>2, <2>3, <2>4, VOpRecord, LaneRecords
           DEF Info, Touched, VNOP, VNULL, VZEROx, VMACQx, TwoSources
<1>9. CASE w.func \in {20, 21}
  <2>1. /\ w.func \notin VZEROx \cup {VNULL} /\ w.func # VNOP
        /\ w.func \notin VMACQx /\ w.func \notin VRNDx /\ w.func \notin VRCPx
        /\ w.func \in VADDx /\ w.func \notin VLTx /\ w.func \notin VCLx
        /\ w.func \notin {55, 63} /\ w.func \notin {11, 29} /\ w.func \notin {2, 10} \cup (48..54)
        /\ w.func \notin {16, 17} /\ w.func \in {20, 21} /\ w.func \notin 32..35
        /\ w.func \notin 36..38 /\ w.func # 39
      BY <1>9 DEF Word, VZEROx, VNULL, VNOP, VMACQx, VRNDx, VRCPx, VADDx, VLTx, VCLx
  <2>2. decoderCompute(w) = [VOp EXCEPT !.vDef = {VD(w)}, !.vUse = {VS(w), VT(w)},
                                     !.vcUse = VCRefs(w), !.vcDef = VCRefs(w)]
      BY <2>1, Zenon DEF decoderCompute
  <2>3. Compute(w) = CarrySum(w)
      BY <2>1, Zenon DEF Compute
  <2>4. VCRefs(w) = {VCO}
      BY <2>1, Zenon DEF VCRefs
  <2>. QED BY <1>0, <1>9, <2>1, <2>2, <2>3, <2>4, VOpRecord, LaneRecords
           DEF Info, Touched, VNOP, VNULL, VZEROx, VMACQx, CarrySum
<1>10. CASE w.func \in 32..35
  <2>1. /\ w.func \notin VZEROx \cup {VNULL} /\ w.func # VNOP
        /\ w.func \notin VMACQx /\ w.func \notin VRNDx /\ w.func \notin VRCPx
        /\ w.func \notin VADDx /\ w.func \in VLTx /\ w.func \notin VCLx
        /\ w.func \notin {55, 63} /\ w.func \notin {11, 29} /\ w.func \notin {2, 10} \cup (48..54)
        /\ w.func \notin {16, 17} /\ w.func \notin {20, 21} /\ w.func \in 32..35
        /\ w.func \notin 36..38 /\ w.func # 39
      BY <1>10 DEF Word, VZEROx, VNULL, VNOP, VMACQx, VRNDx, VRCPx, VADDx, VLTx, VCLx
  <2>2. decoderCompute(w) = [VOp EXCEPT !.vDef = {VD(w)}, !.vUse = {VS(w), VT(w)},
                                     !.vcUse = VCRefs(w), !.vcDef = VCRefs(w)]
      BY <2>1, Zenon DEF decoderCompute
  <2>3. Compute(w) = Compare(w)
      BY <2>1, Zenon DEF Compute
  <2>4. VCRefs(w) = {VCO, VCC}
      BY <2>1, Zenon DEF VCRefs
  <2>. QED BY <1>0, <1>10, <2>1, <2>2, <2>3, <2>4, VOpRecord, LaneRecords
           DEF Info, Touched, VNOP, VNULL, VZEROx, VMACQx, Compare
<1>11. CASE w.func = 39
  <2>1. /\ w.func \notin VZEROx \cup {VNULL} /\ w.func # VNOP
        /\ w.func \notin VMACQx /\ w.func \notin VRNDx /\ w.func \notin VRCPx
        /\ w.func \notin VADDx /\ w.func \in VLTx /\ w.func \notin VCLx
        /\ w.func \notin {55, 63} /\ w.func \notin {11, 29} /\ w.func \notin {2, 10} \cup (48..54)
        /\ w.func \notin {16, 17} /\ w.func \notin {20, 21} /\ w.func \notin 32..35
        /\ w.func \notin 36..38 /\ w.func = 39
      BY <1>11 DEF Word, VZEROx, VNULL, VNOP, VMACQx, VRNDx, VRCPx, VADDx, VLTx, VCLx
  <2>2. decoderCompute(w) = [VOp EXCEPT !.vDef = {VD(w)}, !.vUse = {VS(w), VT(w)},
                                     !.vcUse = VCRefs(w), !.vcDef = VCRefs(w)]
      BY <2>1, Zenon DEF decoderCompute
  <2>3. Compute(w) = Merge(w)
      BY <2>1, Zenon DEF Compute
  <2>4. VCRefs(w) = {VCO, VCC}
      BY <2>1, Zenon DEF VCRefs
  <2>. QED BY <1>0, <1>11, <2>1, <2>2, <2>3, <2>4, VOpRecord, LaneRecords
           DEF Info, Touched, VNOP, VNULL, VZEROx, VMACQx, Merge
<1>12. CASE w.func \in 36..38
  <2>1. /\ w.func \notin VZEROx \cup {VNULL} /\ w.func # VNOP
        /\ w.func \notin VMACQx /\ w.func \notin VRNDx /\ w.func \notin VRCPx
        /\ w.func \notin VADDx /\ w.func \notin VLTx /\ w.func \in VCLx
        /\ w.func \notin {55, 63} /\ w.func \notin {11, 29} /\ w.func \notin {2, 10} \cup (48..54)
        /\ w.func \notin {16, 17} /\ w.func \notin {20, 21} /\ w.func \notin 32..35
        /\ w.func \in 36..38 /\ w.func # 39
      BY <1>12 DEF Word, VZEROx, VNULL, VNOP, VMACQx, VRNDx, VRCPx, VADDx, VLTx, VCLx
  <2>2. decoderCompute(w) = [VOp EXCEPT !.vDef = {VD(w)}, !.vUse = {VS(w), VT(w)},
                                     !.vcUse = VCRefs(w), !.vcDef = VCRefs(w)]
      BY <2>1, Zenon DEF decoderCompute
  <2>3. Compute(w) = Clip(w)
      BY <2>1, Zenon DEF Compute
  <2>4. VCRefs(w) = {VCO, VCC, VCE}
      BY <2>1, Zenon DEF VCRefs
  <2>. QED BY <1>0, <1>12, <2>1, <2>2, <2>3, <2>4, VOpRecord, LaneRecords
           DEF Info, Touched, VNOP, VNULL, VZEROx, VMACQx, Clip
<1>13. CASE w.func \notin VZEROx \cup {2, 10, 11, 16, 17, 19, 20, 21, 29, 55, 63}
                               \cup (32..39) \cup (48..54)
  <2>1. /\ w.func \notin VZEROx \cup {VNULL} /\ w.func # VNOP
        /\ w.func \notin VMACQx /\ w.func \notin VRNDx /\ w.func \notin VRCPx
        /\ w.func \notin VADDx /\ w.func \notin VLTx /\ w.func \notin VCLx
        /\ w.func \notin {55, 63} /\ w.func \notin {11, 29} /\ w.func \notin {2, 10} \cup (48..54)
        /\ w.func \notin {16, 17} /\ w.func \notin {20, 21} /\ w.func \notin 32..35
        /\ w.func \notin 36..38 /\ w.func # 39
      BY <1>13 DEF Word, VZEROx, VNULL, VNOP, VMACQx, VRNDx, VRCPx, VADDx, VLTx, VCLx
  <2>2. decoderCompute(w) = [VOp EXCEPT !.vDef = {VD(w)}, !.vUse = {VS(w), VT(w)},
                                     !.vcUse = VCRefs(w), !.vcDef = VCRefs(w)]
      BY <2>1, Zenon DEF decoderCompute
  <2>3. Compute(w) = TwoSources(w)
      BY <2>1, Zenon DEF Compute
  <2>4. VCRefs(w) = {}
      BY <2>1, Zenon DEF VCRefs
  <2>. QED BY <1>0, <1>13, <2>1, <2>2, <2>3, <2>4, VOpRecord, LaneRecords
           DEF Info, Touched, VNOP, VNULL, VZEROx, VMACQx, TwoSources
<1>. QED BY <1>1, <1>2, <1>3, <1>4, <1>5, <1>6, <1>7, <1>8, <1>9, <1>10, <1>11, <1>12, <1>13

(* The vector loads and stores.                                            *)
LEMMA VectorLoadSound ==
    ASSUME NEW w \in Word, w.op = 50
    PROVE  Sound(w, decoderLWC2(w), interpreterLWC2(w))
<1>. USE DEF Sound, Documented, Covers, Load, Store, Branch, Vector,
             IsCompute, IsMtc2, IsLtv, IsVnop
<1>1. CASE w.rd \in 0..9
  <2>1. w.rd \in VLoads /\ w.rd # LTV
      BY <1>1 DEF VLoads, LTV
  <2>2. interpreterLWC2(w) = VectorLoad(w)
      BY <1>1, <2>1, Zenon DEF interpreterLWC2, LTV
  <2>. QED BY <2>1, <2>2, InfoRecords, ScalarRecords
           DEF decoderLWC2, VectorLoad, Info, Touched
<1>2. CASE w.rd = LTV
  <2>1. w.rd \in VLoads /\ w.rd \notin 0..9 /\ w.rd = 11
      BY <1>2 DEF VLoads, LTV
  <2>2. interpreterLWC2(w) = TransposedLoad(w)
      BY <2>1, Zenon DEF interpreterLWC2
  <2>. QED BY <1>2, <2>1, <2>2, InfoRecords, ScalarRecords
           DEF decoderLWC2, TransposedLoad, Info, Touched
<1>3. CASE w.rd \notin 0..9 /\ w.rd # LTV
  <2>1. w.rd \notin VLoads /\ w.rd # 11
      BY <1>3 DEF VLoads, LTV
  <2>2. interpreterLWC2(w) = NoEffect
      BY <1>3, <2>1, Zenon DEF interpreterLWC2
  <2>. QED BY <1>3, <2>1, <2>2, InfoRecords, ScalarRecords DEF decoderLWC2, Info, Touched
<1>. QED BY <1>1, <1>2, <1>3

LEMMA VectorStoreSound ==
    ASSUME NEW w \in Word, w.op = 58
    PROVE  Sound(w, decoderSWC2(w), interpreterSWC2(w))
<1>. USE DEF Sound, Documented, Covers, Load, Store, Branch, Vector,
             IsCompute, IsMtc2, IsLtv, IsVnop
<1>1. CASE w.rd \in 0..10
  <2>1. w.rd \in VStores /\ w.rd # STV
      BY <1>1 DEF VStores, STV
  <2>2. interpreterSWC2(w) = VectorStore(w)
      BY <1>1, <2>1, Zenon DEF interpreterSWC2, STV
  <2>. QED BY <2>1, <2>2, InfoRecords, ScalarRecords
           DEF decoderSWC2, VectorStore, Info, Touched
<1>2. CASE w.rd = STV
  <2>1. w.rd \in VStores /\ w.rd \notin 0..10 /\ w.rd = 11
      BY <1>2 DEF VStores, STV
  <2>2. interpreterSWC2(w) = TransposedStore(w)
      BY <2>1, Zenon DEF interpreterSWC2
  <2>. QED BY <1>2, <2>1, <2>2, InfoRecords, ScalarRecords
           DEF decoderSWC2, TransposedStore, Info, Touched
<1>3. CASE w.rd \notin 0..10 /\ w.rd # STV
  <2>1. w.rd \notin VStores /\ w.rd # 11
      BY <1>3 DEF VStores, STV
  <2>2. interpreterSWC2(w) = NoEffect
      BY <1>3, <2>1, Zenon DEF interpreterSWC2
  <2>. QED BY <1>3, <2>1, <2>2, InfoRecords, ScalarRecords DEF decoderSWC2, Info, Touched
<1>. QED BY <1>1, <1>2, <1>3

-----------------------------------------------------------------------------
(* The switch over the primary opcode, which both sides share.             *)
LEMMA WordSound ==
    ASSUME NEW w \in Word
    PROVE  Sound(w, decoderEXECUTE(w), interpreterEXECUTE(w))
<1>1. CASE w.op = 0
  <2>1. /\ w.op # 1 /\ w.op # 2 /\ w.op # 3 /\ w.op \notin {4, 5} /\ w.op \notin {6, 7}
        /\ w.op \notin 8..14 /\ w.op # 15 /\ w.op # 16 /\ w.op # 18 /\ w.op \notin Loads
        /\ w.op \notin Stores /\ w.op # 50 /\ w.op # 58
      BY <1>1 DEF Loads, Stores
  <2>2. /\ decoderEXECUTE(w) = decoderSPECIAL(w)
        /\ interpreterEXECUTE(w) = interpreterSPECIAL(w)
      BY <1>1, <2>1, Zenon DEF decoderEXECUTE, interpreterEXECUTE, Loads, Stores
  <2>. QED BY <1>1, <2>2, SpecialSound
<1>2. CASE w.op = 1
  <2>1. /\ w.op # 0 /\ w.op # 2 /\ w.op # 3 /\ w.op \notin {4, 5} /\ w.op \notin {6, 7}
        /\ w.op \notin 8..14 /\ w.op # 15 /\ w.op # 16 /\ w.op # 18 /\ w.op \notin Loads
        /\ w.op \notin Stores /\ w.op # 50 /\ w.op # 58
      BY <1>2 DEF Loads, Stores
  <2>2. /\ decoderEXECUTE(w) = decoderREGIMM(w)
        /\ interpreterEXECUTE(w) = interpreterREGIMM(w)
      BY <1>2, <2>1, Zenon DEF decoderEXECUTE, interpreterEXECUTE, Loads, Stores
  <2>. QED BY <1>2, <2>2, RegimmSound
<1>3. CASE w.op = 2
  <2>1. /\ w.op # 0 /\ w.op # 1 /\ w.op # 3 /\ w.op \notin {4, 5} /\ w.op \notin {6, 7}
        /\ w.op \notin 8..14 /\ w.op # 15 /\ w.op # 16 /\ w.op # 18 /\ w.op \notin Loads
        /\ w.op \notin Stores /\ w.op # 50 /\ w.op # 58
      BY <1>3 DEF Loads, Stores
  <2>2. /\ decoderEXECUTE(w) = Branches({}, {})
        /\ interpreterEXECUTE(w) = Control({}, {})
      BY <1>3, <2>1, Zenon DEF decoderEXECUTE, interpreterEXECUTE, Loads, Stores
  <2>. QED BY <1>3, <2>1, <2>2, InfoRecords, ScalarRecords
           DEF Sound, Documented, Covers, Load, Store,
           Branch, Vector, IsCompute, IsMtc2, IsLtv, IsVnop, Info, Touched, ScalarLoad, ScalarStore
<1>4. CASE w.op = 3
  <2>1. /\ w.op # 0 /\ w.op # 1 /\ w.op # 2 /\ w.op \notin {4, 5} /\ w.op \notin {6, 7}
        /\ w.op \notin 8..14 /\ w.op # 15 /\ w.op # 16 /\ w.op # 18 /\ w.op \notin Loads
        /\ w.op \notin Stores /\ w.op # 50 /\ w.op # 58
      BY <1>4 DEF Loads, Stores
  <2>2. /\ decoderEXECUTE(w) = Branches({}, {31})
        /\ interpreterEXECUTE(w) = Control({}, {31})
      BY <1>4, <2>1, Zenon DEF decoderEXECUTE, interpreterEXECUTE, Loads, Stores
  <2>. QED BY <1>4, <2>1, <2>2, InfoRecords, ScalarRecords
           DEF Sound, Documented, Covers, Load, Store,
           Branch, Vector, IsCompute, IsMtc2, IsLtv, IsVnop, Info, Touched, ScalarLoad, ScalarStore
<1>5. CASE w.op \in {4, 5}
  <2>1. /\ w.op # 0 /\ w.op # 1 /\ w.op # 2 /\ w.op # 3 /\ w.op \notin {6, 7}
        /\ w.op \notin 8..14 /\ w.op # 15 /\ w.op # 16 /\ w.op # 18 /\ w.op \notin Loads
        /\ w.op \notin Stores /\ w.op # 50 /\ w.op # 58
      BY <1>5 DEF Loads, Stores
  <2>2. /\ decoderEXECUTE(w) = Branches({w.rs, w.rt}, {})
        /\ interpreterEXECUTE(w) = Control({w.rs, w.rt}, {})
      BY <1>5, <2>1, Zenon DEF decoderEXECUTE, interpreterEXECUTE, Loads, Stores
  <2>. QED BY <1>5, <2>1, <2>2, InfoRecords, ScalarRecords
           DEF Sound, Documented, Covers, Load, Store,
           Branch, Vector, IsCompute, IsMtc2, IsLtv, IsVnop, Info, Touched, ScalarLoad, ScalarStore
<1>6. CASE w.op \in {6, 7}
  <2>1. /\ w.op # 0 /\ w.op # 1 /\ w.op # 2 /\ w.op # 3 /\ w.op \notin {4, 5}
        /\ w.op \notin 8..14 /\ w.op # 15 /\ w.op # 16 /\ w.op # 18 /\ w.op \notin Loads
        /\ w.op \notin Stores /\ w.op # 50 /\ w.op # 58
      BY <1>6 DEF Loads, Stores
  <2>2. /\ decoderEXECUTE(w) = Branches({w.rs}, {})
        /\ interpreterEXECUTE(w) = Control({w.rs}, {})
      BY <1>6, <2>1, Zenon DEF decoderEXECUTE, interpreterEXECUTE, Loads, Stores
  <2>. QED BY <1>6, <2>1, <2>2, InfoRecords, ScalarRecords
           DEF Sound, Documented, Covers, Load, Store,
           Branch, Vector, IsCompute, IsMtc2, IsLtv, IsVnop, Info, Touched, ScalarLoad, ScalarStore
<1>7. CASE w.op \in 8..14
  <2>1. /\ w.op # 0 /\ w.op # 1 /\ w.op # 2 /\ w.op # 3 /\ w.op \notin {4, 5}
        /\ w.op \notin {6, 7} /\ w.op # 15 /\ w.op # 16 /\ w.op # 18 /\ w.op \notin Loads
        /\ w.op \notin Stores /\ w.op # 50 /\ w.op # 58
      BY <1>7 DEF Loads, Stores
  <2>2. /\ decoderEXECUTE(w) = Arithmetic({w.rs}, {w.rt})
        /\ interpreterEXECUTE(w) = Scalar({w.rs}, {w.rt})
      BY <1>7, <2>1, Zenon DEF decoderEXECUTE, interpreterEXECUTE, Loads, Stores
  <2>. QED BY <1>7, <2>1, <2>2, InfoRecords, ScalarRecords
           DEF Sound, Documented, Covers, Load, Store,
           Branch, Vector, IsCompute, IsMtc2, IsLtv, IsVnop, Info, Touched, ScalarLoad, ScalarStore
<1>8. CASE w.op = 15
  <2>1. /\ w.op # 0 /\ w.op # 1 /\ w.op # 2 /\ w.op # 3 /\ w.op \notin {4, 5}
        /\ w.op \notin {6, 7} /\ w.op \notin 8..14 /\ w.op # 16 /\ w.op # 18 /\ w.op \notin Loads
        /\ w.op \notin Stores /\ w.op # 50 /\ w.op # 58
      BY <1>8 DEF Loads, Stores
  <2>2. /\ decoderEXECUTE(w) = Arithmetic({}, {w.rt})
        /\ interpreterEXECUTE(w) = Scalar({}, {w.rt})
      BY <1>8, <2>1, Zenon DEF decoderEXECUTE, interpreterEXECUTE, Loads, Stores
  <2>. QED BY <1>8, <2>1, <2>2, InfoRecords, ScalarRecords
           DEF Sound, Documented, Covers, Load, Store,
           Branch, Vector, IsCompute, IsMtc2, IsLtv, IsVnop, Info, Touched, ScalarLoad, ScalarStore
<1>9. CASE w.op = 16
  <2>1. /\ w.op # 0 /\ w.op # 1 /\ w.op # 2 /\ w.op # 3 /\ w.op \notin {4, 5}
        /\ w.op \notin {6, 7} /\ w.op \notin 8..14 /\ w.op # 15 /\ w.op # 18 /\ w.op \notin Loads
        /\ w.op \notin Stores /\ w.op # 50 /\ w.op # 58
      BY <1>9 DEF Loads, Stores
  <2>2. /\ decoderEXECUTE(w) = decoderSCC(w)
        /\ interpreterEXECUTE(w) = interpreterSCC(w)
      BY <1>9, <2>1, Zenon DEF decoderEXECUTE, interpreterEXECUTE, Loads, Stores
  <2>. QED BY <1>9, <2>2, SccSound
<1>10. CASE w.op = 18
  <2>1. /\ w.op # 0 /\ w.op # 1 /\ w.op # 2 /\ w.op # 3 /\ w.op \notin {4, 5}
        /\ w.op \notin {6, 7} /\ w.op \notin 8..14 /\ w.op # 15 /\ w.op # 16 /\ w.op \notin Loads
        /\ w.op \notin Stores /\ w.op # 50 /\ w.op # 58
      BY <1>10 DEF Loads, Stores
  <2>2. /\ decoderEXECUTE(w) = decoderVU(w)
        /\ interpreterEXECUTE(w) = interpreterVU(w)
      BY <1>10, <2>1, Zenon DEF decoderEXECUTE, interpreterEXECUTE, Loads, Stores
  <2>3. w.rs < 16 \/ w.rs >= 16
      BY DEF Word
  <2>. QED BY <1>10, <2>2, <2>3, MoveSound, ComputeSound
<1>11. CASE w.op \in Loads
  <2>1. /\ w.op # 0 /\ w.op # 1 /\ w.op # 2 /\ w.op # 3 /\ w.op \notin {4, 5}
        /\ w.op \notin {6, 7} /\ w.op \notin 8..14 /\ w.op # 15 /\ w.op # 16 /\ w.op # 18
        /\ w.op \notin Stores /\ w.op # 50 /\ w.op # 58
      BY <1>11 DEF Loads, Stores
  <2>2. /\ decoderEXECUTE(w) = [INVALID EXCEPT !.rUse = {w.rs}, !.rDef = {w.rt}, !.flags = {"Load"}]
        /\ interpreterEXECUTE(w) = ScalarLoad(w)
      BY <1>11, <2>1, Zenon DEF decoderEXECUTE, interpreterEXECUTE, Loads, Stores
  <2>. QED BY <1>11, <2>1, <2>2, InfoRecords, ScalarRecords
           DEF Sound, Documented, Covers, Load, Store,
           Branch, Vector, IsCompute, IsMtc2, IsLtv, IsVnop, Info, Touched, ScalarLoad, ScalarStore
<1>12. CASE w.op \in Stores
  <2>1. /\ w.op # 0 /\ w.op # 1 /\ w.op # 2 /\ w.op # 3 /\ w.op \notin {4, 5}
        /\ w.op \notin {6, 7} /\ w.op \notin 8..14 /\ w.op # 15 /\ w.op # 16 /\ w.op # 18
        /\ w.op \notin Loads /\ w.op # 50 /\ w.op # 58
      BY <1>12 DEF Loads, Stores
  <2>2. /\ decoderEXECUTE(w) = [INVALID EXCEPT !.rUse = {w.rs, w.rt}, !.flags = {"Store"}]
        /\ interpreterEXECUTE(w) = ScalarStore(w)
      BY <1>12, <2>1, Zenon DEF decoderEXECUTE, interpreterEXECUTE, Loads, Stores
  <2>. QED BY <1>12, <2>1, <2>2, InfoRecords, ScalarRecords
           DEF Sound, Documented, Covers, Load, Store,
           Branch, Vector, IsCompute, IsMtc2, IsLtv, IsVnop, Info, Touched, ScalarLoad, ScalarStore
<1>13. CASE w.op = 50
  <2>1. /\ w.op # 0 /\ w.op # 1 /\ w.op # 2 /\ w.op # 3 /\ w.op \notin {4, 5}
        /\ w.op \notin {6, 7} /\ w.op \notin 8..14 /\ w.op # 15 /\ w.op # 16 /\ w.op # 18
        /\ w.op \notin Loads /\ w.op \notin Stores /\ w.op # 58
      BY <1>13 DEF Loads, Stores
  <2>2. /\ decoderEXECUTE(w) = decoderLWC2(w)
        /\ interpreterEXECUTE(w) = interpreterLWC2(w)
      BY <1>13, <2>1, Zenon DEF decoderEXECUTE, interpreterEXECUTE, Loads, Stores
  <2>. QED BY <1>13, <2>2, VectorLoadSound
<1>14. CASE w.op = 58
  <2>1. /\ w.op # 0 /\ w.op # 1 /\ w.op # 2 /\ w.op # 3 /\ w.op \notin {4, 5}
        /\ w.op \notin {6, 7} /\ w.op \notin 8..14 /\ w.op # 15 /\ w.op # 16 /\ w.op # 18
        /\ w.op \notin Loads /\ w.op \notin Stores /\ w.op # 50
      BY <1>14 DEF Loads, Stores
  <2>2. /\ decoderEXECUTE(w) = decoderSWC2(w)
        /\ interpreterEXECUTE(w) = interpreterSWC2(w)
      BY <1>14, <2>1, Zenon DEF decoderEXECUTE, interpreterEXECUTE, Loads, Stores
  <2>. QED BY <1>14, <2>2, VectorStoreSound
<1>15. CASE /\ w.op # 0 /\ w.op # 1 /\ w.op # 2 /\ w.op # 3 /\ w.op \notin {4, 5}
           /\ w.op \notin {6, 7} /\ w.op \notin 8..14 /\ w.op # 15 /\ w.op # 16 /\ w.op # 18
           /\ w.op \notin Loads /\ w.op \notin Stores /\ w.op # 50 /\ w.op # 58
  <2>2. /\ decoderEXECUTE(w) = INVALID
        /\ interpreterEXECUTE(w) = NoEffect
      BY <1>15, Zenon DEF decoderEXECUTE, interpreterEXECUTE, Loads, Stores
  <2>. QED BY <1>15, <2>2, InfoRecords, ScalarRecords
           DEF Sound, Documented, Covers, Load, Store,
           Branch, Vector, IsCompute, IsMtc2, IsLtv, IsVnop, Info, Touched, ScalarLoad, ScalarStore
<1>. QED BY <1>1, <1>2, <1>3, <1>4, <1>5, <1>6, <1>7, <1>8, <1>9, <1>10, <1>11, <1>12, <1>13, <1>14, <1>15

-----------------------------------------------------------------------------
(* The invariants hold of every word and of every two.                     *)

LEMMA PairIndependent ==
    ASSUME NEW w0 \in Word, NEW w1 \in Word, Documented(w0), Documented(w1), Pair(w0, w1)
    PROVE  Independent(interpreterEXECUTE(w0), interpreterEXECUTE(w1))
<1>. DEFINE d0 == decoderEXECUTE(w0)  d1 == decoderEXECUTE(w1)
            t0 == interpreterEXECUTE(w0)  t1 == interpreterEXECUTE(w1)
<1>1. Sound(w0, d0, t0) /\ Sound(w1, d1, t1)
  BY WordSound
<1>2. canDualIssue(d0, d1)
  BY DEF Pair
<1>. HIDE DEF d0, d1, t0, t1
<1>3. /\ t0.vWrite  \cap (t1.vRead  \cup t1.vWrite)  = {}
      /\ t0.vcWrite \cap (t1.vcRead \cup t1.vcWrite) = {}
  BY <1>1, <1>2 DEF Sound, Covers, canDualIssue
<1>4. /\ t0.rWrite  \cap (t1.rRead  \cup t1.rWrite)  = {}
      /\ ~(t0.dmemWrite /\ t1.dmemRead) /\ ~(t0.dmemWrite /\ t1.dmemWrite)
  <2>1. Vector(d0) \/ Vector(d1)
      BY <1>2 DEF canDualIssue, Vector
  <2>2. Vector(d0) => t0.rWrite = {} /\ ~t0.dmemWrite
      BY <1>1 DEF Sound
  <2>3. Vector(d1) => /\ t1.rRead = {} /\ t1.rWrite = {}
                      /\ ~t1.dmemRead /\ ~t1.dmemWrite
      BY <1>1 DEF Sound
  <2>. QED BY <2>1, <2>2, <2>3
<1>. QED BY <1>3, <1>4 DEF Independent, t0, t1

(* A VNOP shares a slot with any other unit's word, unless that is an MTC2 *)
(* or an LTV which writes the register that the VNOP misreads.             *)
LEMMA VnopPairs ==
    ASSUME NEW w0 \in Word, NEW w1 \in Word, IsVnop(w1), ~Vector(decoderEXECUTE(w0))
    PROVE  canDualIssue(decoderEXECUTE(w0), decoderEXECUTE(w1)) <=>
               ~(IsMtc2(w0) \/ IsLtv(w0)) \/ VD(w1) \notin decoderEXECUTE(w0).vDef
<1>. DEFINE d0 == decoderEXECUTE(w0)  d1 == decoderEXECUTE(w1)
<1>1. /\ Sound(w0, d0, interpreterEXECUTE(w0)) /\ Sound(w1, d1, interpreterEXECUTE(w1))
  BY WordSound
<1>. HIDE DEF d0, d1
<1>2. /\ d1.vUse = {} /\ d1.vDef = {} /\ d1.vcUse = {} /\ d1.vcDef = {}
      /\ d1.vfake = {VD(w1)} /\ Vector(d1) /\ "VNopGroup" \in d1.flags
  BY <1>1 DEF Sound, IsVnop
<1>3. "VNopGroup" \in d0.flags <=> IsMtc2(w0) \/ IsLtv(w0)
  BY <1>1 DEF Sound, IsVnop, d0
<1>4. FakeConflict(d0, d1) <=> (IsMtc2(w0) \/ IsLtv(w0)) /\ VD(w1) \in d0.vDef
  BY <1>2, <1>3 DEF FakeConflict
<1>5. ~Vector(d0)
  BY DEF d0
<1>6. canDualIssue(d0, d1) <=> ~FakeConflict(d0, d1)
  BY <1>2, <1>5 DEF canDualIssue
<1>. QED BY <1>4, <1>6 DEF d0, d1

(* Only words of IMEM are ever looked at.                                  *)
Fetched == first \in Word /\ (second = <<>> \/ \E w \in Word : second = <<w>>)

LEMMA FetchedInvariant == Spec => []Fetched
<1>1. Init => Fetched
  BY FetchedWordsAssumption DEF Init, Fetched
<1>2. Fetched /\ [Next]_vars => Fetched'
  BY FetchedWordsAssumption DEF Fetched, Next, FetchSecond, vars
<1>. QED BY <1>1, <1>2, PTL DEF Spec

(* The decoder reports everything that a documented instruction touches,   *)
(* whatever its fields (decoder.cpp against the bodies that interpreter.cpp *)
(* dispatches to).                                                         *)
THEOREM EveryWordIsCovered == Spec => []DecoderCovers
<1>1. Fetched => DecoderCovers
  BY WordSound DEF Fetched, DecoderCovers, Sound
<1>. QED BY <1>1, FetchedInvariant, PTL

(* No two documented instructions that canDualIssue pairs disturb each     *)
(* other: what they really read and write is disjoint.                     *)
THEOREM EveryPairIsIndependent == Spec => []PairsIndependent
<1>1. Fetched => PairsIndependent
  <2>1. ASSUME Fetched, second # <<>>
        PROVE  second[1] \in Word
    BY <2>1 DEF Fetched
  <2>. QED BY <2>1, PairIndependent DEF Fetched, PairsIndependent
<1>. QED BY <1>1, FetchedInvariant, PTL

(* Of all words, documented or not, only MTC2 and LTV keep a VNOP that     *)
(* misreads their register out of their slot (the comment in canDualIssue). *)
THEOREM EveryVnopPairs == Spec => []VnopConflicts
<1>1. Fetched => VnopConflicts
  <2>1. ASSUME Fetched, second # <<>>
        PROVE  first \in Word /\ second[1] \in Word
    BY <2>1 DEF Fetched
  <2>. QED BY <2>1, VnopPairs DEF VnopConflicts, IsVnop, IsCompute, IsMtc2, IsLtv
<1>. QED BY <1>1, FetchedInvariant, PTL
=============================================================================
