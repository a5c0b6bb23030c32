------------------------------ MODULE SimdLane ------------------------------
(***************************************************************************)
(* The same instructions as VectorLane, from the SSE4.1 half of each       *)
(* function: the intrinsics work on all eight elements alike, so that one  *)
(* lane shows what each does.  A build compiles this half when it defines  *)
(* ARCHITECTURE_SUPPORTS_SSE4_1; the one of build.sh does not.             *)
(*                                                                         *)
(* Masks are elements of all zeroes or all ones.                           *)
(***************************************************************************)
EXTENDS VectorLane

(* The intrinsics, one element of each.                                    *)
add(p, q) == U(p + q)
sub(p, q) == U(p - q)
adds(p, q) == U(sclamp(S(p) + S(q)))
subs(p, q) == U(sclamp(S(p) - S(q)))
addsu(p, q) == IF p + q > Ones THEN Ones ELSE p + q
subsu(p, q) == IF p < q THEN 0 ELSE p - q
mullo(p, q) == U(p * q)
mulhi(p, q) == U((S(p) * S(q)) \div W)
mulhiu(p, q) == (p * q) \div W
srai15(p) == set(S(p) < 0)
srli15(p) == p \div Lowest
slli1(p) == U(2 * p)
cmpeq(p, q) == set(p = q)
cmpgt(p, q) == set(S(p) > S(q))
min(p, q) == IF S(p) < S(q) THEN p ELSE q
max(p, q) == IF S(p) < S(q) THEN q ELSE p
andnot(p, q) == And(Invert(p), q)
blendv(p, q, mask) == IF S(mask) < 0 THEN q ELSE p
packs(lo, hi) == U(sclamp(S(hi) * W + lo))

(* All ones where a sum carried out of its element: the saturated sum then *)
(* differs from the wrapped one.                                           *)
carried(p, q) == Invert(cmpeq(add(p, q), addsu(p, q)))

-----------------------------------------------------------------------------
(* Multiplications.                                                        *)

Middle(x) == [x EXCEPT !.vd = packs(x.m, x.h)]
Low(x) ==
    LET nhi == srai15(x.h)
        cmask == And(cmpeq(nhi, srai15(x.m)), cmpeq(nhi, x.h))
    IN  [x EXCEPT !.vd = blendv(cmpeq(nhi, 0), x.l, cmask)]

Acc(x, h, m, l) == [x EXCEPT !.h = h, !.m = m, !.l = l]

(* lo, md and hi are added to the three elements with their carries.       *)
AddLow(x, lo) == [x EXCEPT !.l = add(x.l, lo)]
AddMiddle(x, md) == [x EXCEPT !.m = add(x.m, md)]
AddHigh(x, hi, omask) == [x EXCEPT !.h = sub(add(x.h, hi), omask)]

simdVMUDL(x, s, t) ==
    LET y == Acc(x, 0, 0, mulhiu(s, t)) IN [y EXCEPT !.vd = y.l]
simdVMUDM(x, s, t) ==
    LET m == sub(mulhiu(s, t), And(t, srai15(s)))
    IN  [Acc(x, srai15(m), m, mullo(s, t)) EXCEPT !.vd = m]
simdVMUDN(x, s, t) ==
    LET m == sub(mulhiu(s, t), And(s, srai15(t)))
    IN  [Acc(x, srai15(m), m, mullo(s, t)) EXCEPT !.vd = mullo(s, t)]
simdVMUDH(x, s, t) == Middle(Acc(x, mulhi(s, t), mullo(s, t), 0))

simdVMADL(x, s, t) ==
    LET lo == mulhiu(s, t)
        md == sub(0, carried(x.l, lo))
    IN  Low(AddHigh(AddMiddle(AddLow(x, lo), md), 0, carried(x.m, md)))

(* The high half of a product of mixed signs is corrected by the unsigned  *)
(* factor where the signed one is negative.                                *)
AddMixed(x, lo, corrected) ==
    LET md == sub(corrected, carried(x.l, lo))
    IN  AddHigh(AddMiddle(AddLow(x, lo), md), srai15(md), carried(x.m, md))
simdVMADM(x, s, t) ==
    Middle(AddMixed(x, mullo(s, t), sub(mulhiu(s, t), And(t, srai15(s)))))
simdVMADN(x, s, t) ==
    Low(AddMixed(x, mullo(s, t), sub(mulhiu(s, t), And(s, srai15(t)))))

simdVMADH(x, s, t) ==
    LET lo == mullo(s, t)
        hi == sub(mulhi(s, t), carried(x.m, lo))
    IN  Middle(AddHigh(AddMiddle(x, lo), hi, 0))

FractionSimd(x, s, t) ==
    LET lo == mullo(s, t)
        double == add(lo, lo)
        m == add(slli1(mulhi(s, t)), add(srli15(lo), srli15(double)))
    IN  Acc(x, andnot(cmpeq(s, t), srai15(m)), m, add(Lowest, double))
simdVMULF(x, s, t) ==
    LET y == FractionSimd(x, s, t)
    IN  [y EXCEPT !.vd = add(y.m, And(cmpeq(s, t), srai15(y.m)))]
simdVMULU(x, s, t) ==
    LET y == FractionSimd(x, s, t)
    IN  [y EXCEPT !.vd = andnot(y.h, Or(y.m, srai15(y.m)))]

(* Mutant of AddFraction: the carry out of a middle that wraps to zero is  *)
(* lost, instead of being taken from the high half.                        *)
AddFraction_Lost(x, s, t) ==
    LET lo == slli1(mullo(s, t))
        carry == carried(x.l, lo)
        md == sub(Or(slli1(mulhi(s, t)), srli15(mullo(s, t))), carry)
    IN  AddHigh(AddMiddle(AddLow(x, lo), md), srai15(mulhi(s, t)), carried(x.m, md))
AddFraction(x, s, t) ==
    LET lo == slli1(mullo(s, t))
        carry == carried(x.l, lo)
        md == sub(Or(slli1(mulhi(s, t)), srli15(mullo(s, t))), carry)
        hi == sub(srai15(mulhi(s, t)), And(cmpeq(md, 0), carry))
    IN  AddHigh(AddMiddle(AddLow(x, lo), md), hi, carried(x.m, md))
simdVMACF(x, s, t) == Middle(AddFraction(x, s, t))
simdVMACU(x, s, t) ==
    LET y == AddFraction(x, s, t)
        md == andnot(srai15(y.h), Or(srai15(y.m), y.m))
    IN  [y EXCEPT !.vd = Or(cmpgt(y.h, 0), md)]

-----------------------------------------------------------------------------
(* Additions.                                                              *)

simdVABS(x, s, t) ==
    LET slt == srai15(s)
        v == Xor(andnot(cmpeq(s, 0), t), slt)
    IN  [x EXCEPT !.l = sub(v, slt), !.vd = subs(v, slt)]

simdVADD(x, s, t) ==
    Uncarried([x EXCEPT !.l = sub(add(s, t), x.vcol),
                        !.vd = adds(subs(min(s, t), x.vcol), max(s, t))])

simdVSUB(x, s, t) ==
    LET udiff == sub(t, x.vcol)
        sdiff == subs(t, x.vcol)
    IN  Uncarried([x EXCEPT !.l = sub(s, udiff),
                            !.vd = adds(subs(s, sdiff), cmpgt(sdiff, udiff))])

simdVADDC(x, s, t) ==
    [Copied(x, add(s, t)) EXCEPT !.vcol = carried(s, t), !.vcoh = 0]

simdVSUBC(x, s, t) ==
    [Copied(x, sub(s, t))
        EXCEPT !.vcoh = Invert(cmpeq(s, t)),
               !.vcol = andnot(cmpeq(s, t), cmpeq(subsu(s, t), 0))]

simdVZERO(x, s, t) == [x EXCEPT !.l = add(s, t), !.vd = 0]

-----------------------------------------------------------------------------
(* Comparisons and selections.                                             *)

Compared(x, s, t, vccl) ==
    [Uncarried(Copied(x, blendv(t, s, vccl))) EXCEPT !.vccl = vccl, !.vcch = 0]

simdVEQ(x, s, t) == Compared(x, s, t, andnot(x.vcoh, cmpeq(s, t)))
simdVNE(x, s, t) ==
    Compared(x, s, t, Or(And(x.vcoh, cmpeq(s, t)), Invert(cmpeq(s, t))))
simdVGE(x, s, t) ==
    Compared(x, s, t, Or(cmpgt(s, t), andnot(And(x.vcoh, x.vcol), cmpeq(s, t))))
simdVLT(x, s, t) ==
    Compared(x, s, t, Or(cmpgt(t, s), And(x.vcol, And(x.vcoh, cmpeq(s, t)))))
simdVMRG(x, s, t) == Uncarried(Copied(x, blendv(t, s, x.vccl)))

(* -t under a mask of ones, t under zeroes.                                *)
Negated(t, mask) == sub(Xor(t, mask), mask)

simdVCH(x, s, t) ==
    LET vcol == cmpgt(0, Xor(s, t))
        nvt == Negated(t, vcol)
        diff == sub(s, nvt)
        diff0 == cmpeq(diff, 0)
        vtn == cmpgt(0, t)
        dlez == Invert(cmpgt(diff, 0))
        dgez == Or(cmpgt(diff, 0), diff0)
        vcch == blendv(dgez, vtn, vcol)
        vccl == blendv(vtn, dlez, vcol)
        vce == And(cmpeq(diff, vcol), vcol)
    IN  [Copied(x, blendv(s, nvt, blendv(vcch, vccl, vcol)))
            EXCEPT !.vcol = vcol, !.vcch = vcch, !.vccl = vccl, !.vce = vce,
                   !.vcoh = Invert(Or(diff0, vce))]

simdVCL(x, s, t) ==
    LET nvt == Negated(t, x.vcol)
        diff == sub(s, nvt)
        ncarry == cmpeq(diff, addsu(s, t))
        diff0 == cmpeq(diff, 0)
        leeq == Or(And(Invert(x.vce), And(diff0, ncarry)), And(x.vce, Or(diff0, ncarry)))
        geeq == cmpeq(subsu(t, s), 0)
        le == blendv(x.vccl, leeq, andnot(x.vcoh, x.vcol))
        ge == blendv(geeq, x.vcch, Or(x.vcol, x.vcoh))
    IN  [Clipped(Copied(x, blendv(s, nvt, blendv(ge, le, x.vcol))))
            EXCEPT !.vcch = ge, !.vccl = le]

simdVCR(x, s, t) ==
    LET sign == srai15(Xor(s, t))
        vccl == srai15(add(And(s, sign), t))
        vcch == cmpeq(min(Or(s, sign), t), t)
    IN  [Clipped(Copied(x, blendv(s, Xor(t, sign), blendv(vcch, vccl, sign))))
            EXCEPT !.vccl = vccl, !.vcch = vcch]

-----------------------------------------------------------------------------
(* The bitwise instructions complement with "invert".                      *)

simdVNAND(x, s, t) == Copied(x, Xor(And(s, t), Ones))
simdVNOR(x, s, t) == Copied(x, Xor(Or(s, t), Ones))
simdVNXOR(x, s, t) == Copied(x, Xor(Xor(s, t), Ones))

Simd(op, x, s, t) ==
    CASE op = "VMULF" -> simdVMULF(x, s, t)   [] op = "VMULU" -> simdVMULU(x, s, t)
      [] op = "VMUDL" -> simdVMUDL(x, s, t)   [] op = "VMUDM" -> simdVMUDM(x, s, t)
      [] op = "VMUDN" -> simdVMUDN(x, s, t)   [] op = "VMUDH" -> simdVMUDH(x, s, t)
      [] op = "VMACF" -> simdVMACF(x, s, t)   [] op = "VMACU" -> simdVMACU(x, s, t)
      [] op = "VMADL" -> simdVMADL(x, s, t)   [] op = "VMADM" -> simdVMADM(x, s, t)
      [] op = "VMADN" -> simdVMADN(x, s, t)   [] op = "VMADH" -> simdVMADH(x, s, t)
      [] op = "VADD" -> simdVADD(x, s, t)     [] op = "VSUB" -> simdVSUB(x, s, t)
      [] op = "VABS" -> simdVABS(x, s, t)     [] op = "VZERO" -> simdVZERO(x, s, t)
      [] op = "VADDC" -> simdVADDC(x, s, t)   [] op = "VSUBC" -> simdVSUBC(x, s, t)
      [] op = "VLT" -> simdVLT(x, s, t)       [] op = "VEQ" -> simdVEQ(x, s, t)
      [] op = "VNE" -> simdVNE(x, s, t)       [] op = "VGE" -> simdVGE(x, s, t)
      [] op = "VCL" -> simdVCL(x, s, t)       [] op = "VCH" -> simdVCH(x, s, t)
      [] op = "VCR" -> simdVCR(x, s, t)       [] op = "VMRG" -> simdVMRG(x, s, t)
      [] op = "VNAND" -> simdVNAND(x, s, t)   [] op = "VNOR" -> simdVNOR(x, s, t)
      [] op = "VNXOR" -> simdVNXOR(x, s, t)

=============================================================================
