----------------------------- MODULE VectorLane -----------------------------
(***************************************************************************)
(* One of the eight lanes of the vector unit: every computational          *)
(* instruction of interpreter-vpu.cpp that works lane by lane, as the loop *)
(* body of its SISD half (the half that the build compiles).  A lane is    *)
(* the lane's slice of the accumulator, of the control registers and of    *)
(* the destination register.  Numbers are unsigned, Bits wide.             *)
(***************************************************************************)
EXTENDS Width

Lane == [h : Number, m : Number, l : Number,            \* ACCH ACCM ACCL
         vcol : {0, Ones}, vcoh : {0, Ones}, vccl : {0, Ones}, vcch : {0, Ones},
         vce : {0, Ones}, vd : Number]

sclamp(n) == IF n > Highest THEN Highest ELSE IF n < -Lowest THEN -Lowest ELSE n

(* r128::get and r128::set                                                 *)
get(flag) == flag # 0
Bit(flag) == IF get(flag) THEN 1 ELSE 0

set(value) == IF value THEN Ones ELSE 0

-----------------------------------------------------------------------------
(* The accumulator: three elements, read as one unsigned number.           *)

accumulatorGet(x) == (x.h * W + x.m) * W + x.l

accumulatorSet(x, value) ==
    [x EXCEPT !.h = U(value \div (W * W)), !.m = U(value \div W), !.l = U(value)]

(* Mutant of accumulatorSaturate: the middle element's sign is not looked  *)
(* at when the high element is all zeroes or all ones.                     *)
accumulatorSaturate_HighOnly(x, slice, negative, positive) ==
    IF S(x.h) < 0 /\ x.h # Ones THEN negative
    ELSE IF S(x.h) >= 0 /\ x.h # 0 THEN positive
    ELSE IF slice THEN x.m ELSE x.l

accumulatorSaturate(x, slice, negative, positive) ==
    IF S(x.h) < 0 /\ (x.h # Ones \/ S(x.m) >= 0) THEN negative
    ELSE IF S(x.h) >= 0 /\ (x.h # 0 \/ S(x.m) < 0) THEN positive
    ELSE IF slice THEN x.m ELSE x.l

SignedMiddle(x) == [x EXCEPT !.vd = accumulatorSaturate(x, TRUE, Lowest, Highest)]
UnsignedLow(x) == [x EXCEPT !.vd = accumulatorSaturate(x, FALSE, 0, Ones)]

-----------------------------------------------------------------------------
(* Multiplications.                                                        *)

Accumulate(x, product) == accumulatorSet(x, accumulatorGet(x) + product)

VMUDL(x, s, t) ==
    LET y == accumulatorSet(x, (s * t) \div W) IN [y EXCEPT !.vd = y.l]
VMUDM(x, s, t) == LET y == accumulatorSet(x, S(s) * t) IN [y EXCEPT !.vd = y.m]
VMUDN(x, s, t) == LET y == accumulatorSet(x, s * S(t)) IN [y EXCEPT !.vd = y.l]
VMUDH(x, s, t) == SignedMiddle(accumulatorSet(x, S(s) * S(t) * W))

VMADL(x, s, t) == UnsignedLow(Accumulate(x, (s * t) \div W))

VMADM(x, s, t) == SignedMiddle(Accumulate(x, S(s) * t))
VMADN(x, s, t) == UnsignedLow(Accumulate(x, s * S(t)))

(* The low element does not take part.                                     *)
VMADH(x, s, t) ==
    LET result == accumulatorGet(x) \div W + S(s) * S(t)
    IN  SignedMiddle([x EXCEPT !.h = U(result \div W), !.m = U(result)])

Fraction(x, s, t) == accumulatorSet(x, 2 * S(s) * S(t) + Lowest)
AccumulateFraction(x, s, t) == Accumulate(x, 2 * S(s) * S(t))

VMULF(x, s, t) == SignedMiddle(Fraction(x, s, t))
VMACF(x, s, t) == SignedMiddle(AccumulateFraction(x, s, t))

VMULU(x, s, t) ==
    LET y == Fraction(x, s, t)
    IN  [y EXCEPT !.vd = IF S(y.h) < 0 THEN 0
                         ELSE IF (S(y.h) < 0) # (S(y.m) < 0) THEN Ones ELSE y.m]

VMACU(x, s, t) ==
    LET y == AccumulateFraction(x, s, t)
    IN  [y EXCEPT !.vd = IF S(y.h) < 0 THEN 0
                         ELSE IF S(y.h) # 0 \/ S(y.m) < 0 THEN Ones ELSE y.m]

(* VRNDP and VRNDN add the operand, or its element shifted to the middle,  *)
(* when the accumulator has the sign they ask for.                         *)
VRND(x, positive, shifted, t) ==
    LET acc == S(x.h) * W * W + x.m * W + x.l
        product == IF shifted THEN S(t) * W ELSE S(t)
        sum == IF positive = (acc >= 0) THEN acc + product ELSE acc
        y == accumulatorSet(x, sum)
    IN  [y EXCEPT !.vd = U(sclamp(S(y.h) * W + y.m))]

-----------------------------------------------------------------------------
(* Additions: the carry comes from VCOL, and both carry registers are      *)
(* cleared by the instruction that uses them.                              *)

Uncarried(x) == [x EXCEPT !.vcol = 0, !.vcoh = 0]
Sum(x, result) == Uncarried([x EXCEPT !.l = U(result), !.vd = U(sclamp(result))])

VADD(x, s, t) == Sum(x, S(s) + S(t) + Bit(x.vcol))
VSUB(x, s, t) == Sum(x, S(s) - S(t) - Bit(x.vcol))

Copied(x, value) == [x EXCEPT !.l = value, !.vd = value]

VADDC(x, s, t) ==
    [Copied(x, U(s + t)) EXCEPT !.vcol = set(s + t >= W), !.vcoh = 0]

VSUBC(x, s, t) ==
    [Copied(x, U(s - t)) EXCEPT !.vcol = set(s < t), !.vcoh = set(s # t)]

VABS(x, s, t) ==
    CASE S(s) < 0 -> [x EXCEPT !.l = U(-S(t)), !.vd = U(sclamp(-S(t)))]
      [] S(s) > 0 -> Copied(x, t)
      [] S(s) = 0 -> Copied(x, 0)

VZERO(x, s, t) == [x EXCEPT !.l = U(S(s) + S(t)), !.vd = 0]

-----------------------------------------------------------------------------
(* Bitwise operations.                                                     *)

VAND(x, s, t) == Copied(x, And(s, t))
VNAND(x, s, t) == Copied(x, Invert(And(s, t)))
VOR(x, s, t) == Copied(x, Or(s, t))
VNOR(x, s, t) == Copied(x, Invert(Or(s, t)))
VXOR(x, s, t) == Copied(x, Xor(s, t))
VNXOR(x, s, t) == Copied(x, Invert(Xor(s, t)))

-----------------------------------------------------------------------------
(* Comparisons and selections.                                             *)

Select(x, chosen, s, t) ==
    [Uncarried(Copied(x, IF chosen THEN s ELSE t))
        EXCEPT !.vccl = set(chosen), !.vcch = 0]

VEQ(x, s, t) == Select(x, ~get(x.vcoh) /\ s = t, s, t)
VNE(x, s, t) == Select(x, s # t \/ get(x.vcoh), s, t)
VGE(x, s, t) ==
    Select(x, S(s) > S(t) \/ (s = t /\ (~get(x.vcol) \/ ~get(x.vcoh))), s, t)

VLT(x, s, t) ==
    Select(x, S(s) < S(t) \/ (s = t /\ get(x.vcol) /\ get(x.vcoh)), s, t)

VMRG(x, s, t) == Uncarried(Copied(x, IF get(x.vccl) THEN s ELSE t))

SignsDiffer(s, t) == (S(s) < 0) # (S(t) < 0)

(* VCH clips to the signed magnitude of t and leaves behind what VCL needs *)
(* to do the same for the lower half of a wider number.                    *)
VCH(x, s, t) ==
    IF SignsDiffer(s, t)
    THEN LET result == S(U(S(s) + S(t)))
         IN  [Copied(x, IF result <= 0 THEN U(-S(t)) ELSE s)
                EXCEPT !.vccl = set(result <= 0), !.vcch = set(S(t) < 0),
                       !.vcol = Ones, !.vce = set(result = -1),
                       !.vcoh = set(result # 0 /\ s # Invert(t))]
    ELSE LET result == S(U(S(s) - S(t)))
         IN  [Copied(x, IF result >= 0 THEN t ELSE s)
                EXCEPT !.vccl = set(S(t) < 0), !.vcch = set(result >= 0),
                       !.vcol = 0, !.vce = 0,
                       !.vcoh = set(result # 0 /\ s # Invert(t))]

(* Under VCOL VCL clips to -t, otherwise to t; VCOH says that the high     *)
(* halves decided.                                                         *)
Clipped(x) == [Uncarried(x) EXCEPT !.vce = 0]
BelowMinus(x, s, t) ==
    IF get(x.vce) THEN U(s + t) = 0 \/ s + t < W ELSE U(s + t) = 0 /\ s + t < W

(* Mutant of VCL: VCE is not looked at.                                    *)
VCL_Exact(x, s, t) ==
    LET le == IF get(x.vcoh) THEN x.vccl ELSE set(U(s + t) = 0 /\ s + t < W)
        ge == IF get(x.vcoh) THEN x.vcch ELSE set(s >= t)
    IN  IF get(x.vcol)
        THEN [Clipped(Copied(x, IF get(le) THEN U(-t) ELSE s)) EXCEPT !.vccl = le]
        ELSE [Clipped(Copied(x, IF get(ge) THEN t ELSE s)) EXCEPT !.vcch = ge]
VCL(x, s, t) ==
    LET le == IF get(x.vcoh) THEN x.vccl ELSE set(BelowMinus(x, s, t))
        ge == IF get(x.vcoh) THEN x.vcch ELSE set(s >= t)
    IN  IF get(x.vcol)
        THEN [Clipped(Copied(x, IF get(le) THEN U(-t) ELSE s)) EXCEPT !.vccl = le]
        ELSE [Clipped(Copied(x, IF get(ge) THEN t ELSE s)) EXCEPT !.vcch = ge]

(* VCR clips to the magnitude of a one's complement t.                     *)
VCR(x, s, t) ==
    IF SignsDiffer(s, t)
    THEN LET le == S(s) + S(t) + 1 <= 0
         IN  [Clipped(Copied(x, IF le THEN Invert(t) ELSE s))
                EXCEPT !.vcch = set(S(t) < 0), !.vccl = set(le)]
    ELSE LET ge == S(s) - S(t) >= 0
         IN  [Clipped(Copied(x, IF ge THEN t ELSE s))
                EXCEPT !.vccl = set(S(t) < 0), !.vcch = set(ge)]

-----------------------------------------------------------------------------
(* e is the element field.                                                 *)
VSAR(x, e) ==
    [x EXCEPT !.vd = CASE e = 8 -> x.h [] e = 9 -> x.m [] e = 10 -> x.l [] OTHER -> 0]

-----------------------------------------------------------------------------
(* The switch of interpreterVU over the instructions that every lane       *)
(* executes alike.                                                         *)

Instructions ==
    {"VMULF", "VMULU", "VMUDL", "VMUDM", "VMUDN", "VMUDH", "VMACF", "VMACU",
     "VMADL", "VMADM", "VMADN", "VMADH", "VADD", "VSUB", "VABS", "VADDC", "VSUBC",
     "VZERO", "VLT", "VEQ", "VNE", "VGE", "VCL", "VCH", "VCR", "VMRG",
     "VAND", "VNAND", "VOR", "VNOR", "VXOR", "VNXOR"}

interpreterVU(op, x, s, t) ==
    CASE op = "VMULF" -> VMULF(x, s, t)   [] op = "VMULU" -> VMULU(x, s, t)
      [] op = "VMUDL" -> VMUDL(x, s, t)   [] op = "VMUDM" -> VMUDM(x, s, t)
      [] op = "VMUDN" -> VMUDN(x, s, t)   [] op = "VMUDH" -> VMUDH(x, s, t)
      [] op = "VMACF" -> VMACF(x, s, t)   [] op = "VMACU" -> VMACU(x, s, t)
      [] op = "VMADL" -> VMADL(x, s, t)   [] op = "VMADM" -> VMADM(x, s, t)
      [] op = "VMADN" -> VMADN(x, s, t)   [] op = "VMADH" -> VMADH(x, s, t)
      [] op = "VADD" -> VADD(x, s, t)     [] op = "VSUB" -> VSUB(x, s, t)
      [] op = "VABS" -> VABS(x, s, t)     [] op = "VZERO" -> VZERO(x, s, t)
      [] op = "VADDC" -> VADDC(x, s, t)   [] op = "VSUBC" -> VSUBC(x, s, t)
      [] op = "VLT" -> VLT(x, s, t)       [] op = "VEQ" -> VEQ(x, s, t)
      [] op = "VNE" -> VNE(x, s, t)       [] op = "VGE" -> VGE(x, s, t)
      [] op = "VCL" -> VCL(x, s, t)       [] op = "VCH" -> VCH(x, s, t)
      [] op = "VCR" -> VCR(x, s, t)       [] op = "VMRG" -> VMRG(x, s, t)
      [] op = "VAND" -> VAND(x, s, t)     [] op = "VNAND" -> VNAND(x, s, t)
      [] op = "VOR" -> VOR(x, s, t)       [] op = "VNOR" -> VNOR(x, s, t)
      [] op = "VXOR" -> VXOR(x, s, t)     [] op = "VNXOR" -> VNXOR(x, s, t)
      [] op = "VRNDP" -> VRND(x, TRUE, TRUE, t)          \* an odd VSn
      [] op = "VRNDN" -> VRND(x, FALSE, FALSE, t)        \* an even one
      [] op = "VSAR" -> VSAR(x, s)
=============================================================================
