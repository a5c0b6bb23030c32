---------------------------- MODULE VectorIdioms ----------------------------
(***************************************************************************)
(* The instruction sequences that microcode builds wide arithmetic from,   *)
(* run on one lane of the vector unit.  The operands are two numbers of    *)
(* twice the width of an element, each held as a signed high element and   *)
(* an unsigned low one; the instructions talk to each other through the    *)
(* accumulator and the control registers, and these start with what        *)
(* earlier instructions left in them.                                      *)
(***************************************************************************)
EXTENDS VectorLane, Sequences

CONSTANTS Idioms,       \* names of the sequences to run
          Highs, Lows,  \* the elements an operand is made of
          Leftovers     \* the lanes that a sequence may find

ASSUME IdiomsAssumption ==
    Idioms \subseteq {"product", "sum", "difference", "less", "greater", "equal", "unequal",
                      "clip", "bound", "dot", "unsigned", "round"}
ASSUME OperandsAssumption ==
    Highs \subseteq Number /\ Lows \subseteq Number /\ Leftovers \subseteq Lane

VARIABLES idiom, first, second,         \* chosen at the start
          slice,                        \* the lane
          steps,                        \* instructions executed
          results                       \* the elements stored as results so far

idiomVars == <<idiom, first, second, slice, steps, results>>

Wide == [hi : Highs, lo : Lows]

(* An instruction, its two operands and where its vd is kept ("none": not).*)
I(op, s, t, to) == [op |-> op, s |-> s, t |-> t, to |-> to]

Compare(op) ==
    <<I("VSUBC", first.lo, second.lo, "none"), I(op, first.hi, second.hi, "hi"),
      I("VMRG", first.lo, second.lo, "lo")>>

Program ==
    CASE idiom = "product" ->
           <<I("VMUDL", first.lo, second.lo, "none"), I("VMADM", first.hi, second.lo, "none"),
             I("VMADN", first.lo, second.hi, "none"), I("VMADH", first.hi, second.hi, "hi"),
             I("VMADN", 0, 0, "lo")>>
      [] idiom = "sum" ->
           <<I("VADDC", first.lo, second.lo, "lo"), I("VADD", first.hi, second.hi, "hi")>>
      [] idiom = "difference" ->
           <<I("VSUBC", first.lo, second.lo, "lo"), I("VSUB", first.hi, second.hi, "hi")>>
      [] idiom = "less" -> Compare("VLT")
      [] idiom = "greater" -> Compare("VGE")
      [] idiom = "equal" -> Compare("VEQ")
      [] idiom = "unequal" -> Compare("VNE")
      [] idiom = "clip" ->
           <<I("VCH", first.hi, second.hi, "hi"), I("VCL", first.lo, second.lo, "lo")>>
      [] idiom = "bound" -> <<I("VCR", first.hi, second.hi, "hi")>>
      [] idiom = "dot" ->
           <<I("VMULF", first.hi, second.hi, "none"), I("VMACF", first.lo, second.lo, "lo"),
             I("VSAR", 8, 0, "hi")>>
      [] idiom = "unsigned" ->
           <<I("VMULU", first.hi, second.hi, "none"), I("VMACU", first.lo, second.lo, "lo")>>
      [] idiom = "round" ->
           <<I("VMULF", first.hi, second.hi, "none"), I("VRNDP", 0, first.lo, "none"),
             I("VRNDN", 0, second.lo, "lo")>>

IdiomInit ==
    /\ idiom \in Idioms /\ first \in Wide /\ second \in Wide
    /\ slice \in Leftovers
    /\ steps = 0 /\ results = [hi |-> 0, lo |-> 0]

Step ==
    LET i == Program[steps + 1]
        y == interpreterVU(i.op, slice, i.s, i.t)
    IN  /\ steps < Len(Program)
        /\ slice' = y
        /\ results' = [r \in DOMAIN results |-> IF r = i.to THEN y.vd ELSE results[r]]
        /\ steps' = steps + 1
        /\ UNCHANGED <<idiom, first, second>>

IdiomSpec == IdiomInit /\ [][Step]_idiomVars

-----------------------------------------------------------------------------
(* What the sequences are for.                                             *)

Value(n) == S(n.hi) * W + n.lo
Least == -((W * W) \div 2)
Greatest == (W * W) \div 2 - 1
Clip(low, n, high) == IF n < low THEN low ELSE IF n > high THEN high ELSE n
Done(name) == idiom = name /\ steps = Len(Program)

(* The sign-extended accumulator.                                          *)
Accumulator == (S(slice.h) * W + slice.m) * W + slice.l

(* Every instruction leaves a lane: elements of their width and control    *)
(* registers that are all zeroes or all ones.                              *)
IdiomTypeOK ==
    /\ slice \in Lane /\ results \in [hi : Number, lo : Number] /\ steps \in 0 .. 5

(* VMUDL, VMADM, VMADN, VMADH and a last VMADN by zero multiply two        *)
(* fixed-point numbers: the result is the product divided by the weight of *)
(* the fraction, rounded down and clamped, whatever the accumulator held.  *)
ProductIsExact ==
    Done("product") =>
        Value(results) = Clip(Least, (Value(first) * Value(second)) \div W, Greatest)

(* VADDC and VADD add wide numbers, VSUBC and VSUB subtract them: the low  *)
(* element is exact, and the high element, with the carry that the first   *)
(* instruction left, saturates.                                            *)
SumsAreExact ==
    \A name \in {"sum", "difference"} :
        Done(name) =>
            LET exact == IF name = "sum" THEN Value(first) + Value(second) ELSE Value(first) - Value(second)
            IN  results.lo = U(exact) /\ S(results.hi) = sclamp(exact \div W)

(* VSUBC, a comparison of the high elements and VMRG select one of two     *)
(* wide numbers by comparing them whole, and VCCL says which: the low      *)
(* halves decide exactly when the high ones are equal.                     *)
ComparisonsAreWide ==
    /\ Done("less") => /\ get(slice.vccl) = (Value(first) < Value(second))
                       /\ results = IF Value(first) < Value(second) THEN first ELSE second
    /\ Done("greater") => /\ get(slice.vccl) = (Value(first) >= Value(second))
                          /\ results = IF Value(first) >= Value(second) THEN first ELSE second
    /\ Done("equal") => get(slice.vccl) = (first = second) /\ results = second
    /\ Done("unequal") => get(slice.vccl) = (first # second) /\ results = first

(* VCH and VCL compare a wide number with -b and with b, whole: VCCL says  *)
(* at or below, VCCH at or above.  The result is the number clipped when   *)
(* the bound is a whole number; a bound with a fraction is not negated     *)
(* with its borrow, as each instruction sees one half of it.               *)
ClipIsWide ==
    Done("clip") /\ Value(second) >= 0 =>
        /\ get(slice.vccl) = (Value(first) < 0 /\ Value(first) <= -Value(second))
        /\ get(slice.vcch) = (Value(first) >= Value(second))
        /\ second.lo = 0 => Value(results) = Clip(-Value(second), Value(first), Value(second))

(* VCR clips an element between the complement of a bound and the bound,   *)
(* and its flags say at which end.                                         *)
BoundIsClip ==
    Done("bound") /\ S(second.hi) >= 0 =>
        /\ S(results.hi) = Clip(-S(second.hi) - 1, S(first.hi), S(second.hi))
        /\ get(slice.vccl) = (S(first.hi) <= -S(second.hi) - 1)
        /\ get(slice.vcch) = (S(first.hi) >= S(second.hi))

(* The accumulator holds exactly the rounded fractional products and what  *)
(* VRNDP and VRNDN add to a sum of their sign; the element is its upper    *)
(* part, clamped, and VSAR reads the part above.                           *)
Product(s, t) == 2 * S(s) * S(t)
Rounded(sum) == IF sum >= 0 THEN sum + S(first.lo) * W ELSE sum

AccumulatorIsExact ==
    LET start == Product(first.hi, second.hi) + Lowest
        upper == Accumulator \div W
    IN  /\ Done("dot") => /\ Accumulator = start + Product(first.lo, second.lo)
                          /\ S(results.lo) = sclamp(upper)
                          /\ S(results.hi) = upper \div W
        /\ Done("unsigned") =>
               /\ Accumulator = start + Product(first.lo, second.lo)
               /\ results.lo = IF upper < 0 THEN 0 ELSE IF upper > Highest THEN Ones ELSE upper
        /\ Done("round") =>
               /\ Accumulator =
                      IF Rounded(start) < 0 THEN Rounded(start) + S(second.lo) ELSE Rounded(start)
               /\ S(results.lo) = sclamp(upper)

(* No carry survives a finished sequence into the next one.                *)
CarriesConsumed ==
    idiom \in {"sum", "difference", "less", "greater", "equal", "unequal", "clip", "bound"}
        /\ steps = Len(Program) => slice.vcol = 0 /\ slice.vcoh = 0

(* Double-width numbers can be computed with element by element: each      *)
(* instruction leaves in the accumulator and in VCO exactly what the next  *)
(* one of its sequence needs, and nothing for the sequence after.          *)
ArithmeticIsWide ==
    IdiomTypeOK /\ ProductIsExact /\ SumsAreExact /\ AccumulatorIsExact /\ CarriesConsumed

(* They can be compared, selected and clipped too, through VCO, VCC and    *)
(* VCE.                                                                    *)
SelectionsAreWide == ComparisonsAreWide /\ ClipIsWide /\ BoundIsClip
=============================================================================
