---------------------------- MODULE Quantization ----------------------------
(***************************************************************************)
(* The inverse quantization of MPEG on one lane: VMULQ multiplies a level  *)
(* by a weight, and VMACQ corrects the product (interpreter-vpu.cpp).      *)
(* Elements have their sixteen bits, because the constants 31 and 32 do    *)
(* not scale with the width as the other instructions do.                  *)
(***************************************************************************)
EXTENDS Integers

CONSTANT Factors        \* levels and weights, as signed numbers

VARIABLES h, m, l,      \* the lane's elements of ACCH, ACCM and ACCL
          vd,           \* its element of the destination
          exact,        \* history: the product of the level and the weight
          executed      \* history: the last instruction, "none" at the start

vars == <<h, m, l, vd, exact, executed>>

U16(n) == n % 65536
S16(n) == IF n < 32768 THEN n ELSE n - 65536
sclamp(n) == IF n > 32767 THEN 32767 ELSE IF n < -32768 THEN -32768 ELSE n

(* ACCH << 16 | ACCM, which is a signed 32-bit number, and its halves.     *)
Product == S16(h) * 65536 + m
Keep(product) ==
    /\ h' = U16(product \div 65536) /\ m' = U16(product)
    /\ vd' = U16(16 * (sclamp(product \div 2) \div 16))      \* & ~15

Init ==
    /\ h = 0 /\ m = 0 /\ l = 0 /\ vd = 0
    /\ exact = 0 /\ executed = "none"

(* Negative products are rounded towards zero.                             *)
VMULQ(level, weight) ==
    /\ executed = "none"
    /\ LET product == level * weight
       IN  /\ Keep(IF product < 0 THEN product + 31 ELSE product)
           /\ exact' = product
    /\ l' = 0
    /\ executed' = "VMULQ"

(* Bit 5 is clear.                                                         *)
Even(product) == (product \div 32) % 2 = 0

(* Mutant of Corrected: negative products are moved away from zero.        *)
Corrected_Away(product) ==
    IF product \notin 0 .. 31 /\ Even(product) THEN product - 32 ELSE product
Corrected(product) ==
    IF product < 0 /\ Even(product) THEN product + 32
    ELSE IF product >= 32 /\ Even(product) THEN product - 32
    ELSE product

VMACQ ==
    /\ executed # "none"
    /\ Keep(Corrected(Product))
    /\ executed' = "VMACQ"
    /\ UNCHANGED <<l, exact>>

Next == VMACQ \/ \E level, weight \in Factors : VMULQ(level, weight)

Spec == Init /\ [][Next]_vars

-----------------------------------------------------------------------------
(* VMACQ, after VMULQ: the product is moved towards zero to an odd number  *)
(* of steps of 32, which is what the element holds unless it is clamped,   *)
(* or lies in the dead zone around zero; it is less than two steps from    *)
(* the exact one, and a second VMACQ changes nothing.                      *)
QuantizedIsOdd ==
    executed = "VMACQ" =>
        /\ ~Even(Product) \/ Product \in 0 .. 31
        /\ IF exact < 0 THEN Product \in exact .. exact + 63
                        ELSE Product \in exact - 32 .. exact
        /\ sclamp(Product \div 2) = Product \div 2 =>
               S16(vd) = 0 \/ (S16(vd) \div 16) % 2 = 1
        /\ Corrected(Product) = Product
=============================================================================
