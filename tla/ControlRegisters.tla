-------------------------- MODULE ControlRegisters --------------------------
(***************************************************************************)
(* CFC2 and CTC2: the control registers VCO, VCC and VCE as numbers in a   *)
(* scalar register.  Each is one or two r128, whose element n stands for   *)
(* bit n of the lower byte and for bit 8 + n, and which the instructions   *)
(* read as "not zero".                                                     *)
(***************************************************************************)
EXTENDS Integers

CONSTANTS Values,       \* numbers that the program loads to move them
          Flags         \* flags that its comparisons produce, as numbers

Lanes == 0 .. 7
Registers == {"vcoh", "vcol", "vcch", "vccl", "vce"}

VARIABLES vc,           \* [Registers -> [Lanes -> element]]
          rt            \* the scalar register, signed

vars == <<vc, rt>>

zero == [n \in Lanes |-> 0]

(* 1 << i                                                                  *)
Weight(i) ==
    <<1, 2, 4, 8, 16, 32, 64, 128, 256, 512, 1024, 2048, 4096, 8192, 16384, 32768>>[i + 1]
BitOf(value, i) == (value \div Weight(i)) % 2

Lower(d) == CASE d = 0 -> "vcol" [] d = 1 -> "vccl" [] d \in {2, 3} -> "vce"
Upper(d) == CASE d = 0 -> "vcoh" [] d = 1 -> "vcch" [] d \in {2, 3} -> "none"

Assign(d, lower, upper) ==
    vc' = [v \in Registers |-> IF v = Lower(d) THEN lower
                               ELSE IF v = Upper(d) THEN upper ELSE vc[v]]

(* r128::get of every element, at its place in a byte.                     *)
Gathered(elements) ==
    LET bit(n) == IF elements[n] # 0 THEN Weight(n) ELSE 0
    IN  bit(0) + bit(1) + bit(2) + bit(3) + bit(4) + bit(5) + bit(6) + bit(7)

Init == vc = [v \in Registers |-> zero] /\ rt = 0

(* r128::set in every lane, by a comparison or a carrying sum.             *)
Compare(d, flags) ==
    /\ Assign(d, [n \in Lanes |-> 65535 * BitOf(flags, n)],
                 [n \in Lanes |-> 65535 * BitOf(flags, 8 + n)])
    /\ UNCHANGED rt

Load(value) == rt' = value /\ UNCHANGED vc

(* Mutant of CFC2: the two halves of a pair are swapped.                   *)
CFC2_Swapped(d) ==
    LET lo == Gathered(vc[Lower(d)])
        hi == IF Upper(d) = "none" THEN 0 ELSE Gathered(vc[Upper(d)])
    IN  /\ rt' = 256 * lo + hi - (IF lo >= 128 THEN 65536 ELSE 0)
        /\ UNCHANGED vc
CFC2(d) ==
    LET lo == Gathered(vc[Lower(d)])
        hi == IF Upper(d) = "none" THEN 0 ELSE Gathered(vc[Upper(d)])
    IN  /\ rt' = 256 * hi + lo - (IF hi >= 128 THEN 65536 ELSE 0)   \* s16
        /\ UNCHANGED vc

(* r128{n, bit} is not r128::set: it initializes the two 64-bit halves,    *)
(* the lower with n and the upper with the masked bit of rt.  Element 7    *)
(* is the lowest of the one, element 3 of the other.  Every iteration      *)
(* assigns the whole register, so that the one of n = 7 stays.             *)
LastIteration(i) == [zero EXCEPT ![7] = 7, ![3] = BitOf(rt, i) * Weight(i)]

(* For VCE hi is a null pointer; the store through it is undefined and not *)
(* modelled.                                                               *)
CTC2(d) == Assign(d, LastIteration(7), LastIteration(15)) /\ UNCHANGED rt

Next ==
    \/ \E d \in {0, 1, 2}, flags \in Flags : Compare(d, flags)
    \/ \E d \in 0 .. 3 : CFC2(d)
    \/ \E d \in 0 .. 3 : CTC2(d)
    \/ \E value \in Values : Load(value)

Spec == Init /\ [][Next]_vars

-----------------------------------------------------------------------------
Numbers ==
    [d \in {0, 1, 2} |->
        Gathered(vc[Lower(d)]) + (IF d = 2 THEN 0 ELSE 256 * Gathered(vc[Upper(d)]))]

Readable == INSTANCE ControlNumbers WITH number <- Numbers, Exact <- FALSE
Writable == INSTANCE ControlNumbers WITH number <- Numbers, Exact <- TRUE

(* The registers are numbers as far as programs read them: CFC2 gives the  *)
(* flags of all lanes at their places and changes none, and a CTC2 leaves  *)
(* the other control registers alone.                                      *)
ReadsAreNumbers == Readable!Spec

(* "16-bit little endian", "8-bit little endian": the registers are        *)
(* numbers for writing too, so that CTC2 stores the number it is given,    *)
(* one flag for each of its bits.                                          *)
WritesAreNumbers == Writable!Spec
=============================================================================
