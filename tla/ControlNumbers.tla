--------------------------- MODULE ControlNumbers ---------------------------
(***************************************************************************)
(* What a program sees of the control registers: VCO and VCC are 16-bit    *)
(* numbers and VCE an 8-bit one, which comparisons set and which CFC2 and  *)
(* CTC2 move to and from a scalar register.                                *)
(***************************************************************************)
EXTENDS Integers

CONSTANTS Values,       \* numbers loaded into the scalar register
          Flags,        \* numbers that comparisons produce
          Exact         \* whether CTC2 must store the number it is given

VARIABLES number,       \* [{0, 1, 2} -> number]: VCO, VCC, VCE
          rt            \* the scalar register, signed

vars == <<number, rt>>

Size(d) == IF d = 2 THEN 256 ELSE 65536
Register(d) == IF d = 3 THEN 2 ELSE d
Signed16(n) == IF n >= 32768 THEN n - 65536 ELSE n

Init == number = [d \in {0, 1, 2} |-> 0] /\ rt = 0

Compare(d, n) == number' = [number EXCEPT ![d] = n % Size(d)] /\ UNCHANGED rt
Load(value) == rt' = value /\ UNCHANGED number
CFC2(d) == rt' = Signed16(number[Register(d)]) /\ UNCHANGED number

CTC2(d) ==
    /\ DOMAIN number' = DOMAIN number
    /\ \A other \in DOMAIN number \ {Register(d)} : number'[other] = number[other]
    /\ Exact => number'[Register(d)] = rt % Size(Register(d))
    /\ UNCHANGED rt

Next ==
    \/ \E d \in {0, 1, 2}, n \in Flags : Compare(d, n)
    \/ \E d \in 0 .. 3 : CFC2(d) \/ CTC2(d)
    \/ \E value \in Values : Load(value)

Spec == Init /\ [][Next]_vars
=============================================================================
