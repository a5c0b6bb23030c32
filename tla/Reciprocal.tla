----------------------------- MODULE Reciprocal -----------------------------
(***************************************************************************)
(* The divider: VRCP and VRSQ on one element, VRCPH and VRSQH to hand over *)
(* the upper half of a 32-bit operand and fetch the upper half of the last *)
(* result, VRCPL and VRSQL for its lower half; and the two tables that     *)
(* RSP::power fills.                                                       *)
(***************************************************************************)
EXTENDS Powers

CONSTANTS Elements,     \* the elements that instructions are given
          Powered       \* whether power() was called before the program ran

VARIABLES divin, divout, divdp,
          vd,           \* the element of vd last written, unsigned
          last,         \* history: the last instruction and its element
          asked         \* history: the number it was asked to divide by

vars == <<divin, divout, divdp, vd, last, asked>>

S16(n) == IF n >= 32768 THEN n - 65536 ELSE n

-----------------------------------------------------------------------------
(* The tables.  Powers above 2^30 and the squares exceed TLC's integers    *)
(* and are handled in parts.                                               *)

reciprocals ==
    [index \in 0 .. 511 |->
        IF ~Powered THEN 0
        ELSE IF index = 0 THEN 65535
        ELSE LET a == index + 512
                 b == 16 * (Power[30] \div a) + (16 * (Power[30] % a)) \div a     \* 2^34 / a
             IN  ((b + 1) \div 256) % 65536]

(* a * b * b < 2^44, with b = 512 * p + q.                                 *)
Below44(a, b) ==
    LET p == b \div 512
        q == b % 512
    IN  a * p * p + (2 * a * p * q + (a * q * q) \div 512) \div 512 < Power[26]

(* The largest such b, at least 2^17; bit by bit instead of one by one.    *)
Root(a) ==
    LET guess[n \in 0 .. 17] ==
            IF n = 0 THEN Power[17]
            ELSE LET b == guess[n - 1]
                     c == b + Power[17 - n]
                 IN  IF Below44(a, c) THEN c ELSE b
    IN  guess[17]

inverseSquareRoots ==
    [index \in 0 .. 511 |->
        IF ~Powered THEN 0
        ELSE (Root((index + 512) \div (1 + (index % 2))) \div 2) % 65536]

-----------------------------------------------------------------------------
(* 32 less the leading zeros.                                              *)
Length(data) == CHOOSE k \in 1 .. 31 : data \div Power[k - 1] = 1

(* The ten upper bits without the leading one.                             *)
Index(data) ==
    LET length == Length(data)
        bits == IF length > 10 THEN data \div Power[length - 10] ELSE data * Power[10 - length]
    IN  bits - 512

Magnitude(input) ==
    IF input >= 0 THEN input ELSE IF input > -32768 THEN -input ELSE -(input + 1)

Shifted(input, entry, places) ==
    LET result == ((65536 + entry) * Power[14]) \div Power[places]
    IN  IF input < 0 THEN -(result + 1) ELSE result

ReciprocalOf(input) ==
    LET data == Magnitude(input)
    IN  IF data = 0 THEN 2147483647
        ELSE IF input = -32768 THEN -65536
        ELSE Shifted(input, reciprocals[Index(data)], Length(data) - 1)

(* The index of a root has the parity of the number of leading zeros.      *)
RootIndex(data) == 2 * (Index(data) \div 2) + ((32 - Length(data)) % 2)
InverseRootOf(input) ==
    LET data == Magnitude(input)
    IN  IF data = 0 THEN 2147483647
        ELSE IF input = -32768 THEN -65536
        ELSE Shifted(input, inverseSquareRoots[RootIndex(data)], (Length(data) - 1) \div 2)

-----------------------------------------------------------------------------
High(op) == op \in {"VRCPH", "VRSQH"}
Long(op) == op \in {"VRCPL", "VRSQL"}

(* What a program means by an instruction: the lower half joins the upper  *)
(* half that the instruction before handed over.                           *)
Meant(op, t) ==
    IF Long(op) /\ High(last.op) THEN S16(last.t) * 65536 + t ELSE S16(t)

Init ==         \* after rsp_init
    /\ divin = 0 /\ divout = 0 /\ divdp = FALSE /\ vd = 0
    /\ last = [op |-> "VRCP", t |-> 0] /\ asked = 0

Remember(op, t) == last' = [op |-> op, t |-> t] /\ asked' = Meant(op, t)

(* VRCPH and VRSQH.                                                        *)
Fetch(op, t) ==
    /\ divdp' = TRUE /\ divin' = S16(t)
    /\ vd' = divout % 65536
    /\ UNCHANGED divout
    /\ Remember(op, t)

(* VRCP, VRCPL, VRSQ and VRSQL.                                            *)
(* Mutant of Divide: the upper half stays in place for another division.   *)
Divide_Sticky(op, t) ==
    LET input == IF Long(op) /\ divdp THEN divin * 65536 + t ELSE S16(t)
        result == IF op \in {"VRCP", "VRCPL"} THEN ReciprocalOf(input) ELSE InverseRootOf(input)
    IN  /\ divout' = result \div 65536
        /\ vd' = result % 65536
        /\ UNCHANGED <<divin, divdp>>
        /\ Remember(op, t)
Divide(op, t) ==
    LET input == IF Long(op) /\ divdp THEN divin * 65536 + t ELSE S16(t)
        result == IF op \in {"VRCP", "VRCPL"} THEN ReciprocalOf(input) ELSE InverseRootOf(input)
    IN  /\ divdp' = FALSE
        /\ divout' = result \div 65536
        /\ vd' = result % 65536
        /\ UNCHANGED divin
        /\ Remember(op, t)

Next ==
    \E t \in Elements :
        \/ \E op \in {"VRCPH", "VRSQH"} : Fetch(op, t)
        \/ \E op \in {"VRCP", "VRCPL", "VRSQ", "VRSQL"} : Divide(op, t)

Spec == Init /\ [][Next]_vars

-----------------------------------------------------------------------------
Result == divout * 65536 + vd
Negative == asked < 0
Positive == IF Negative THEN -(Result + 1) ELSE Result

(* The registers of the divider hold what their C++ types can.             *)
TypeOK ==
    /\ divin \in -Power[15] .. Power[15] - 1 /\ divout \in -Power[15] .. Power[15] - 1
    /\ vd \in 0 .. Power[16] - 1 /\ divdp \in BOOLEAN

(* A reciprocal is 2^31 / asked to eight bits, for the whole 32-bit number *)
(* when its upper half was handed over just before; a negative one is the  *)
(* complement of the positive one.                                         *)
ReciprocalIsAccurate ==
    LET data == Magnitude(asked)
        exact == 2 * (Power[30] \div data)
    IN  last.op \in {"VRCP", "VRCPL"} /\ data > 1 /\ asked # -32768 =>
            Positive \in exact - exact \div 256 - 2 .. exact + exact \div 256 + 2

(* An inverse square root is 2^31 / sqrt(asked): its upper half u, squared *)
(* and taken asked times, is 2^30 to eight bits, and with (u + 1)^2 it     *)
(* would be no less.                                                       *)
RootIsAccurate ==
    LET data == Magnitude(asked)
        upper == Positive \div 65536
        exact == Power[30] \div data
    IN  last.op \in {"VRSQ", "VRSQL"} /\ data > 1 /\ asked # -32768 =>
            /\ upper * upper <= exact + exact \div 256 + 1
            /\ (upper + 1) * (upper + 1) >= exact

(* A larger operand never gets a larger reciprocal.                        *)
ReciprocalDecreases ==
    last.op \in {"VRCP", "VRCPL"} /\ asked \in 1 .. Power[30] =>
        ReciprocalOf(asked + 1) <= Result

(* Division and root, of one half and of two, are what programs take them  *)
(* for, in every order of the six instructions.                            *)
DivisionIsAccurate ==
    TypeOK /\ ReciprocalIsAccurate /\ RootIsAccurate /\ ReciprocalDecreases
=============================================================================
