------------------------------- MODULE Width --------------------------------
(***************************************************************************)
(* Numbers of a fixed width, as the registers of the processor hold them:  *)
(* unsigned, with a signed reading.  The instructions work alike at every  *)
(* width, so that they can be checked for all operands of a small one and  *)
(* proved for any.                                                         *)
(***************************************************************************)
EXTENDS Powers

CONSTANT Bits       \* 16 for an element of a vector, 32 for a scalar

ASSUME BitsAssumption == Bits \in Nat /\ Bits >= 2

W == Power[Bits]
Number == 0 .. W - 1
Ones == W - 1               \* 0xffff
Lowest == Power[Bits - 1]   \* 0x8000
Highest == Lowest - 1       \* 0x7fff

(* .s16(n) or .s32; what is left of a value that is stored; ~n.            *)
S(n) == IF n < Lowest THEN n ELSE n - W
U(n) == n % W
Invert(n) == Ones - n

(* Bitwise operators apply a table of results to every two bits of equal   *)
(* weight, from the highest bit down.                                      *)
Top(p, n) == IF p < Power[n] THEN 0 ELSE 1
Rest(p, n) == IF p < Power[n] THEN p ELSE p - Power[n]

EachBit(table) ==
    LET below[n \in Nat] ==
            [p \in Nat |-> [q \in Nat |->
                IF n = 0 THEN 0
                ELSE Power[n - 1] * table[Top(p, n - 1)][Top(q, n - 1)]
                         + below[n - 1][Rest(p, n - 1)][Rest(q, n - 1)]]]
    IN  below[Bits]

Both == EachBit([i \in {0, 1} |-> [j \in {0, 1} |-> i * j]])
Either == EachBit([i \in {0, 1} |-> [j \in {0, 1} |-> i + j - i * j]])
Different == EachBit([i \in {0, 1} |-> [j \in {0, 1} |-> (i + j) % 2]])

And(p, q) == Both[p][q]
Or(p, q) == Either[p][q]
Xor(p, q) == Different[p][q]
=============================================================================
