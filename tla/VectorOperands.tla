--------------------------- MODULE VectorOperands ---------------------------
(***************************************************************************)
(* How a vector instruction reads its operands and writes its result, one  *)
(* iteration of its loop at a time.  vd, vs and vt are references into the *)
(* same register file and may name the same register; the element field    *)
(* makes an element of vt take part in several lanes.                      *)
(*                                                                         *)
(* What an instruction computes is abstract: a result is the record of the *)
(* two elements it was given, so that it says where it came from.          *)
(***************************************************************************)
EXTENDS Integers, Functions

CONSTANT Registers      \* numbers of the vector registers in use

Lanes == 0 .. 7
Elements == 0 .. 15

VARIABLES r,            \* the register file, [Registers -> [Lanes -> element]]
          accl,         \* lower elements of the accumulator
          kind,         \* shape of the instruction's body
          e, vd, vs, vt,    \* its fields
          vte,          \* its copy of vt(e)
          n             \* the next lane of the loop; 8 when it is over

vars == <<r, accl, kind, e, vd, vs, vt, vte, n>>
fields == <<kind, e, vd, vs, vt>>

(* The lane whose element r128::operator() copies into each lane.          *)
Table(i) ==
    CASE i \in {0, 1} -> <<0, 1, 2, 3, 4, 5, 6, 7>>
      [] i = 2 -> <<0, 0, 2, 2, 4, 4, 6, 6>>
      [] i = 3 -> <<1, 1, 3, 3, 5, 5, 7, 7>>
      [] i = 4 -> <<0, 0, 0, 0, 4, 4, 4, 4>>
      [] i = 5 -> <<1, 1, 1, 1, 5, 5, 5, 5>>
      [] i = 6 -> <<2, 2, 2, 2, 6, 6, 6, 6>>
      [] i = 7 -> <<3, 3, 3, 3, 7, 7, 7, 7>>
      [] i >= 8 -> [k \in 1 .. 8 |-> i - 8]
Source(i, j) == Table(i)[j + 1]

Broadcast(v, i) == [j \in Lanes |-> v[Source(i, j)]]

(* "looped": vd's element is stored by each iteration (VADD, VMULF, ...);  *)
(* "copied": the loop fills ACCL and vd takes all of it (VAND, VCH, ...);  *)
(* "single": one element of vd is stored, the operand of its lane (VMOV);  *)
(* "divide": or the one that the element field names (VRCP, VRSQ, ...).    *)
(* de, the element of vd, is the low part of the field of vs.              *)
Kinds == {"looped", "copied", "single", "divide"}
Whole == {"looped", "copied"}
de == vs % 8

(* The file after earlier instructions: every element is its own place.    *)
Original(k, j) == [register |-> k, lane |-> j]

Init ==
    /\ r = [k \in Registers |-> [j \in Lanes |-> Original(k, j)]]
    /\ accl = [j \in Lanes |-> "old"]
    /\ kind \in Kinds /\ e \in Elements
    /\ vd \in Registers /\ vs \in Registers /\ vt \in Registers
    /\ vte = <<>> /\ n = -1

(* cr128 vte = vt(e), before the loop.                                     *)
Begin ==
    /\ n = -1 /\ kind \in Whole
    /\ vte' = Broadcast(r[vt], e)
    /\ n' = 0
    /\ UNCHANGED <<fields, r, accl>>

Single ==
    /\ n = -1 /\ kind \notin Whole
    /\ vte' = Broadcast(r[vt], e)
    /\ accl' = vte'
    /\ r' = [r EXCEPT ![vd][de] = IF kind = "single" THEN vte'[de] ELSE r[vt][e % 8]]
    /\ n' = 8
    /\ UNCHANGED fields

(* Mutant of Operand: the loop reads vt itself, not a copy.                *)
Operand_InPlace == r[vt][Source(e, n)]
Operand == vte[n]

Iterate ==
    /\ n \in Lanes
    /\ LET result == [vs |-> r[vs][n], vt |-> Operand]
       IN  /\ accl' = [accl EXCEPT ![n] = result]
           /\ r' = IF kind = "looped" THEN [r EXCEPT ![vd][n] = result]
                   ELSE IF n = 7 THEN [r EXCEPT ![vd] = accl'] ELSE r
    /\ n' = n + 1
    /\ UNCHANGED <<fields, vte>>

Next == Begin \/ Iterate \/ Single

Spec == Init /\ [][Next]_vars

-----------------------------------------------------------------------------
(* What the element field means: 2 and 3 choose within pairs, 4 to 7       *)
(* within halves, 8 to 15 within the whole register.                       *)
Chosen(i, j) ==
    LET group == IF i < 2 THEN 1 ELSE IF i < 4 THEN 2 ELSE IF i < 8 THEN 4 ELSE 8
    IN  j - (j % group) + (i % group)

(* A finished instruction gave every lane the operands that the registers  *)
(* held before it began, whatever registers it names twice.                *)
OperandsAreOld ==
    n = 8 =>
        IF kind \in Whole
        THEN \A j \in Lanes :
                r[vd][j] = [vs |-> Original(vs, j), vt |-> Original(vt, Chosen(e, j))]
        ELSE /\ r[vd][de] =
                    Original(vt, IF kind = "single" THEN Chosen(e, de) ELSE e % 8)
             /\ \A j \in Lanes \ {de} : r[vd][j] = Original(vd, j)

(* The accumulator and vd receive the same elements, and no register but   *)
(* vd is touched.                                                          *)
OnlyDestination ==
    /\ \A k \in Registers \ {vd}, j \in Lanes : r[k][j] = Original(k, j)
    /\ n = 8 /\ kind \in Whole => r[vd] = accl

(* The loop over lanes is invisible: an instruction works as if it read    *)
(* all its operands first and wrote all of its destination at once.        *)
AtOnce == OperandsAreOld /\ OnlyDestination
=============================================================================
