------------------------------ MODULE MCVector ------------------------------
(***************************************************************************)
(* The vector unit for TLC.                                                *)
(***************************************************************************)
EXTENDS VectorUnit, VectorCode, Sequences

-----------------------------------------------------------------------------
(* Loads and stores: the sequences that programs use, over 128 bytes of    *)
(* DMEM; the eight rows of a transposition fill it.  Every alignment in a  *)
(* line at its ends and inside it, the last line of DMEM included.         *)
MCBases == {0, 1, 7, 8, 13, 112, 121, 127}

(* A single store, with every element.                                     *)
Stores ==
    { [goal |-> "none", code |-> <<To(op, e, 0)>>, items |-> 0, windowed |-> FALSE, step |-> 1]
        : op \in StoreOps, e \in 0..15 }

MCPrograms == Copies \cup Transposition \cup Stores

(* Distinct bytes, so that a byte in a wrong place shows.                  *)
MCData == [i \in 0..127 |-> (37 * i + 11) % 256]
MCVectors == [n \in 0..7 |-> [i \in 0..15 |-> (16 * n + 5 * i + 3) % 256]]

-----------------------------------------------------------------------------
(* Three registers: enough for every way of naming one twice.  Two of the  *)
(* numbers are the same element number modulo 8.                           *)
MCRegisters == {3, 6, 11}

(* Every pair of wide numbers of 3-bit elements, on lanes with flags and   *)
(* an accumulator left by earlier instructions.                            *)
MCIdioms == {"product", "sum", "difference", "less", "greater", "equal", "unequal",
                "clip", "bound", "dot", "unsigned", "round"}

Leftover(col, coh, ccl, ce) ==
    [h |-> col, m |-> 5, l |-> coh, vcol |-> col, vcoh |-> coh,
     vccl |-> ccl, vcch |-> ccl, vce |-> ce, vd |-> 0]
MCLeftovers == {Leftover(0, 0, 0, 0), Leftover(7, 7, 7, 7),
                Leftover(7, 0, 7, 0), Leftover(0, 7, 0, 7)}

(* Products around zero and of every residue of 64, and the greatest.      *)
MCFactors == (-36 .. 36) \cup {-32768, -2047, -181, 181, 2047, 32767}

(* Numbers and flags at the end of a byte and mixed; 42330 has different   *)
(* bits in the two bytes of a pair.                                        *)
MCValues == {1, 128, 42330}
MCFlags == {0, 128, 32768, 42330}

(* Elements around powers of two and of both signs: as upper halves they   *)
(* give operands of every magnitude, as lower halves every table index of  *)
(* the small ones.                                                         *)
MCElements == {0, 1, 2, 3, 7, 100, 181, 256, 257, 511, 513, 1000, 10923,
               32767, 32768, 40000, 65535}
=============================================================================
