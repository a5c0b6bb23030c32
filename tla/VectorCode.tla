----------------------------- MODULE VectorCode -----------------------------
(***************************************************************************)
(* The load and store instructions of the vector unit, as interpreterLWC2  *)
(* and interpreterSWC2 dispatch them, and the sequences that are checked   *)
(* and proved to copy or to transpose.                                     *)
(***************************************************************************)
EXTENDS Integers, Sequences

(* register names the address register.  The 7-bit offset imm counts units *)
(* of the access.                                                          *)
Instruction(op, vt, e, register, imm) ==
    [op |-> op, vt |-> vt, e |-> e, register |-> register, imm |-> imm]

Scale(op) ==
    CASE op \in {"LBV", "SBV"} -> 1
      [] op \in {"LSV", "SSV"} -> 2
      [] op \in {"LLV", "SLV"} -> 4
      [] op \in {"LDV", "SDV", "LPV", "SPV", "LUV", "SUV"} -> 8
      [] OTHER -> 16

LoadOps == {"LBV", "LSV", "LLV", "LDV", "LQV", "LRV", "LPV", "LUV", "LHV", "LFV"}
StoreOps == {"SBV", "SSV", "SLV", "SDV", "SQV", "SRV", "SPV", "SUV", "SHV", "SFV", "SWV", "STV"}

(* The instructions of the model: loads, stores and moves of elements.     *)
Transfers ==
    [op : LoadOps \cup StoreOps \cup {"LTV", "MFC2", "MTC2"}, vt : 0..7, e : 0..15,
     register : {"from", "to"}, imm : Int]

-----------------------------------------------------------------------------
(* The sequences that programs use them in, and what for: items bytes are  *)
(* copied from one address register to the other, one after the other or,  *)
(* in steps, around the window of 16 bytes of an address; or a matrix is   *)
(* transposed.                                                             *)

Copy(code, items) ==
    [goal |-> "copy", code |-> code, items |-> items, windowed |-> FALSE, step |-> 1]

CopyWindowed(code, items, step) ==
    [goal |-> "copy", code |-> code, items |-> items, windowed |-> TRUE, step |-> step]

From(op, e, imm) == Instruction(op, 0, e, "from", imm)
To(op, e, imm) == Instruction(op, 0, e, "to", imm)

(* An unaligned quadword.                                                  *)
Quad == { Copy(<<From("LQV", 0, 0), From("LRV", 0, 1), To("SQV", 0, 0), To("SRV", 0, 1)>>, 16) }

(* One to eight bytes, through any part of the register they fit in.       *)
Runs ==
    LET pairs == {<<"LBV", "SBV">>, <<"LSV", "SSV">>, <<"LLV", "SLV">>, <<"LDV", "SDV">>}
    IN  UNION { { Copy(<<From(p[1], e, 0), To(p[2], e, 0)>>, Scale(p[1]))
                    : e \in 0 .. 16 - Scale(p[1]) } : p \in pairs }

(* A halfword through a scalar register.                                   *)
Moves ==
    { Copy(<<From("LSV", e, 0), From("MFC2", e, 0), To("MTC2", 14 - e, 0), To("SSV", 14 - e, 0)>>, 2)
        : e \in 0..14 }

(* Packed elements: the same half of the register, or the other half with  *)
(* the instruction of the other format.                                    *)
Packed ==
    { Copy(<<From(p[1], 0, 0), To(p[2], p[3], 0)>>, 8)
        : p \in {<<"LPV", "SPV", 0>>, <<"LPV", "SUV", 8>>, <<"LUV", "SUV", 0>>, <<"LUV", "SPV", 8>>} }
    \cup { CopyWindowed(<<From("LHV", 0, 0), To("SHV", 0, 0)>>, 8, 2) }
    \cup { CopyWindowed(<<From("LFV", e, 0), To("SFV", e, 0)>>, 4, 4) : e \in {0, 8} }

Copies == Quad \cup Runs \cup Moves \cup Packed

(* Eight rows are stored with turning elements, and loaded so.             *)
Transposition ==
    { [goal |-> "transpose",
       code |-> [k \in 1..16 |-> IF k <= 8 THEN To("STV", 2 * (k - 1), k - 1)
                                 ELSE To("LTV", (16 - 2 * (k - 9)) % 16, k - 9)],
       items |-> 0, windowed |-> FALSE, step |-> 1] }
=============================================================================
