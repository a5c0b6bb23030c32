----------------------------- MODULE ScalarUnit -----------------------------
(***************************************************************************)
(* The computational instructions of interpreter-ipu.cpp, run in the       *)
(* sequences that compilers build wider operations from.  An immediate is  *)
(* half as wide as a register.                                             *)
(***************************************************************************)
EXTENDS Width, Sequences

CONSTANTS Idioms,           \* names of the sequences to run
          Highs,            \* upper words of the operands
          Zeros             \* what the host may write to $0

Half == Bits \div 2

(* s16 imm.                                                                *)
Extend(imm) == IF imm < Power[Half - 1] THEN imm ELSE imm - Power[Half]

VARIABLES r,                \* the registers: 1 and 2, 3 and 4 hold the operands,
                            \* 5 and 6 the result, lower words first; 7 is free
          a, b, idiom,      \* the operands and the sequence, chosen at the start
          pc                \* instructions executed

vars == <<r, a, b, idiom, pc>>

(* rt.s32 >> sa: the division rounds down.                                 *)
ShiftSigned(n, sa) == U(S(n) \div Power[sa])

Bool(value) == IF value THEN 1 ELSE 0

(* rs.u32 & 31.                                                            *)
Amount(n) == n % Bits

(* rs.u32 < rt.u32.  Mutant: the registers are read as signed.             *)
Below_Signed(s, t) == S(s) < S(t)
Below(s, t) == s < t

(* Instructions with two source registers, in the order of the body.       *)
Binary(op, s, t) ==
    CASE op = "ADDU" -> U(s + t)        [] op = "SUBU" -> U(s - t)
      [] op = "AND" -> And(s, t)        [] op = "OR" -> Or(s, t)
      [] op = "XOR" -> Xor(s, t)        [] op = "NOR" -> Invert(Or(s, t))
      [] op = "SLT" -> Bool(S(s) < S(t))
      [] op = "SLTU" -> Bool(Below(s, t))
      [] op = "SLLV" -> U(s * Power[Amount(t)])
      [] op = "SRLV" -> s \div Power[Amount(t)]
      [] op = "SRAV" -> ShiftSigned(s, Amount(t))

(* Instructions with an immediate or a shift amount.                       *)
Immediate(op, s, imm) ==
    CASE op = "ADDIU" -> U(s + Extend(imm))
      [] op = "ANDI" -> And(s, imm)     [] op = "ORI" -> Or(s, imm)
      [] op = "XORI" -> Xor(s, imm)     [] op = "LUI" -> U(imm * Power[Half])
      [] op = "SLTI" -> Bool(S(s) < Extend(imm))
      [] op = "SLTIU" -> Bool(Below(s, U(Extend(imm))))
      [] op = "SLL" -> U(s * Power[imm])     [] op = "SRL" -> s \div Power[imm]
      [] op = "SRA" -> ShiftSigned(s, imm)

-----------------------------------------------------------------------------
(* Sequences of instructions: R names two registers, N one and a number.   *)

R(op, d, s, t) == [op |-> op, d |-> d, s |-> s, t |-> t, immediate |-> FALSE]
N(op, d, s, imm) == [op |-> op, d |-> d, s |-> s, t |-> imm, immediate |-> TRUE]

Lower == a.lo % Power[Half]
Upper == a.lo \div Power[Half]

Program ==
    CASE idiom = "sum" ->
           <<R("ADDU", 5, 1, 3), R("SLTU", 7, 5, 3), R("ADDU", 6, 2, 4), R("ADDU", 6, 6, 7)>>
      [] idiom = "difference" ->
           <<R("SLTU", 7, 1, 3), R("SUBU", 5, 1, 3), R("SUBU", 6, 2, 4), R("SUBU", 6, 6, 7)>>
      [] idiom = "less" ->
           <<R("XOR", 7, 2, 4), N("SLTIU", 7, 7, 1), R("SLTU", 5, 1, 3), R("AND", 7, 7, 5),
             R("SLT", 6, 2, 4), R("OR", 5, 6, 7)>>
      [] idiom = "rotate" ->
           <<R("SLLV", 5, 1, 3), R("SUBU", 7, 0, 3), R("SRLV", 7, 1, 7), R("OR", 5, 5, 7)>>
      [] idiom = "magnitude" ->
           <<N("SRA", 7, 1, Bits - 1), R("XOR", 5, 1, 7), R("SUBU", 5, 5, 7)>>
      [] idiom = "negate" -> <<N("ADDIU", 7, 1, Power[Half] - 1), R("NOR", 5, 0, 7)>>
      [] idiom = "least" ->
           <<R("SLT", 7, 1, 3), R("SUBU", 7, 0, 7), R("XOR", 5, 1, 3), R("AND", 5, 5, 7),
             R("XOR", 5, 5, 3)>>
      [] idiom = "sign" -> <<N("SLL", 5, 1, Half), N("SRA", 5, 5, Half)>>
      [] idiom = "shift" ->
           <<R("SRAV", 5, 1, 3), N("SRL", 6, 1, Bits - 1), R("SRAV", 7, 5, 3)>>
      [] idiom = "constant" -> <<N("LUI", 5, 0, Upper), N("ORI", 5, 5, Lower)>>
      [] idiom = "address" ->
           <<N("LUI", 5, 0, ((a.lo + Power[Half - 1]) \div Power[Half]) % Power[Half]),
             N("ADDIU", 5, 5, Lower)>>
      [] idiom = "saturated" ->
           <<N("SLTI", 5, 1, Lower), N("SLTIU", 6, 1, Lower), N("ANDI", 7, 1, Lower),
             N("XORI", 7, 7, Lower)>>

Wide == [hi : Highs, lo : Number]

Init ==
    /\ a \in Wide /\ b \in Wide /\ idiom \in Idioms
    /\ r = [k \in 0 .. 7 |-> CASE k = 1 -> a.lo [] k = 2 -> a.hi
                                [] k = 3 -> b.lo [] k = 4 -> b.hi [] OTHER -> 0]
    /\ pc = 0

(* setGPR("$0", zero), while the processor stands before the sequence.     *)
SetZero(zero) ==
    /\ pc = 0 /\ r[0] # zero
    /\ r' = [r EXCEPT ![0] = zero]
    /\ UNCHANGED <<a, b, idiom, pc>>

Result(i) == IF i.immediate THEN Immediate(i.op, r[i.s], i.t) ELSE Binary(i.op, r[i.s], r[i.t])

(* The instruction and its epilogue, which clears $0.                      *)
Step ==
    /\ pc < Len(Program)
    /\ LET i == Program[pc + 1] IN r' = [r EXCEPT ![i.d] = Result(i), ![0] = 0]
    /\ pc' = pc + 1
    /\ UNCHANGED <<a, b, idiom>>

Next == Step \/ \E zero \in Zeros : SetZero(zero)

Spec == Init /\ [][Next]_vars

-----------------------------------------------------------------------------
Signed(n) == S(n.hi) * W + n.lo
Pair == r[6] * W + r[5]
Done(name) == idiom = name /\ pc = Len(Program)

(* Registers keep their width, and $0 is zero after every instruction,     *)
(* whatever the host wrote to it before the first.                         *)
TypeOK == r \in [0 .. 7 -> Number] /\ pc \in 0 .. 6 /\ (pc > 0 => r[0] = 0)

(* Sums, differences and comparisons of two words, with the carry computed *)
(* by SLTU, are those of the double-width numbers.                         *)
WordsAreJoined ==
    /\ Done("sum") => Pair = (Signed(a) + Signed(b)) % (W * W)
    /\ Done("difference") => Pair = (Signed(a) - Signed(b)) % (W * W)
    /\ Done("less") => r[5] = Bool(Signed(a) < Signed(b))

(* A rotation by any amount, built from shifts that use the amount modulo  *)
(* the width, moves every bit and loses none.                              *)
RotationKeepsBits ==
    Done("rotate") =>
        \A i \in 0 .. Bits - 1 :
            (a.lo \div Power[i]) % 2 = (r[5] \div Power[(i + b.lo) % Bits]) % 2

(* Negation, magnitude, minimum, sign extension and signed shifts agree    *)
(* with the signed reading of the register.                                *)
SignsAreKept ==
    /\ Done("negate") => r[5] = U(-S(a.lo))
    /\ Done("magnitude") => r[5] = U(IF S(a.lo) < 0 THEN -S(a.lo) ELSE S(a.lo))
    /\ Done("least") => S(r[5]) = IF S(a.lo) < S(b.lo) THEN S(a.lo) ELSE S(b.lo)
    /\ Done("sign") => S(r[5]) = Extend(Lower)
    /\ Done("shift") =>
           /\ r[6] = Bool(S(a.lo) < 0)
           /\ S(r[5]) * Power[b.lo % Bits] \in S(a.lo) - Power[b.lo % Bits] + 1 .. S(a.lo)
           /\ (S(r[7]) < 0) = (S(a.lo) < 0)

(* LUI joins a zero-extended half by ORI and a sign-extended one by ADDIU, *)
(* whose borrow the upper half makes good; SLTI and SLTIU compare with the *)
(* extended immediate, signed and unsigned, ANDI and XORI with its bits.   *)
ImmediatesAreExtended ==
    /\ Done("constant") \/ Done("address") => r[5] = a.lo
    /\ Done("saturated") =>
           /\ r[5] = Bool(S(a.lo) < Extend(Lower))
           /\ r[6] = Bool(a.lo < U(Extend(Lower)))
           /\ r[7] = 0

(* Every sequence computes what it is for: its instructions agree on which *)
(* operands are signed, which amounts wrap and which immediates extend.    *)
SequencesCompute ==
    TypeOK /\ WordsAreJoined /\ RotationKeepsBits /\ SignsAreKept /\ ImmediatesAreExtended
=============================================================================
