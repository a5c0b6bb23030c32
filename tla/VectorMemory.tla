---------------------------- MODULE VectorMemory ----------------------------
(***************************************************************************)
(* The vector loads and stores and the moves between the scalar and vector *)
(* units (interpreter-vpu.cpp), run in the short sequences that programs   *)
(* use them in.  A vector register is the function from 0..15 to its       *)
(* bytes, byte 0 the most significant one of element 0.                    *)
(***************************************************************************)
EXTENDS Dmem, VectorCode

CONSTANTS
    Idioms,     \* the sequences of instructions a program may consist of
    Bases,      \* values of the address registers: u32, here small
    InitData,   \* what DMEM and the registers hold when a program begins
    InitVectors

VARIABLES
    data,       \* dmem.data
    vr,         \* vpu.r[0..7], the group of eight that LTV and STV work on
    idiom,      \* the program that runs
    base,       \* its address registers: where it loads from and stores to
    rt,         \* the scalar register it moves through
    pc          \* its next instruction

vars == <<data, vr, idiom, base, rt, pc>>

Bytes == 0 .. 15
Vector == [Bytes -> Byte]

(* r128::element                                                           *)
element(v, n) == Base * v[2 * n] + v[2 * n + 1]

(* address & 15 and address & 7                                            *)
inLine(address) == address % 16
inUnit(address) == address % 8

-----------------------------------------------------------------------------
(* Loads.  e is the element field of the instruction; an unsigned          *)
(* difference that is masked with & 15 is a difference modulo 16.          *)

(* Bytes e .. e + n - 1 of the register, as far as it goes, from n         *)
(* successive addresses: LBV, LSV, LLV, LDV and LQV.                       *)
LoadRun(d, v, e, address, n) ==
    [i \in Bytes |-> IF i \in e .. e + n - 1 THEN readByte(d, address + i - e) ELSE v[i]]

LQV(d, v, e, address) == LoadRun(d, v, e, address, 16 - inLine(address))

LRV(d, v, e, address) ==
    LET start == 16 - (inLine(address) - e)
    IN  [i \in Bytes |->
            IF e <= inLine(address) /\ i >= start
            THEN readByte(d, address - inLine(address) + i - start)
            ELSE v[i]]

(* The byte at position k of the 16-byte window of an address.             *)
Window(address) == address - inUnit(address)
inWindow(address, k) == Window(address) + (k % 16)

(* LPV, LUV and LHV: element n is the byte at position index + n * step,   *)
(* shifted up by 8 or by 7.                                                *)
LoadPacked(d, e, address, step, shift) ==
    LET byte(n) == readByte(d, inWindow(address, inUnit(address) - e + n * step))
        value(n) == IF shift = 8 THEN byte(n) * Base ELSE byte(n) * (Base \div 2)
    IN  [i \in Bytes |-> IF i % 2 = 0 THEN value(i \div 2) \div Base
                                      ELSE value(i \div 2) % Base]

LFV(d, v, e, address) ==
    LET position(n) == IF n < 4 THEN 4 * n ELSE 4 * (n - 4) + 8
        value(n) == readByte(d, inWindow(address, inUnit(address) - e + position(n)))
                        * (Base \div 2)
    IN  [i \in Bytes |->
            IF i \notin e .. e + 7 THEN v[i]
            ELSE IF i % 2 = 0 THEN value(i \div 2) \div Base ELSE value(i \div 2) % Base]

(* LTV fills one element of each register of the group, from 16 bytes that *)
(* wrap around inside their window.                                        *)
LTV(d, regs, e, address) ==
    LET at(k) == inWindow(address, e + 8 * ((address \div 8) % 2) + k)
        turn(n) == (n - e \div 2) % 8       \* the iteration that fills register n
    IN  [n \in 0..7 |->
            [regs[n] EXCEPT ![2 * turn(n)] = readByte(d, at(2 * turn(n))),
                            ![2 * turn(n) + 1] = readByte(d, at(2 * turn(n) + 1))]]

-----------------------------------------------------------------------------
(* Stores: n times write<Byte>, at address[k] the value byte[k]; the last   *)
(* write to a byte of the array stays.                                     *)
Scatter(d, n, address, byte) ==
    LET writes(i) == {k \in 0 .. n - 1 : At(address[k]) = i}
    IN  [i \in Index |->
            IF writes(i) = {} THEN d[i]
            ELSE byte[CHOOSE k \in writes(i) : \A j \in writes(i) : j <= k]]

(* SBV, SSV, SLV, SDV and SQV: unlike the loads they wrap around in the    *)
(* register.                                                               *)
StoreRun(d, v, e, address, n) ==
    Scatter(d, n, [k \in Bytes |-> address + k], [k \in Bytes |-> v[(e + k) % 16]])

(* Mutant of SQV: it stores the whole register, past the end of its line.  *)
SQV_Whole(d, v, e, address) == StoreRun(d, v, e, address, 16)
SQV(d, v, e, address) == StoreRun(d, v, e, address, 16 - inLine(address))

SRV(d, v, e, address) ==
    LET line == address - inLine(address)
        rest == 16 - inLine(address)
    IN  Scatter(d, inLine(address), [k \in Bytes |-> line + k],
                [k \in Bytes |-> v[(e + k + rest) % 16]])

(* The two ways to make a byte of element n.                               *)
Top(v, n) == v[2 * n]
Rounded(v, n) == (element(v, n) \div (Base \div 2)) % Base      \* >> 7

SPV(d, v, e, address) ==
    Scatter(d, 8, [k \in 0..7 |-> address + k],
            [k \in 0..7 |-> IF (e + k) % 16 < 8 THEN Top(v, (e + k) % 8)
                                                ELSE Rounded(v, (e + k) % 8)])

SUV(d, v, e, address) ==
    Scatter(d, 8, [k \in 0..7 |-> address + k],
            [k \in 0..7 |-> IF (e + k) % 16 < 8 THEN Rounded(v, (e + k) % 8)
                                                ELSE Top(v, (e + k) % 8)])

SHV(d, v, e, address) ==
    Scatter(d, 8, [k \in 0..7 |-> inWindow(address, inUnit(address) + 2 * k)],
            [k \in 0..7 |->
                (2 * v[(e + 2 * k) % 16] + v[(e + 2 * k + 1) % 16] \div (Base \div 2)) % Base])

(* The elements SFV stores for each element field; zeroes for any other.   *)
FourthElements ==
    [e \in {0, 1, 4, 5, 8, 11, 12, 15} |->
        CASE e \in {0, 15} -> <<0, 1, 2, 3>>
          [] e = 1 -> <<6, 7, 4, 5>>        [] e = 4 -> <<1, 2, 3, 0>>
          [] e = 5 -> <<7, 4, 5, 6>>        [] e = 8 -> <<4, 5, 6, 7>>
          [] e = 11 -> <<3, 0, 1, 2>>       [] e = 12 -> <<5, 6, 7, 4>>]

SFV(d, v, e, address) ==
    Scatter(d, 4, [k \in 0..3 |-> inWindow(address, inUnit(address) + 4 * k)],
            [k \in 0..3 |-> IF e \in DOMAIN FourthElements
                       THEN Rounded(v, FourthElements[e][k + 1])
                       ELSE 0])

SWV(d, v, e, address) ==
    Scatter(d, 16, [k \in Bytes |-> inWindow(address, inUnit(address) + k)],
            [k \in Bytes |-> v[(e + k) % 16]])

(* Mutant of STV: the element does not turn with the instruction's e.      *)
STV_Unturned(d, regs, e, address) ==
    Scatter(d, 16, [k \in Bytes |-> inWindow(address, inUnit(address) - 2 * (e \div 2) + k)],
            [k \in Bytes |-> regs[k \div 2][k]])
STV(d, regs, e, address) ==
    Scatter(d, 16, [k \in Bytes |-> inWindow(address, inUnit(address) - 2 * (e \div 2) + k)],
            [k \in Bytes |-> regs[k \div 2][(16 - 2 * (e \div 2) + k) % 16]])

-----------------------------------------------------------------------------
(* MFC2 and MTC2: two bytes to and from a scalar register of four.         *)

MFC2(v, e) ==
    LET hi == v[e]
        sign == IF hi < Base \div 2 THEN 0 ELSE Base - 1
    IN  <<sign, sign, hi, v[(e + 1) % 16]>>

MTC2(w, v, e) ==
    [i \in Bytes |-> CASE i = e -> w[3] [] i = e + 1 -> w[4] [] OTHER -> v[i]]

-----------------------------------------------------------------------------
(* The address an instruction accesses.                                    *)
Address(i) == base[i.register] + i.imm * Scale(i.op)

Loaded(op, v, e, address) ==
    CASE op \in {"LBV", "LSV", "LLV", "LDV"} -> LoadRun(data, v, e, address, Scale(op))
      [] op = "LQV" -> LQV(data, v, e, address)
      [] op = "LRV" -> LRV(data, v, e, address)
      [] op = "LPV" -> LoadPacked(data, e, address, 1, 8)
      [] op = "LUV" -> LoadPacked(data, e, address, 1, 7)
      [] op = "LHV" -> LoadPacked(data, e, address, 2, 7)
      [] op = "LFV" -> LFV(data, v, e, address)

Stored(op, v, e, address) ==
    CASE op \in {"SBV", "SSV", "SLV", "SDV"} -> StoreRun(data, v, e, address, Scale(op))
      [] op = "SQV" -> SQV(data, v, e, address)
      [] op = "SRV" -> SRV(data, v, e, address)
      [] op = "SPV" -> SPV(data, v, e, address)
      [] op = "SUV" -> SUV(data, v, e, address)
      [] op = "SHV" -> SHV(data, v, e, address)
      [] op = "SFV" -> SFV(data, v, e, address)
      [] op = "SWV" -> SWV(data, v, e, address)
      [] op = "STV" -> STV(data, vr, e, address)

Done == pc > Len(idiom.code)
Current == idiom.code[pc]

Advance ==
    /\ pc' = pc + 1
    /\ UNCHANGED <<idiom, base>>

Load ==
    /\ ~Done /\ Current.op \in LoadOps
    /\ vr' = [vr EXCEPT ![Current.vt] = Loaded(Current.op, @, Current.e, Address(Current))]
    /\ Advance
    /\ UNCHANGED <<data, rt>>

TransposedLoad ==
    /\ ~Done /\ Current.op = "LTV"
    /\ vr' = LTV(data, vr, Current.e, Address(Current))
    /\ Advance
    /\ UNCHANGED <<data, rt>>

Store ==
    /\ ~Done /\ Current.op \in StoreOps
    /\ data' = Stored(Current.op, vr[Current.vt], Current.e, Address(Current))
    /\ Advance
    /\ UNCHANGED <<vr, rt>>

MoveFrom ==
    /\ ~Done /\ Current.op = "MFC2"
    /\ rt' = MFC2(vr[Current.vt], Current.e)
    /\ Advance
    /\ UNCHANGED <<data, vr>>

MoveTo ==
    /\ ~Done /\ Current.op = "MTC2"
    /\ vr' = [vr EXCEPT ![Current.vt] = MTC2(rt, @, Current.e)]
    /\ Advance
    /\ UNCHANGED <<data, rt>>

Init ==
    /\ data = InitData
    /\ vr = InitVectors
    /\ idiom \in Idioms
    /\ base \in [{"from", "to"} -> Bases]
    /\ rt = <<0, 0, 0, 0>>
    /\ pc = 1

Next == Load \/ TransposedLoad \/ Store \/ MoveFrom \/ MoveTo

Spec == Init /\ [][Next]_vars

-----------------------------------------------------------------------------
TypeOK ==
    /\ data \in Data
    /\ vr \in [0..7 -> Vector]
    /\ rt \in Byte \X Byte \X Byte \X Byte

(* Idioms that copy: the n-th byte they move, relative to an address.      *)
Place(address, n) ==
    IF idiom.windowed THEN inWindow(address, inUnit(address) + idiom.step * n) ELSE address + n

(* A program that loads with one instruction or pair and stores with the   *)
(* matching one moves exactly the bytes it names and changes no other, at  *)
(* every alignment of both addresses, across the end of DMEM too.  The     *)
(* loads and stores are written separately (one truncates at the end of    *)
(* the register, the other wraps; one shifts left, the other right; only   *)
(* some windows wrap) and nothing in the code relates them.                *)
CopiesExactly ==
    Done /\ idiom.goal = "copy" =>
        \A i \in Index :
            LET moved == {n \in 0 .. idiom.items - 1 : Place(base["to"], n) % Size = i}
            IN  readByte(data, i) =
                    IF moved = {} THEN readByte(InitData, i)
                    ELSE readByte(InitData, Place(base["from"], CHOOSE n \in moved : TRUE))

(* Eight STV and eight LTV with turning elements transpose a matrix of     *)
(* 8 by 8 elements that is stored at a quadword, whatever DMEM held.       *)
Transposes ==
    Done /\ idiom.goal = "transpose" /\ inLine(base["to"]) = 0 =>
        \A n, i \in 0..7 : element(vr[n], i) = element(InitVectors[i], n)

(* Data that goes to the vector unit and back arrives where the program    *)
(* means it to, byte for byte, and a byte of a vector stays a byte.        *)
MovesExactly == TypeOK /\ CopiesExactly /\ Transposes

(* The bytes a store may change, relative to its address.                  *)
Reach(op, address) ==
    CASE op = "SQV" -> address .. address + (15 - inLine(address))
      [] op = "SRV" -> address - inLine(address) .. address - 1
      [] op \in {"SHV", "SFV", "SWV", "STV"} -> Window(address) .. Window(address) + 15
      [] OTHER -> address .. address + Scale(op) - 1

(* A store changes nothing outside the bytes that an access of its kind at *)
(* its address covers, whatever the element: SQV stops at the end of its   *)
(* line and SRV stays below its address, so that the pair never disturbs a *)
(* neighbour; the windowed stores wrap inside 16 bytes.                    *)
StoresStayInReach ==
    [][data' # data => \A i \in Index :
          readByte(data', i) # readByte(data, i) =>
              \E a \in Reach(Current.op, Address(Current)) : a % Size = i]_vars
=============================================================================
