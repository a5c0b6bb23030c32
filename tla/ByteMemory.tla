----------------------------- MODULE ByteMemory -----------------------------
(***************************************************************************)
(* What the scalar loads and stores promise a program: a big-endian byte   *)
(* memory that wraps around, any alignment, and registers of four bytes.   *)
(* It knows neither words nor the host's byte order.                       *)
(***************************************************************************)
EXTENDS Integers, Sequences

CONSTANTS
    Size,       \* bytes of the memory
    Base,       \* values of a byte
    Registers,  \* scalar registers
    Addresses   \* the addresses a program computes

VARIABLES
    mem, r,
    op          \* the last operation, with its register and address

Index == 0 .. Size - 1
Byte == 0 .. Base - 1
Register == Byte \X Byte \X Byte \X Byte

Put(m, address, byte) == [m EXCEPT ![address % Size] = byte]

Put2(m, address, b1, b2) == Put(Put(m, address, b1), address + 1, b2)

Init ==
    /\ mem = [i \in Index |-> 0]
    /\ r = [x \in Registers |-> <<0, 0, 0, 0>>]
    /\ op = <<"rsp_init">>

Did(name, where, what) == op' = <<name, where, what>>

(* The byte that fills a register above a loaded value.                    *)
Fill(signed, top) == IF signed /\ 2 * top >= Base THEN Base - 1 ELSE 0

LoadByte(rt, address, signed) ==
    LET b == mem[address % Size]
        f == Fill(signed, b)
    IN  /\ Did(IF signed THEN "LB" ELSE "LBU", rt, address)
        /\ r' = [r EXCEPT ![rt] = <<f, f, f, b>>]
        /\ UNCHANGED mem

LoadHalf(rt, address, signed) ==
    LET b1 == mem[address % Size]
        b2 == mem[(address + 1) % Size]
        f == Fill(signed, b1)
    IN  /\ Did(IF signed THEN "LH" ELSE "LHU", rt, address)
        /\ r' = [r EXCEPT ![rt] = <<f, f, b1, b2>>]
        /\ UNCHANGED mem

LoadWord(rt, address, signed) ==
    /\ Did(IF signed THEN "LW" ELSE "LWU", rt, address)
    /\ r' = [r EXCEPT ![rt] = << mem[address % Size], mem[(address + 1) % Size],
                                 mem[(address + 2) % Size], mem[(address + 3) % Size] >>]
    /\ UNCHANGED mem

StoreByte(rt, address) ==
    /\ Did("SB", rt, address)
    /\ mem' = Put(mem, address, r[rt][4])
    /\ UNCHANGED r

StoreHalf(rt, address) ==
    /\ Did("SH", rt, address)
    /\ mem' = Put2(mem, address, r[rt][3], r[rt][4])
    /\ UNCHANGED r

StoreWord(rt, address) ==
    /\ Did("SW", rt, address)
    /\ mem' = Put2(Put2(mem, address, r[rt][1], r[rt][2]), address + 2, r[rt][3], r[rt][4])
    /\ UNCHANGED r

(* The host puts a byte, or an aligned word, at an address of the memory.  *)
HostByte(address, byte) ==
    /\ Did("dmemWriteU8", address, byte)
    /\ mem' = Put(mem, address, byte)
    /\ UNCHANGED r

HostWord(address, w) ==
    /\ Did("DMEM", address, w)
    /\ address % 4 = 0
    /\ mem' = Put2(Put2(mem, address, w[1], w[2]), address + 2, w[3], w[4])
    /\ UNCHANGED r

HostRegister(rt, w) ==
    /\ Did("setGPR", rt, w)
    /\ r' = [r EXCEPT ![rt] = w]
    /\ UNCHANGED mem

Program(rt, address) ==
    \/ \E signed \in BOOLEAN : LoadByte(rt, address, signed)
    \/ \E signed \in BOOLEAN : LoadHalf(rt, address, signed)
    \/ \E signed \in BOOLEAN : LoadWord(rt, address, signed)
    \/ StoreByte(rt, address)
    \/ StoreHalf(rt, address)
    \/ StoreWord(rt, address)

Next ==
    \/ \E rt \in Registers, address \in Addresses : Program(rt, address)
    \/ \E address \in Index, byte \in Byte : HostByte(address, byte)
    \/ \E address \in Index, w \in Register : HostWord(address, w)
    \/ \E rt \in Registers, w \in Register : HostRegister(rt, w)

Spec == Init /\ [][Next]_<<mem, r, op>>
=============================================================================
