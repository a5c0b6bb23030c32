---------------------------- MODULE ScalarMemory ----------------------------
(***************************************************************************)
(* The scalar loads and stores over DMEM (interpreter-ipu.cpp), with what  *)
(* the host does to DMEM and to the registers between two calls            *)
(* (rspjs.js).  A register is the sequence of its four bytes.              *)
(***************************************************************************)
EXTENDS Dmem

CONSTANTS
    Registers,  \* the scalar registers
    Addresses   \* values of rs + imm: u32, here small enough to stay exact

ASSUME AddressesAssumption == Addresses \subseteq Nat

VARIABLES
    data,       \* dmem.data
    r,          \* ipu.r
    op          \* history: the last operation, its register and address

vars == <<data, r, op>>

Register == Byte \X Byte \X Byte \X Byte

TypeOK ==
    /\ data \in Data
    /\ r \in [Registers -> Register]

Init ==
    /\ data = [i \in Index |-> 0]
    /\ r = [x \in Registers |-> <<0, 0, 0, 0>>]
    /\ op = <<"rsp_init">>

Did(name, where, what) == op' = <<name, where, what>>

-----------------------------------------------------------------------------
(* The conversion to s8 or s16 before the assignment to rt.u32 repeats the *)
(* sign bit, the top bit of the top byte.                                  *)

(* Mutant of Sign: one value too many.                                     *)
Sign_TooLarge(top) == IF top < Base \div 2 THEN 0 ELSE Base
Sign(top) == IF top < Base \div 2 THEN 0 ELSE Base - 1

(* Mutant of FromHalf: the sign is taken from the low byte.                *)
FromHalf_LowSign(h) == <<Sign(h[2]), Sign(h[2]), h[1], h[2]>>
FromHalf(h) == <<Sign(h[1]), Sign(h[1]), h[1], h[2]>>

Set(rt, bytes) ==
    /\ r' = [r EXCEPT ![rt] = bytes]
    /\ UNCHANGED data

LB(rt, address) ==
    LET b == readByte(data, address) IN
    Set(rt, <<Sign(b), Sign(b), Sign(b), b>>) /\ Did("LB", rt, address)

LBU(rt, address) ==
    Set(rt, <<0, 0, 0, readByte(data, address)>>) /\ Did("LBU", rt, address)

LH(rt, address) ==
    Set(rt, FromHalf(readHalfUnaligned(data, address))) /\ Did("LH", rt, address)

LHU(rt, address) ==
    LET h == readHalfUnaligned(data, address) IN
    Set(rt, <<0, 0, h[1], h[2]>>) /\ Did("LHU", rt, address)

LW(rt, address) == Set(rt, readWordUnaligned(data, address)) /\ Did("LW", rt, address)
LWU(rt, address) == Set(rt, readWordUnaligned(data, address)) /\ Did("LWU", rt, address)

Store(newData) ==
    /\ data' = newData
    /\ UNCHANGED r

SB(rt, address) ==
    Store(writeByte(data, address, r[rt][4])) /\ Did("SB", rt, address)

SH(rt, address) ==
    /\ Store(writeHalfUnaligned(data, address, <<r[rt][3], r[rt][4]>>))
    /\ Did("SH", rt, address)

SW(rt, address) ==
    Store(writeWordUnaligned(data, address, r[rt])) /\ Did("SW", rt, address)

Program(rt, address) ==
    \/ LB(rt, address) \/ LBU(rt, address)
    \/ LH(rt, address) \/ LHU(rt, address)
    \/ LW(rt, address) \/ LWU(rt, address)
    \/ SB(rt, address) \/ SH(rt, address) \/ SW(rt, address)

-----------------------------------------------------------------------------
(* The host: dmemWriteU8, words through the little-endian view of DMEM,    *)
(* setGPR.                                                                 *)

HostByte(addr, byte) ==
    Store(dmemWriteU8(data, addr, byte)) /\ Did("dmemWriteU8", addr, byte)

HostWord(addr, w) ==
    /\ addr % 4 = 0
    /\ Store([data EXCEPT ![addr] = w[4], ![addr + 1] = w[3],
                          ![addr + 2] = w[2], ![addr + 3] = w[1]])
    /\ Did("DMEM", addr, w)

setGPR(rt, w) == Set(rt, w) /\ Did("setGPR", rt, w)

Next ==
    \/ \E rt \in Registers, address \in Addresses : Program(rt, address)
    \/ \E addr \in Index, byte \in Byte : HostByte(addr, byte)
    \/ \E addr \in Index, w \in Register : HostWord(addr, w)
    \/ \E rt \in Registers, w \in Register : setGPR(rt, w)

Spec == Init /\ [][Next]_vars

-----------------------------------------------------------------------------
(* The refinement: the byte at an address is the byte of data at the       *)
(* mirrored position.                                                      *)

Abstract == INSTANCE ByteMemory WITH mem <- [i \in Index |-> data[Mirror(i)]]

(* Words kept in the host's order, accesses made of single bytes, masks on *)
(* each of them and the host's own mirroring are together invisible: the   *)
(* program and the host see one big-endian byte memory that wraps at its   *)
(* end, in a word that straddles it too (memory/lsb/writable.hpp).  Every  *)
(* operation does what ByteMemory's operation of that name does, with the  *)
(* same register and address.                                              *)
ImplementsByteMemory == Abstract!Spec

(* The ways to a byte agree: the host's dmemReadU8, a load of the program, *)
(* and the aligned word read that fetches instructions give the same bytes *)
(* at every address, in every state the program and the host can reach.    *)
ViewsAgree ==
    \A a \in Index :
        /\ dmemReadU8(data, a) = readByte(data, a)
        /\ a % 4 = 0 => readWord(data, a) = readWordUnaligned(data, a)
=============================================================================
