-------------------------------- MODULE Dmem --------------------------------
(***************************************************************************)
(* One 4 KiB memory of the RSP (struct Writable, memory/lsb/writable.hpp)  *)
(* as operators on its array data.  The array holds 32-bit words in the    *)
(* host's little-endian order, so that the byte at an RSP address sits at  *)
(* the mirrored position of its word.  A value of several bytes is the     *)
(* sequence of its bytes, the most significant one first.                  *)
(***************************************************************************)
EXTENDS Integers, Sequences

CONSTANTS
    Size,       \* bytes of the memory: 4096 in the code, a power of two
    Base        \* values of a byte: 256 in the code

ASSUME SizeAssumption == Size \in Nat /\ Size >= 8 /\ Size % 8 = 0
ASSUME BaseAssumption == Base \in Nat /\ Base >= 2 /\ Base % 2 = 0

Index == 0 .. Size - 1
Byte == 0 .. Base - 1
Data == [Index -> Byte]

(* i ^ 3                                                                   *)
Mirror(i) == i + 3 - 2 * (i % 4)

-----------------------------------------------------------------------------
(* read and write: addresses are masked to the memory and to the size of   *)
(* the access.                                                             *)

At(address) == Mirror(address % Size)

readByte(data, address) == data[At(address)]

writeByte(data, address, byte) == [data EXCEPT ![At(address)] = byte]

(* address & maskWord                                                      *)
Word(address) == (address % Size) - ((address % Size) % 4)

readWord(data, address) ==
    LET w == Word(address) IN <<data[w + 3], data[w + 2], data[w + 1], data[w]>>

-----------------------------------------------------------------------------
(* readUnaligned and writeUnaligned: byte by byte, each byte masked alone. *)

readHalfUnaligned(data, address) ==
    <<readByte(data, address), readByte(data, address + 1)>>

(* Mutant of readWordUnaligned: the two bytes of the lower half swapped.   *)
readWordUnaligned_Swapped(data, address) ==
    <<readByte(data, address), readByte(data, address + 1),
      readByte(data, address + 3), readByte(data, address + 2)>>

readWordUnaligned(data, address) ==
    <<readByte(data, address), readByte(data, address + 1),
      readByte(data, address + 2), readByte(data, address + 3)>>

writeHalfUnaligned(data, address, bytes) ==
    writeByte(writeByte(data, address, bytes[1]), address + 1, bytes[2])

writeWordUnaligned(data, address, bytes) ==
    writeHalfUnaligned(writeHalfUnaligned(data, address, <<bytes[1], bytes[2]>>),
                       address + 2, <<bytes[3], bytes[4]>>)

-----------------------------------------------------------------------------
(* rspjs.js: dmemReadU8 and dmemWriteU8 mirror the address on their own,   *)
(* and do not mask it.                                                     *)

Host(addr) == (addr - (addr % 4)) + (3 - (addr % 4))
dmemReadU8(data, addr) == data[Host(addr)]
dmemWriteU8(data, addr, byte) == [data EXCEPT ![Host(addr)] = byte]
=============================================================================
