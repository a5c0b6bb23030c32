----------------------------- MODULE HostProofs -----------------------------
(***************************************************************************)
(* What the host sees of the emulator.                                     *)
(*                                                                         *)
(*   MemoryImplementsByteMemory, MemoryViewsAgree                          *)
(*       ScalarMemory implements ByteMemory, and its views are one memory, *)
(*       for every size of the memory that is a multiple of 8, every width *)
(*       of a byte, every set of registers and of addresses                *)
(*   WrapperLoadsOnce, WrapperSameOutcome                                  *)
(*       createRSP() loads the module once and answers every call alike,   *)
(*       for every set of calls, values and costs and every width of the   *)
(*       clock                                                             *)
(***************************************************************************)
EXTENDS ScalarMemory, JsWrapper, TLAPS

-----------------------------------------------------------------------------
(* Loads and stores.                                                       *)

(* The memory that a program sees in an array d.                           *)
Seen(d) == [i \in Index |-> d[Mirror(i)]]

-----------------------------------------------------------------------------
(* Mirroring a position stays in its word, hence in the memory.            *)
LEMMA MirrorInIndex ==
    ASSUME NEW i \in Index
    PROVE  Mirror(i) \in Index
<1>1. PICK k \in Nat : Size = 4 * k
  <2>1. Size = 8 * (Size \div 8) /\ Size \div 8 \in Nat
      BY SizeAssumption
  <2>2. 2 * (Size \div 8) \in Nat /\ Size = 4 * (2 * (Size \div 8))
      BY <2>1
  <2> QED
      BY <2>2
<1>2. i - (i % 4) \in Nat /\ i % 4 \in 0..3
    BY SizeAssumption DEF Index
<1>3. i - (i % 4) + 3 < Size
    BY <1>1, <1>2, SizeAssumption DEF Index
<1> QED
    BY <1>2, <1>3, SizeAssumption DEF Mirror, Index

(* Mirroring twice is the identity.                                        *)
LEMMA MirrorTwice ==
    ASSUME NEW i \in Index
    PROVE  Mirror(Mirror(i)) = i
<1>1. i \in Nat /\ i % 4 \in 0..3
    BY SizeAssumption DEF Index
<1>2. (i + 3 - 2 * (i % 4)) % 4 = 3 - (i % 4)
    BY <1>1
<1> QED
    BY <1>1, <1>2 DEF Mirror

(* The program's address of a byte is a position of the memory.            *)
LEMMA AddressInIndex ==
    ASSUME NEW a \in Nat
    PROVE  a % Size \in Index /\ At(a) \in Index
<1>1. a % Size \in Index
    BY SizeAssumption DEF Index
<1> QED
    BY <1>1, MirrorInIndex DEF At

(* Reading a byte reads the byte the program sees at the address.          *)
LEMMA ReadByteSeen ==
    ASSUME NEW d \in Data, NEW a \in Nat
    PROVE  /\ readByte(d, a) = Seen(d)[a % Size]
           /\ readByte(d, a) \in Byte
BY AddressInIndex DEF readByte, Seen, At, Data

(* Putting a byte at a mirrored position changes the byte the program sees *)
(* there and no other.                                                     *)
LEMMA PutSeen ==
    ASSUME NEW d \in Data, NEW i \in Index, NEW b \in Byte
    PROVE  /\ [d EXCEPT ![Mirror(i)] = b] \in Data
           /\ Seen([d EXCEPT ![Mirror(i)] = b]) = [Seen(d) EXCEPT ![i] = b]
<1>1. Mirror(i) \in Index
    BY MirrorInIndex
<1>2. [d EXCEPT ![Mirror(i)] = b] \in Data
    BY <1>1 DEF Data
<1>3. ASSUME NEW x \in Index
      PROVE  Seen([d EXCEPT ![Mirror(i)] = b])[x] = [Seen(d) EXCEPT ![i] = b][x]
  <2>1. Mirror(x) \in Index /\ (Mirror(x) = Mirror(i) => x = i)
      BY MirrorInIndex, MirrorTwice
  <2> QED
      BY <1>1, <2>1 DEF Seen, Data
<1> QED
    BY <1>2, <1>3 DEF Seen

LEMMA WriteByteSeen ==
    ASSUME NEW d \in Data, NEW a \in Nat, NEW b \in Byte
    PROVE  /\ writeByte(d, a, b) \in Data
           /\ Seen(writeByte(d, a, b)) = [Seen(d) EXCEPT ![a % Size] = b]
BY AddressInIndex, PutSeen DEF writeByte, At

-----------------------------------------------------------------------------
(* The compound writes are the compound puts of ByteMemory.                *)
LEMMA WriteHalfSeen ==
    ASSUME NEW d \in Data, NEW a \in Nat, NEW b1 \in Byte, NEW b2 \in Byte
    PROVE  LET e == writeHalfUnaligned(d, a, <<b1, b2>>)
           IN  /\ e \in Data
               /\ Seen(e) = Abstract!Put2(Seen(d), a, b1, b2)
<1> DEFINE e1 == writeByte(d, a, b1)
           e2 == writeByte(e1, a + 1, b2)
<1>1. e1 \in Data /\ Seen(e1) = [Seen(d) EXCEPT ![a % Size] = b1]
    BY WriteByteSeen
<1>2. e2 \in Data /\ Seen(e2) = [Seen(e1) EXCEPT ![(a + 1) % Size] = b2]
  <2>1. a + 1 \in Nat
      OBVIOUS
  <2> HIDE DEF e1
  <2> QED
      BY <1>1, <2>1, WriteByteSeen
<1> QED
    BY <1>1, <1>2 DEF writeHalfUnaligned, Abstract!Put2, Abstract!Put

LEMMA WriteWordSeen ==
    ASSUME NEW d \in Data, NEW a \in Nat, NEW w \in Register
    PROVE  LET e == writeWordUnaligned(d, a, w)
           IN  /\ e \in Data
               /\ Seen(e) = Abstract!Put2(Abstract!Put2(Seen(d), a, w[1], w[2]),
                                          a + 2, w[3], w[4])
<1> DEFINE e1 == writeHalfUnaligned(d, a, <<w[1], w[2]>>)
           e2 == writeHalfUnaligned(e1, a + 2, <<w[3], w[4]>>)
<1>0. w[1] \in Byte /\ w[2] \in Byte /\ w[3] \in Byte /\ w[4] \in Byte
    BY DEF Register
<1>1. e1 \in Data /\ Seen(e1) = Abstract!Put2(Seen(d), a, w[1], w[2])
    BY <1>0, WriteHalfSeen
<1>2. e2 \in Data /\ Seen(e2) = Abstract!Put2(Seen(e1), a + 2, w[3], w[4])
  <2>1. a + 2 \in Nat
      OBVIOUS
  <2> HIDE DEF e1
  <2> QED
      BY <1>0, <1>1, <2>1, WriteHalfSeen
<1> QED
    BY <1>1, <1>2 DEF writeWordUnaligned

-----------------------------------------------------------------------------
(* Facts about addresses, signs and the host's way to a byte.              *)
LEMMA SignInByte ==
    ASSUME NEW b \in Byte
    PROVE  /\ Sign(b) \in Byte
           /\ Sign(b) = Abstract!Fill(TRUE, b)
           /\ 0 \in Byte /\ Abstract!Fill(FALSE, b) = 0
<1>1. Base = 2 * (Base \div 2) /\ Base \div 2 \in Nat
    BY BaseAssumption
<1> QED
    BY <1>1, BaseAssumption DEF Sign, Byte, Abstract!Fill

LEMMA HostIsMirror ==
    ASSUME NEW i \in Index
    PROVE  Host(i) = Mirror(i) /\ i % Size = i /\ i \in Nat
BY SizeAssumption DEF Host, Mirror, Index

(* An aligned word of the little-endian view is four puts, the most        *)
(* significant byte at the lowest address.                                 *)
LEMMA HostWordSeen ==
    ASSUME NEW d \in Data, NEW i \in Index, i % 4 = 0, NEW w \in Register
    PROVE  LET e == [d EXCEPT ![i] = w[4], ![i + 1] = w[3],
                              ![i + 2] = w[2], ![i + 3] = w[1]]
           IN  /\ e \in Data
               /\ Seen(e) = Abstract!Put2(Abstract!Put2(Seen(d), i, w[1], w[2]),
                                          i + 2, w[3], w[4])
<1> DEFINE e == [d EXCEPT ![i] = w[4], ![i + 1] = w[3], ![i + 2] = w[2], ![i + 3] = w[1]]
<1>1. /\ i \in Index /\ i + 1 \in Index /\ i + 2 \in Index /\ i + 3 \in Index
      /\ i \in Nat /\ Mirror(i) = i + 3
  <2>1. Mirror(i) = i + 3
      BY SizeAssumption DEF Mirror, Index
  <2> QED
      BY <2>1, MirrorInIndex, SizeAssumption DEF Index
<1>2. Mirror(i + 1) = i + 2 /\ Mirror(i + 2) = i + 1 /\ Mirror(i + 3) = i
  <2>1. (i + 1) % 4 = 1 /\ (i + 2) % 4 = 2 /\ (i + 3) % 4 = 3
      BY <1>1
  <2> QED
      BY <1>1, <2>1 DEF Mirror
<1>3. At(i) = i + 3 /\ At(i + 1) = i + 2 /\ At(i + 2) = i + 1 /\ At((i + 2) + 1) = i
  <2>1. (i + 2) + 1 = i + 3
      BY <1>1
  <2> QED
      BY <1>1, <1>2, <2>1, HostIsMirror DEF At
<1>4. e = writeWordUnaligned(d, i, w)
  <2>1. writeWordUnaligned(d, i, w)
          = [[[[d EXCEPT ![i + 3] = w[1]] EXCEPT ![i + 2] = w[2]]
                EXCEPT ![i + 1] = w[3]] EXCEPT ![i] = w[4]]
      BY <1>3 DEF writeWordUnaligned, writeHalfUnaligned, writeByte
  <2>2. i # i + 1 /\ i # i + 2 /\ i # i + 3 /\ i + 1 # i + 2 /\ i + 1 # i + 3
          /\ i + 2 # i + 3
      BY <1>1
  <2> QED
      BY <1>1, <2>1, <2>2 DEF Data
<1>5. /\ writeWordUnaligned(d, i, w) \in Data
      /\ Seen(writeWordUnaligned(d, i, w))
           = Abstract!Put2(Abstract!Put2(Seen(d), i, w[1], w[2]), i + 2, w[3], w[4])
    BY <1>1, WriteWordSeen
<1> HIDE DEF e
<1>6. /\ e \in Data
      /\ Seen(e) = Abstract!Put2(Abstract!Put2(Seen(d), i, w[1], w[2]), i + 2, w[3], w[4])
    BY <1>4, <1>5
<1> QED
    BY <1>6 DEF e

-----------------------------------------------------------------------------
(* What the loads give the register is what ByteMemory's loads give it.    *)
LEMMA ReadSeen ==
    ASSUME TypeOK, NEW a \in Nat
    PROVE  /\ readByte(data, a) = Seen(data)[a % Size] /\ readByte(data, a) \in Byte
           /\ readHalfUnaligned(data, a) =
                <<Seen(data)[a % Size], Seen(data)[(a + 1) % Size]>>
           /\ readWordUnaligned(data, a) =
                << Seen(data)[a % Size], Seen(data)[(a + 1) % Size],
                   Seen(data)[(a + 2) % Size], Seen(data)[(a + 3) % Size] >>
           /\ \A n \in 0..3 : Seen(data)[(a + n) % Size] \in Byte
           /\ Seen(data)[a % Size] \in Byte
<1>1. \A n \in Nat : /\ readByte(data, a + n) = Seen(data)[(a + n) % Size]
                     /\ readByte(data, a + n) \in Byte
    BY ReadByteSeen DEF TypeOK
<1>2. readByte(data, a) = Seen(data)[a % Size] /\ readByte(data, a) \in Byte
    BY ReadByteSeen DEF TypeOK
<1> QED
    BY <1>1, <1>2 DEF readHalfUnaligned, readWordUnaligned

(* Every load of the program is a load of ByteMemory into the same register. *)
LEMMA LoadStep ==
    ASSUME TypeOK, NEW rt \in Registers, NEW a \in Addresses,
           LB(rt, a) \/ LBU(rt, a) \/ LH(rt, a) \/ LHU(rt, a) \/ LW(rt, a) \/ LWU(rt, a)
    PROVE  /\ TypeOK'
           /\ \/ \E signed \in BOOLEAN : Abstract!LoadByte(rt, a, signed)
              \/ \E signed \in BOOLEAN : Abstract!LoadHalf(rt, a, signed)
              \/ \E signed \in BOOLEAN : Abstract!LoadWord(rt, a, signed)
<1> DEFINE m == Seen(data)
           b == m[a % Size]
           c == m[(a + 1) % Size]
           w == <<b, c, m[(a + 2) % Size], m[(a + 3) % Size]>>
<1>0. a \in Nat
    BY AddressesAssumption
<1>1. /\ readByte(data, a) = b /\ readHalfUnaligned(data, a) = <<b, c>>
      /\ readWordUnaligned(data, a) = <<b, c, m[(a + 2) % Size], m[(a + 3) % Size]>>
      /\ b \in Byte /\ c \in Byte
      /\ m[(a + 2) % Size] \in Byte /\ m[(a + 3) % Size] \in Byte
    BY <1>0, ReadSeen
<1>2. /\ Sign(b) \in Byte /\ 0 \in Byte
      /\ Sign(b) = Abstract!Fill(TRUE, b) /\ Abstract!Fill(FALSE, b) = 0
    BY <1>1, SignInByte
<1>3. ASSUME data' = data, NEW word \in Register, r' = [r EXCEPT ![rt] = word]
      PROVE  TypeOK' /\ Seen(data)' = Seen(data)
    BY <1>3 DEF TypeOK, Seen
<1> HIDE DEF m
<1>4. CASE LB(rt, a)
  <2>1. /\ data' = data /\ r' = [r EXCEPT ![rt] = <<Sign(b), Sign(b), Sign(b), b>>]
        /\ op' = <<"LB", rt, a>>
      BY <1>1, <1>4 DEF LB, Set, Did
  <2>2. TypeOK' /\ Seen(data)' = Seen(data)
      BY <1>1, <1>2, <1>3, <2>1 DEF Register
  <2>3. Abstract!LoadByte(rt, a, TRUE)
      BY <1>2, <2>1, <2>2 DEF Abstract!LoadByte, Abstract!Did, m, Seen
  <2> QED
      BY <2>2, <2>3
<1>5. CASE LBU(rt, a)
  <2>1. /\ data' = data /\ r' = [r EXCEPT ![rt] = <<0, 0, 0, b>>]
        /\ op' = <<"LBU", rt, a>>
      BY <1>1, <1>5 DEF LBU, Set, Did
  <2>2. TypeOK' /\ Seen(data)' = Seen(data)
      BY <1>1, <1>2, <1>3, <2>1 DEF Register
  <2>3. Abstract!LoadByte(rt, a, FALSE)
      BY <1>2, <2>1, <2>2 DEF Abstract!LoadByte, Abstract!Did, m, Seen
  <2> QED
      BY <2>2, <2>3
<1>6. CASE LH(rt, a)
  <2>1. /\ data' = data /\ r' = [r EXCEPT ![rt] = <<Sign(b), Sign(b), b, c>>]
        /\ op' = <<"LH", rt, a>>
      BY <1>1, <1>6 DEF LH, Set, FromHalf, Did
  <2>2. TypeOK' /\ Seen(data)' = Seen(data)
      BY <1>1, <1>2, <1>3, <2>1 DEF Register
  <2>3. Abstract!LoadHalf(rt, a, TRUE)
      BY <1>2, <2>1, <2>2 DEF Abstract!LoadHalf, Abstract!Did, m, Seen
  <2> QED
      BY <2>2, <2>3
<1>7. CASE LHU(rt, a)
  <2>1. /\ data' = data /\ r' = [r EXCEPT ![rt] = <<0, 0, b, c>>]
        /\ op' = <<"LHU", rt, a>>
      BY <1>1, <1>7 DEF LHU, Set, Did
  <2>2. TypeOK' /\ Seen(data)' = Seen(data)
      BY <1>1, <1>2, <1>3, <2>1 DEF Register
  <2>3. Abstract!LoadHalf(rt, a, FALSE)
      BY <1>2, <2>1, <2>2 DEF Abstract!LoadHalf, Abstract!Did, m, Seen
  <2> QED
      BY <2>2, <2>3
<1>8. CASE LW(rt, a)
  <2>1. /\ data' = data /\ r' = [r EXCEPT ![rt] = w]
        /\ op' = <<"LW", rt, a>>
      BY <1>1, <1>8 DEF LW, Set, Did, w
  <2>2. TypeOK' /\ Seen(data)' = Seen(data)
      BY <1>1, <1>3, <2>1 DEF Register, w
  <2>3. Abstract!LoadWord(rt, a, TRUE)
      BY <2>1, <2>2 DEF Abstract!LoadWord, Abstract!Did, m, w, Seen
  <2> QED
      BY <2>2, <2>3
<1>9. CASE LWU(rt, a)
  <2>1. /\ data' = data /\ r' = [r EXCEPT ![rt] = w]
        /\ op' = <<"LWU", rt, a>>
      BY <1>1, <1>9 DEF LWU, Set, Did, w
  <2>2. TypeOK' /\ Seen(data)' = Seen(data)
      BY <1>1, <1>3, <2>1 DEF Register, w
  <2>3. Abstract!LoadWord(rt, a, FALSE)
      BY <2>1, <2>2 DEF Abstract!LoadWord, Abstract!Did, m, w, Seen
  <2> QED
      BY <2>2, <2>3
<1> QED
    BY <1>4, <1>5, <1>6, <1>7, <1>8, <1>9

(* Every store of the program is the store of ByteMemory.                  *)
LEMMA StoreStep ==
    ASSUME TypeOK, NEW rt \in Registers, NEW a \in Addresses,
           SB(rt, a) \/ SH(rt, a) \/ SW(rt, a)
    PROVE  /\ TypeOK'
           /\ \/ Abstract!StoreByte(rt, a)
              \/ Abstract!StoreHalf(rt, a)
              \/ Abstract!StoreWord(rt, a)
<1>0. /\ a \in Nat /\ data \in Data /\ r \in [Registers -> Register]
      /\ r[rt] \in Register
      /\ r[rt][1] \in Byte /\ r[rt][2] \in Byte /\ r[rt][3] \in Byte /\ r[rt][4] \in Byte
    BY AddressesAssumption DEF TypeOK, Register
<1>1. CASE SB(rt, a)
  <2>1. /\ data' = writeByte(data, a, r[rt][4]) /\ r' = r
        /\ op' = <<"SB", rt, a>>
      BY <1>1 DEF SB, Store, Did
  <2>2. data' \in Data /\ Seen(data') = [Seen(data) EXCEPT ![a % Size] = r[rt][4]]
      BY <1>0, <2>1, WriteByteSeen
  <2>3. Abstract!StoreByte(rt, a)
      BY <2>1, <2>2 DEF Abstract!StoreByte, Abstract!Did, Abstract!Put, Seen
  <2> QED
      BY <1>0, <2>1, <2>2, <2>3 DEF TypeOK
<1>2. CASE SH(rt, a)
  <2>1. /\ data' = writeHalfUnaligned(data, a, <<r[rt][3], r[rt][4]>>) /\ r' = r
        /\ op' = <<"SH", rt, a>>
      BY <1>2 DEF SH, Store, Did
  <2>2. data' \in Data /\ Seen(data') = Abstract!Put2(Seen(data), a, r[rt][3], r[rt][4])
      BY <1>0, <2>1, WriteHalfSeen
  <2>3. Abstract!StoreHalf(rt, a)
      BY <2>1, <2>2 DEF Abstract!StoreHalf, Abstract!Did, Seen
  <2> QED
      BY <1>0, <2>1, <2>2, <2>3 DEF TypeOK
<1>3. CASE SW(rt, a)
  <2>1. /\ data' = writeWordUnaligned(data, a, r[rt]) /\ r' = r
        /\ op' = <<"SW", rt, a>>
      BY <1>3 DEF SW, Store, Did
  <2>2. /\ data' \in Data
        /\ Seen(data') = Abstract!Put2(Abstract!Put2(Seen(data), a, r[rt][1], r[rt][2]),
                                       a + 2, r[rt][3], r[rt][4])
      BY <1>0, <2>1, WriteWordSeen
  <2>3. Abstract!StoreWord(rt, a)
      BY <2>1, <2>2 DEF Abstract!StoreWord, Abstract!Did, Seen
  <2> QED
      BY <1>0, <2>1, <2>2, <2>3 DEF TypeOK
<1> QED
    BY <1>1, <1>2, <1>3

(* What the host writes is what ByteMemory's host writes.                  *)
LEMMA HostStep ==
    ASSUME TypeOK
    PROVE  /\ \A addr \in Index, byte \in Byte :
                  HostByte(addr, byte) => TypeOK' /\ Abstract!HostByte(addr, byte)
           /\ \A addr \in Index, w \in Register :
                  HostWord(addr, w) => TypeOK' /\ Abstract!HostWord(addr, w)
           /\ \A rt \in Registers, w \in Register :
                  setGPR(rt, w) => TypeOK' /\ Abstract!HostRegister(rt, w)
<1>0. data \in Data /\ r \in [Registers -> Register]
    BY DEF TypeOK
<1>1. ASSUME NEW addr \in Index, NEW byte \in Byte, HostByte(addr, byte)
      PROVE  TypeOK' /\ Abstract!HostByte(addr, byte)
  <2>1. /\ data' = [data EXCEPT ![Mirror(addr)] = byte] /\ r' = r
        /\ op' = <<"dmemWriteU8", addr, byte>>
      BY <1>1, HostIsMirror DEF HostByte, Store, Did, dmemWriteU8
  <2>2. data' \in Data /\ Seen(data') = [Seen(data) EXCEPT ![addr] = byte]
      BY <1>0, <2>1, PutSeen
  <2>3. Abstract!HostByte(addr, byte)
      BY <2>1, <2>2, HostIsMirror DEF Abstract!HostByte, Abstract!Did, Abstract!Put, Seen
  <2> QED
      BY <1>0, <2>1, <2>2, <2>3 DEF TypeOK
<1>2. ASSUME NEW addr \in Index, NEW w \in Register, HostWord(addr, w)
      PROVE  TypeOK' /\ Abstract!HostWord(addr, w)
  <2> DEFINE e == [data EXCEPT ![addr] = w[4], ![addr + 1] = w[3],
                               ![addr + 2] = w[2], ![addr + 3] = w[1]]
  <2>1. /\ addr % 4 = 0 /\ data' = e /\ r' = r
        /\ op' = <<"DMEM", addr, w>>
      BY <1>2 DEF HostWord, Store, Did
  <2>2. /\ e \in Data
        /\ Seen(e) = Abstract!Put2(Abstract!Put2(Seen(data), addr, w[1], w[2]),
                                   addr + 2, w[3], w[4])
      BY <1>0, <2>1, HostWordSeen
  <2>3. Abstract!HostWord(addr, w)
    <3> HIDE DEF e
    <3> QED
        BY <2>1, <2>2 DEF Abstract!HostWord, Abstract!Did, Seen
  <2> QED
      BY <1>0, <2>1, <2>2, <2>3 DEF TypeOK
<1>3. ASSUME NEW rt \in Registers, NEW w \in Register, setGPR(rt, w)
      PROVE  TypeOK' /\ Abstract!HostRegister(rt, w)
    BY <1>0, <1>3 DEF setGPR, Set, Did, TypeOK, Abstract!HostRegister, Abstract!Did
<1> QED
    BY <1>1, <1>2, <1>3

-----------------------------------------------------------------------------
LEMMA StepMaps ==
    ASSUME TypeOK, Next
    PROVE  TypeOK' /\ Abstract!Next
<1>1. ASSUME NEW rt \in Registers, NEW a \in Addresses, Program(rt, a)
      PROVE  TypeOK' /\ Abstract!Program(rt, a)
    BY <1>1, LoadStep, StoreStep DEF Program, Abstract!Program
<1>2. Abstract!Index = Index /\ Abstract!Byte = Byte /\ Abstract!Register = Register
    BY DEF Abstract!Index, Abstract!Byte, Abstract!Register, Index, Byte, Register
<1> QED
    BY <1>1, <1>2, HostStep DEF Next, Abstract!Next

(* The initial memory is zero, in both orders.                             *)
LEMMA InitMaps ==
    ASSUME Init
    PROVE  TypeOK /\ Abstract!Init
<1>1. 0 \in Byte
    BY BaseAssumption DEF Byte
<1>2. Seen(data) = [i \in Index |-> 0]
    BY MirrorInIndex DEF Init, Seen
<1>3. Abstract!Index = Index
    BY DEF Abstract!Index, Index
<1> QED
    BY <1>1, <1>2, <1>3 DEF Init, TypeOK, Data, Register, Abstract!Init, Seen

(* DMEM holds bytes and registers hold words of four bytes, whatever the   *)
(* program and the host do.                                                *)
THEOREM MemoryTypeCorrect == Spec => []TypeOK
<1>1. Init => TypeOK
    BY InitMaps
<1>2. TypeOK /\ [Next]_vars => TypeOK'
  <2>1. ASSUME TypeOK, UNCHANGED vars PROVE TypeOK'
      BY <2>1 DEF TypeOK, vars
  <2> QED
      BY <2>1, StepMaps
<1> QED
    BY <1>1, <1>2, PTL DEF Spec

(* The word-swapped memory, accessed byte by byte, is a big-endian byte    *)
(* memory that wraps at its end, to the program and to the host.           *)
THEOREM MemoryImplementsByteMemory == Spec => ImplementsByteMemory
<1>1. Init => Abstract!Init
    BY InitMaps
<1>2. TypeOK /\ [Next]_vars => [Abstract!Next]_<<[i \in Index |-> data[Mirror(i)]], r, op>>
  <2>1. ASSUME UNCHANGED vars
        PROVE  UNCHANGED <<[i \in Index |-> data[Mirror(i)]], r, op>>
      BY <2>1 DEF vars
  <2> QED
      BY <2>1, StepMaps
<1> QED
    BY <1>1, <1>2, MemoryTypeCorrect, PTL DEF Spec, ImplementsByteMemory, Abstract!Spec

(* The host's reader, the program's loads and the aligned word read give   *)
(* the same bytes in every reachable state.                                *)
THEOREM MemoryViewsAgree == Spec => []ViewsAgree
<1>1. TypeOK => ViewsAgree
  <2>1. SUFFICES ASSUME TypeOK, NEW a \in Index
                 PROVE  /\ dmemReadU8(data, a) = readByte(data, a)
                        /\ a % 4 = 0 => readWord(data, a) = readWordUnaligned(data, a)
      BY DEF ViewsAgree
  <2>2. dmemReadU8(data, a) = readByte(data, a)
      BY HostIsMirror DEF dmemReadU8, readByte, At
  <2>3. ASSUME a % 4 = 0
        PROVE  readWord(data, a) = readWordUnaligned(data, a)
    <3>1. /\ a + 1 \in Index /\ a + 2 \in Index /\ a + 3 \in Index /\ a \in Nat
          /\ Mirror(a) = a + 3
      <4>1. Mirror(a) = a + 3
          BY <2>3, SizeAssumption DEF Mirror, Index
      <4> QED
          BY <4>1, MirrorInIndex, SizeAssumption DEF Index
    <3>2. (a + 1) % 4 = 1 /\ (a + 2) % 4 = 2 /\ (a + 3) % 4 = 3
        BY <2>3, <3>1
    <3>3. At(a) = a + 3 /\ At(a + 1) = a + 2 /\ At(a + 2) = a + 1 /\ At(a + 3) = a
      <4>1. Mirror(a + 1) = a + 2 /\ Mirror(a + 2) = a + 1 /\ Mirror(a + 3) = a
          BY <3>1, <3>2 DEF Mirror
      <4> QED
          BY <3>1, <4>1, HostIsMirror DEF At
    <3>4. Word(a) = a
        BY <2>3, <3>1, HostIsMirror DEF Word
    <3> QED
        BY <3>3, <3>4 DEF readWord, readWordUnaligned, readByte
  <2> QED
      BY <2>2, <2>3
<1> QED
    BY <1>1, MemoryTypeCorrect, PTL

-----------------------------------------------------------------------------
(* The wrapper.                                                            *)

(* The inductive invariant.  A call is answered only after the promise has *)
(* settled, and settled for good, so that an answer says which way.        *)
Answered ==
    \A c \in Calls :
        /\ call[c] = "object" => wasmModule = "fulfilled"
        /\ call[c] = "failed" => wasmModule = "rejected"
        /\ call[c] = "awaiting" => wasmModule # "unset"

WrapperInv == WrapperTypeOK /\ LoadedOnce /\ Answered

-----------------------------------------------------------------------------
(* A queue that a newcomer joins, and one that its head leaves.            *)
LEMMA QueueJoined ==
    ASSUME NEW S, NEW q \in Seq(S), NEW c \in S, IsInjective(q), c \notin ToSet(q)
    PROVE  /\ Append(q, c) \in Seq(S)
           /\ ToSet(Append(q, c)) = ToSet(q) \cup {c}
           /\ IsInjective(Append(q, c))
<1> DEFINE p == Append(q, c)
<1>1. /\ p \in Seq(S) /\ Len(p) = Len(q) + 1 /\ p[Len(q) + 1] = c
      /\ \A i \in 1 .. Len(q) : p[i] = q[i]
    OBVIOUS
<1>2. /\ DOMAIN p = 1 .. Len(q) + 1 /\ DOMAIN q = 1 .. Len(q) /\ Len(q) \in Nat
    BY <1>1
<1> HIDE DEF p
<1>3. ToSet(p) = ToSet(q) \cup {c}
    BY <1>1, <1>2 DEF ToSet
<1>4. IsInjective(p)
  <2>1. SUFFICES ASSUME NEW i \in DOMAIN p, NEW j \in DOMAIN p, p[i] = p[j]
                 PROVE  i = j
      BY DEF IsInjective
  <2>2. \A k \in 1 .. Len(q) : q[k] # c
      BY <1>2 DEF ToSet
  <2>3. \A k, l \in 1 .. Len(q) : q[k] = q[l] => k = l
      BY <1>2 DEF IsInjective
  <2> QED
      BY <1>1, <1>2, <2>1, <2>2, <2>3
<1> QED
    BY <1>1, <1>3, <1>4 DEF p

LEMMA QueueLeft ==
    ASSUME NEW S, NEW q \in Seq(S), IsInjective(q), q # <<>>
    PROVE  /\ Tail(q) \in Seq(S) /\ Head(q) \in ToSet(q) /\ Head(q) \in S
           /\ ToSet(Tail(q)) = ToSet(q) \ {Head(q)}
           /\ IsInjective(Tail(q))
           /\ \A j \in DOMAIN q : q[j] = Head(q) => j = 1
<1> DEFINE p == Tail(q)
<1>1. /\ p \in Seq(S) /\ Len(p) = Len(q) - 1 /\ Head(q) = q[1] /\ Len(q) \in Nat \ {0}
      /\ \A i \in 1 .. Len(q) - 1 : p[i] = q[i + 1]
    OBVIOUS
<1>2. DOMAIN p = 1 .. Len(q) - 1 /\ DOMAIN q = 1 .. Len(q)
    BY <1>1
<1> HIDE DEF p
<1>3. \A k, l \in 1 .. Len(q) : q[k] = q[l] => k = l
    BY <1>2 DEF IsInjective
<1>4. ToSet(p) \subseteq ToSet(q) \ {Head(q)}
  <2>1. SUFFICES ASSUME NEW i \in 1 .. Len(q) - 1
                 PROVE  p[i] \in ToSet(q) /\ p[i] # Head(q)
      BY <1>2 DEF ToSet
  <2>2. p[i] = q[i + 1] /\ i + 1 \in 1 .. Len(q) /\ i + 1 # 1
      BY <1>1
  <2> QED
      BY <1>1, <1>2, <1>3, <2>2 DEF ToSet
<1>5. ToSet(q) \ {Head(q)} \subseteq ToSet(p)
  <2>1. SUFFICES ASSUME NEW i \in 1 .. Len(q), q[i] # q[1]
                 PROVE  q[i] \in ToSet(p)
      BY <1>1, <1>2 DEF ToSet
  <2>2. i - 1 \in 1 .. Len(q) - 1 /\ p[i - 1] = q[(i - 1) + 1] /\ (i - 1) + 1 = i
      BY <1>1, <2>1
  <2> QED
      BY <1>2, <2>2 DEF ToSet
<1>6. IsInjective(p)
  <2>1. SUFFICES ASSUME NEW i \in 1 .. Len(q) - 1, NEW j \in 1 .. Len(q) - 1, p[i] = p[j]
                 PROVE  i = j
      BY <1>2 DEF IsInjective
  <2>2. q[i + 1] = q[j + 1] /\ i + 1 \in 1 .. Len(q) /\ j + 1 \in 1 .. Len(q)
      BY <1>1, <2>1
  <2>3. i + 1 = j + 1
      BY <1>3, <2>2
  <2> QED
      BY <2>3
<1>7. 1 \in DOMAIN q
    BY <1>1, <1>2
<1> QED
    BY <1>1, <1>2, <1>3, <1>4, <1>5, <1>6, <1>7 DEF p, ToSet

-----------------------------------------------------------------------------
LEMMA WrapperStarts == WrapperInit => WrapperInv
<1>1. DOMAIN <<>> = {} /\ <<>> \in Seq(Calls)
    OBVIOUS
<1> QED
    BY <1>1, ValuesAssumption
       DEF WrapperInit, WrapperInv, WrapperTypeOK, LoadedOnce, Answered, FreshMachine, PromiseStates,
           CallStates, ToSet, IsInjective

(* Calls made before the load ends join the queue; the first one loads.    *)
LEMMA CreateInv ==
    ASSUME WrapperInv, NEW c \in Calls, CreateRSP(c)
    PROVE  WrapperInv'
<1>1. /\ call \in [Calls -> CallStates] /\ waiting \in Seq(Calls) /\ loads \in Nat
      /\ call[c] = "idle" /\ call' = [call EXCEPT ![c] = "awaiting"]
      /\ waiting' = Append(waiting, c) /\ machine' = machine
    BY DEF WrapperInv, WrapperTypeOK, CreateRSP
<1>2. IsInjective(waiting) /\ c \notin ToSet(waiting)
    BY <1>1 DEF WrapperInv, LoadedOnce
<1>3. waiting' \in Seq(Calls) /\ ToSet(waiting') = ToSet(waiting) \cup {c} /\ IsInjective(waiting')
    BY <1>1, <1>2, QueueJoined
<1>4. /\ wasmModule' # "unset" /\ loads' = 1 /\ wasmModule' \in PromiseStates
      /\ wasmModule = "unset" \/ wasmModule' = wasmModule
    BY DEF WrapperInv, WrapperTypeOK, LoadedOnce, CreateRSP, PromiseStates
<1>5. WrapperTypeOK'
    BY <1>1, <1>3, <1>4 DEF WrapperInv, WrapperTypeOK, CallStates
<1>6. LoadedOnce'
  <2>1. \A d \in Calls : call'[d] = "awaiting" <=> d \in ToSet(waiting')
      BY <1>1, <1>3 DEF WrapperInv, LoadedOnce
  <2> QED
      BY <1>3, <1>4, <2>1 DEF LoadedOnce
<1>7. Answered'
    BY <1>1, <1>4 DEF WrapperInv, Answered
<1> QED
    BY <1>5, <1>6, <1>7 DEF WrapperInv

LEMMA SettleInv ==
    ASSUME WrapperInv, NEW outcome \in {"fulfilled", "rejected"}, Settle(outcome)
    PROVE  WrapperInv'
BY DEF WrapperInv, WrapperTypeOK, LoadedOnce, Answered, Settle, PromiseStates

(* The oldest call leaves the queue with its answer.                       *)
LEMMA ResumeInv ==
    ASSUME WrapperInv, Resume
    PROVE  WrapperInv'
<1> DEFINE h == Head(waiting)
<1>1. /\ waiting # <<>> /\ waiting \in Seq(Calls) /\ waiting' = Tail(waiting)
      /\ IsInjective(waiting) /\ call \in [Calls -> CallStates]
      /\ wasmModule' = wasmModule /\ loads' = loads
    BY DEF WrapperInv, WrapperTypeOK, LoadedOnce, Resume
<1>2. /\ waiting' \in Seq(Calls) /\ h \in ToSet(waiting) /\ h \in Calls
      /\ ToSet(waiting') = ToSet(waiting) \ {h} /\ IsInjective(waiting')
    BY <1>1, QueueLeft
<1> HIDE DEF h
<1>3. PICK answer \in {"object", "failed"} :
          /\ call' = [call EXCEPT ![h] = answer]
          /\ wasmModule = IF answer = "object" THEN "fulfilled" ELSE "rejected"
          /\ machine' = FreshMachine \/ machine' = machine
    BY DEF Resume, h
<1>4. machine' \in [reg : Values, clock : Nat]
    BY <1>3, ValuesAssumption DEF WrapperInv, WrapperTypeOK, FreshMachine
<1>5. WrapperTypeOK'
    BY <1>1, <1>2, <1>3, <1>4 DEF WrapperInv, WrapperTypeOK, CallStates
<1>6. \A d \in Calls : call'[d] = "awaiting" <=> d \in ToSet(waiting')
    BY <1>1, <1>2, <1>3 DEF WrapperInv, LoadedOnce
<1>7. LoadedOnce'
    BY <1>1, <1>2, <1>6 DEF WrapperInv, LoadedOnce
<1>8. Answered'
    BY <1>1, <1>3 DEF WrapperInv, Answered
<1> QED
    BY <1>5, <1>7, <1>8 DEF WrapperInv

LEMMA UsesInv ==
    ASSUME WrapperInv, NEW c \in Calls, Uses(c)
    PROVE  WrapperInv'
<1>1. UNCHANGED <<wasmModule, loads, call, waiting>>
    BY DEF Uses, ResetRSP, SetGPR, StepRSP
<1>2. machine' \in [reg : Values, clock : Nat]
  <2>0. machine \in [reg : Values, clock : Nat]
      BY DEF WrapperInv, WrapperTypeOK
  <2>1. CASE ResetRSP(c)
      BY <2>1, ValuesAssumption DEF ResetRSP, FreshMachine
  <2>2. CASE \E value \in Values : SetGPR(c, value)
      BY <2>0, <2>2 DEF SetGPR
  <2>3. CASE \E clocks \in Costs : StepRSP(c, clocks)
    <3>1. PICK clocks \in Costs : machine' = [machine EXCEPT !.clock = @ + clocks]
        BY <2>3 DEF StepRSP
    <3>2. clocks \in Nat
        BY ClockAssumption
    <3> QED
        BY <2>0, <3>1, <3>2
  <2> QED
      BY <2>1, <2>2, <2>3 DEF Uses
<1> QED
    BY <1>1, <1>2 DEF WrapperInv, WrapperTypeOK, LoadedOnce, Answered

LEMMA StepInv == WrapperInv /\ [WrapperNext]_wrapperVars => WrapperInv'
<1>1. ASSUME WrapperInv, UNCHANGED wrapperVars PROVE WrapperInv'
    BY <1>1 DEF wrapperVars, WrapperInv, WrapperTypeOK, LoadedOnce, Answered
<1> QED
    BY <1>1, CreateInv, SettleInv, ResumeInv, UsesInv DEF WrapperNext

LEMMA InvHolds == WrapperSpec => []WrapperInv
BY WrapperStarts, StepInv, PTL DEF WrapperSpec

-----------------------------------------------------------------------------
(* Promises, calls, queue and machine keep their types.                    *)
THEOREM WrapperTypeCorrect == WrapperSpec => []WrapperTypeOK
<1>1. WrapperInv => WrapperTypeOK
    BY DEF WrapperInv
<1> QED
    BY <1>1, InvHolds, PTL

(* createRSP() loads the module at most once, however many calls are made  *)
(* before it is loaded, and each waits in the queue once (src/rspjs.js).   *)
THEOREM WrapperLoadsOnce == WrapperSpec => []LoadedOnce
<1>1. WrapperInv => LoadedOnce
    BY DEF WrapperInv
<1> QED
    BY <1>1, InvHolds, PTL

(* No call returns an object if another one has failed.                    *)
THEOREM WrapperSameOutcome == WrapperSpec => []SameOutcome
<1>1. WrapperInv => SameOutcome
    BY DEF WrapperInv, Answered, SameOutcome
<1> QED
    BY <1>1, InvHolds, PTL
=============================================================================
