----------------------------- MODULE MoveProofs -----------------------------
(***************************************************************************)
(* Data that moves through registers, for every size and contents of DMEM, *)
(* every width and contents of the registers and every address:            *)
(*                                                                         *)
(*   StoresInReach      a store changes no byte outside its line or window *)
(*   MovesExact         what is copied arrives where the program names it, *)
(*                      and a matrix is transposed                         *)
(*   SequencesComputed  sequences of scalar instructions compute what they *)
(*                      are for                                            *)
(***************************************************************************)
EXTENDS VectorProofs, ScalarSequences

-----------------------------------------------------------------------------
(* Loads and stores.  First: which bytes a store may change.               *)

(* Mirror turns a word around: it stays in the memory, and no two bytes    *)
(* share a place.                                                          *)
LEMMA MirrorFacts ==
    ASSUME NEW a \in Int, NEW b \in Int
    PROVE  /\ Memory!At(a) \in Memory!Index
           /\ a % MemorySize \in Memory!Index
           /\ Memory!At(a) = Memory!At(b) => a % MemorySize = b % MemorySize
<1>1. MemorySize \in Nat /\ MemorySize >= 8 /\ MemorySize = 8 * (MemorySize \div 8)
      /\ MemorySize \div 8 \in Nat
  BY MemoryAssumption
<1>. DEFINE p == a % MemorySize
            q == b % MemorySize
<1>2. p \in 0 .. MemorySize - 1 /\ q \in 0 .. MemorySize - 1
  BY <1>1
<1>3. /\ Memory!Mirror(p) = p + 3 - 2 * (p % 4)
      /\ Memory!Mirror(q) = q + 3 - 2 * (q % 4)
  BY DEF Memory!Mirror
<1>. HIDE DEF p, q
<1>4. Memory!Mirror(p) \in 0 .. MemorySize - 1
  BY <1>1, <1>2, <1>3
<1>5. Memory!Mirror(p) = Memory!Mirror(q) => p = q
  BY <1>2, <1>3
<1>. QED BY <1>2, <1>4, <1>5 DEF Memory!At, Memory!Index, p, q

(* A byte that Scatter changes is one it writes.                           *)
LEMMA ScatterChanges ==
    ASSUME NEW d, NEW k \in Nat, NEW address, NEW byte, NEW i \in Memory!Index,
           Memory!Scatter(d, k, address, byte)[i] # d[i]
    PROVE  \E j \in 0 .. k - 1 : Memory!At(address[j]) = i
BY DEF Memory!Scatter

(* The low bits of an address, and the window of 16 bytes around it.       *)
LEMMA WindowFacts ==
    ASSUME NEW a \in Int
    PROVE  /\ Memory!inLine(a) \in 0 .. 15
           /\ Memory!inUnit(a) \in 0 .. 7
           /\ \A j \in Int : /\ Memory!inWindow(a, j) \in Int
                            /\ Memory!inWindow(a, j) >= Memory!Window(a)
                            /\ Memory!inWindow(a, j) <= Memory!Window(a) + 15
           /\ Memory!Window(a) \in Int
BY DEF Memory!inLine, Memory!inUnit, Memory!inWindow, Memory!Window

(* What a store does, byte by byte: how many it writes, where, and which.  *)
RunStores == {"SBV", "SSV", "SLV", "SDV"}

StoredCount(op, a) ==
    CASE op \in RunStores -> Memory!Scale(op)
      [] op = "SQV" -> 16 - Memory!inLine(a)
      [] op = "SRV" -> Memory!inLine(a)
      [] op \in {"SPV", "SUV", "SHV"} -> 8
      [] op = "SFV" -> 4
      [] op \in {"SWV", "STV"} -> 16

StoredAt(op, e, a, j) ==
    CASE op \in RunStores \cup {"SQV", "SPV", "SUV"} -> a + j
      [] op = "SRV" -> (a - Memory!inLine(a)) + j
      [] op = "SHV" -> Memory!inWindow(a, Memory!inUnit(a) + 2 * j)
      [] op = "SFV" -> Memory!inWindow(a, Memory!inUnit(a) + 4 * j)
      [] op = "SWV" -> Memory!inWindow(a, Memory!inUnit(a) + j)
      [] op = "STV" -> Memory!inWindow(a, Memory!inUnit(a) - 2 * (e \div 2) + j)

StoredByte(op, v, e, a, j) ==
    CASE op \in RunStores \cup {"SQV", "SWV"} -> v[(e + j) % 16]
      [] op = "SRV" -> v[(e + j + (16 - Memory!inLine(a))) % 16]
      [] op = "SPV" -> IF (e + j) % 16 < 8 THEN Memory!Top(v, (e + j) % 8)
                                           ELSE Memory!Rounded(v, (e + j) % 8)
      [] op = "SUV" -> IF (e + j) % 16 < 8 THEN Memory!Rounded(v, (e + j) % 8)
                                           ELSE Memory!Top(v, (e + j) % 8)
      [] op = "SHV" -> (2 * v[(e + 2 * j) % 16]
                          + v[(e + 2 * j + 1) % 16] \div (Base \div 2)) % Base
      [] op = "SFV" -> IF e \in DOMAIN Memory!FourthElements
                       THEN Memory!Rounded(v, Memory!FourthElements[e][j + 1])
                       ELSE 0
      [] op = "STV" -> vr[j \div 2][(16 - 2 * (e \div 2) + j) % 16]

(* Every store is a Scatter of those bytes.                                *)
Scattered(stored, op, v, e, a) ==
    \E address, byte :
        /\ stored = Memory!Scatter(data, StoredCount(op, a), address, byte)
        /\ \A j \in 0 .. StoredCount(op, a) - 1 :
               address[j] = StoredAt(op, e, a, j) /\ byte[j] = StoredByte(op, v, e, a, j)

(* Sixteen at most.                                                        *)
LEMMA StoredCounts ==
    ASSUME NEW op \in Memory!StoreOps, NEW a \in Int
    PROVE  StoredCount(op, a) \in Nat /\ StoredCount(op, a) <= 16
<1>1. Memory!inLine(a) \in 0 .. 15
  BY WindowFacts, Zenon
<1>2. CASE op \in RunStores
  BY <1>2 DEF StoredCount, RunStores, Memory!Scale
<1>3. CASE op \notin RunStores
  BY <1>1, <1>3 DEF StoredCount, RunStores, Memory!StoreOps
<1>. QED BY <1>2, <1>3

(* Every store of the model is such a scatter.                             *)
LEMMA StoresScatter ==
    ASSUME NEW op \in Memory!StoreOps, NEW v, NEW e, NEW a \in Int
    PROVE  Scattered(Memory!Stored(op, v, e, a), op, v, e, a)
<1>. DEFINE s == Memory!Stored(op, v, e, a)
            k == StoredCount(op, a)
<1>1. k \in Nat /\ k <= 16
  BY StoredCounts
<1>2. ASSUME NEW address, NEW byte, s = Memory!Scatter(data, k, address, byte),
             \A j \in 0 .. k - 1 :
                 address[j] = StoredAt(op, e, a, j) /\ byte[j] = StoredByte(op, v, e, a, j)
      PROVE  Scattered(s, op, v, e, a)
  BY <1>2, Zenon DEF Scattered
<1>. HIDE DEF s, k
<1>3. CASE op \in RunStores
  <2>. DEFINE address == [j \in Memory!Bytes |-> a + j]
              byte == [j \in Memory!Bytes |-> v[(e + j) % 16]]
  <2>1. s = Memory!Scatter(data, k, address, byte)
    BY <1>3 DEF s, k, StoredCount, Memory!Stored, RunStores, Memory!StoreRun
  <2>2. \A j \in 0 .. k - 1 :
            address[j] = StoredAt(op, e, a, j) /\ byte[j] = StoredByte(op, v, e, a, j)
    BY <1>1, <1>3 DEF StoredAt, StoredByte, RunStores, Memory!Bytes
  <2>. HIDE DEF address, byte
  <2>. QED BY <1>2, <2>1, <2>2, Zenon DEF s
<1>4. CASE op = "SQV"
  <2>. DEFINE address == [j \in Memory!Bytes |-> a + j]
              byte == [j \in Memory!Bytes |-> v[(e + j) % 16]]
  <2>1. s = Memory!Scatter(data, k, address, byte)
    BY <1>4 DEF s, k, StoredCount, Memory!Stored, RunStores, Memory!SQV, Memory!StoreRun
  <2>2. \A j \in 0 .. k - 1 :
            address[j] = StoredAt(op, e, a, j) /\ byte[j] = StoredByte(op, v, e, a, j)
    BY <1>1, <1>4 DEF StoredAt, StoredByte, RunStores, Memory!Bytes
  <2>. HIDE DEF address, byte
  <2>. QED BY <1>2, <2>1, <2>2, Zenon DEF s
<1>5. CASE op = "SRV"
  <2>. DEFINE address == [j \in Memory!Bytes |-> (a - Memory!inLine(a)) + j]
              byte == [j \in Memory!Bytes |-> v[(e + j + (16 - Memory!inLine(a))) % 16]]
  <2>1. s = Memory!Scatter(data, k, address, byte)
    BY <1>5 DEF s, k, StoredCount, Memory!Stored, RunStores, Memory!SRV
  <2>2. \A j \in 0 .. k - 1 :
            address[j] = StoredAt(op, e, a, j) /\ byte[j] = StoredByte(op, v, e, a, j)
    BY <1>1, <1>5 DEF StoredAt, StoredByte, RunStores, Memory!Bytes
  <2>. HIDE DEF address, byte
  <2>. QED BY <1>2, <2>1, <2>2, Zenon DEF s
<1>6. CASE op = "SPV"
  <2>. DEFINE address == [j \in 0 .. 7 |-> a + j]
              byte == [j \in 0 .. 7 |-> IF (e + j) % 16 < 8
                             THEN Memory!Top(v, (e + j) % 8)
                             ELSE Memory!Rounded(v, (e + j) % 8)]
  <2>1. s = Memory!Scatter(data, k, address, byte)
    BY <1>6 DEF s, k, StoredCount, Memory!Stored, RunStores, Memory!SPV
  <2>2. \A j \in 0 .. k - 1 :
            address[j] = StoredAt(op, e, a, j) /\ byte[j] = StoredByte(op, v, e, a, j)
    BY <1>1, <1>6 DEF k, StoredCount, StoredAt, StoredByte, RunStores
  <2>. HIDE DEF address, byte
  <2>. QED BY <1>2, <2>1, <2>2, Zenon DEF s
<1>7. CASE op = "SUV"
  <2>. DEFINE address == [j \in 0 .. 7 |-> a + j]
              byte == [j \in 0 .. 7 |-> IF (e + j) % 16 < 8
                             THEN Memory!Rounded(v, (e + j) % 8)
                             ELSE Memory!Top(v, (e + j) % 8)]
  <2>1. s = Memory!Scatter(data, k, address, byte)
    BY <1>7 DEF s, k, StoredCount, Memory!Stored, RunStores, Memory!SUV
  <2>2. \A j \in 0 .. k - 1 :
            address[j] = StoredAt(op, e, a, j) /\ byte[j] = StoredByte(op, v, e, a, j)
    BY <1>1, <1>7 DEF k, StoredCount, StoredAt, StoredByte, RunStores
  <2>. HIDE DEF address, byte
  <2>. QED BY <1>2, <2>1, <2>2, Zenon DEF s
<1>8. CASE op = "SHV"
  <2>. DEFINE address == [j \in 0 .. 7 |-> Memory!inWindow(a, Memory!inUnit(a) + 2 * j)]
              byte == [j \in 0 .. 7 |-> (2 * v[(e + 2 * j) % 16]
                  + v[(e + 2 * j + 1) % 16] \div (Base \div 2)) % Base]
  <2>1. s = Memory!Scatter(data, k, address, byte)
    BY <1>8 DEF s, k, StoredCount, Memory!Stored, RunStores, Memory!SHV
  <2>2. \A j \in 0 .. k - 1 :
            address[j] = StoredAt(op, e, a, j) /\ byte[j] = StoredByte(op, v, e, a, j)
    BY <1>1, <1>8 DEF k, StoredCount, StoredAt, StoredByte, RunStores
  <2>. HIDE DEF address, byte
  <2>. QED BY <1>2, <2>1, <2>2, Zenon DEF s
<1>9. CASE op = "SFV"
  <2>. DEFINE address == [j \in 0 .. 3 |-> Memory!inWindow(a, Memory!inUnit(a) + 4 * j)]
              byte == [j \in 0 .. 3 |-> IF e \in DOMAIN Memory!FourthElements
                             THEN Memory!Rounded(v, Memory!FourthElements[e][j + 1])
                             ELSE 0]
  <2>1. s = Memory!Scatter(data, k, address, byte)
    BY <1>9 DEF s, k, StoredCount, Memory!Stored, RunStores, Memory!SFV
  <2>2. \A j \in 0 .. k - 1 :
            address[j] = StoredAt(op, e, a, j) /\ byte[j] = StoredByte(op, v, e, a, j)
    BY <1>1, <1>9 DEF k, StoredCount, StoredAt, StoredByte, RunStores
  <2>. HIDE DEF address, byte
  <2>. QED BY <1>2, <2>1, <2>2, Zenon DEF s
<1>10. CASE op = "SWV"
  <2>. DEFINE address == [j \in Memory!Bytes |-> Memory!inWindow(a, Memory!inUnit(a) + j)]
              byte == [j \in Memory!Bytes |-> v[(e + j) % 16]]
  <2>1. s = Memory!Scatter(data, k, address, byte)
    BY <1>10 DEF s, k, StoredCount, Memory!Stored, RunStores, Memory!SWV
  <2>2. \A j \in 0 .. k - 1 :
            address[j] = StoredAt(op, e, a, j) /\ byte[j] = StoredByte(op, v, e, a, j)
    BY <1>1, <1>10 DEF StoredAt, StoredByte, RunStores, Memory!Bytes
  <2>. HIDE DEF address, byte
  <2>. QED BY <1>2, <2>1, <2>2, Zenon DEF s
<1>11. CASE op = "STV"
  <2>. DEFINE address == [j \in Memory!Bytes |->
                  Memory!inWindow(a, Memory!inUnit(a) - 2 * (e \div 2) + j)]
              byte == [j \in Memory!Bytes |-> vr[j \div 2][(16 - 2 * (e \div 2) + j) % 16]]
  <2>1. s = Memory!Scatter(data, k, address, byte)
    BY <1>11 DEF s, k, StoredCount, Memory!Stored, RunStores, Memory!STV
  <2>2. \A j \in 0 .. k - 1 :
            address[j] = StoredAt(op, e, a, j) /\ byte[j] = StoredByte(op, v, e, a, j)
    BY <1>1, <1>11 DEF StoredAt, StoredByte, RunStores, Memory!Bytes
  <2>. HIDE DEF address, byte
  <2>. QED BY <1>2, <2>1, <2>2, Zenon DEF s
<1>. QED BY <1>3, <1>4, <1>5, <1>6, <1>7, <1>8, <1>9, <1>10, <1>11 DEF Memory!StoreOps, RunStores, s

(* Every address a store writes is in its reach.                           *)
LEMMA StoredInReach ==
    ASSUME NEW op \in Memory!StoreOps, NEW e \in Int, NEW a \in Int,
           NEW j \in 0 .. StoredCount(op, a) - 1
    PROVE  /\ StoredAt(op, e, a, j) \in Int
           /\ StoredAt(op, e, a, j) \in Memory!Reach(op, a)
<1>1. /\ Memory!inLine(a) \in 0 .. 15 /\ Memory!inUnit(a) \in 0 .. 7
      /\ Memory!Window(a) \in Int
      /\ \A k \in Int : /\ Memory!inWindow(a, k) \in Int
                       /\ Memory!inWindow(a, k) >= Memory!Window(a)
                       /\ Memory!inWindow(a, k) <= Memory!Window(a) + 15
  BY WindowFacts, Zenon
<1>2. StoredCount(op, a) \in Nat /\ j \in Nat /\ j < StoredCount(op, a)
  BY StoredCounts
<1>3. Memory!inLine(a) \in Nat /\ Memory!inLine(a) <= 15
  BY <1>1
<1>4. CASE op \in RunStores \cup {"SPV", "SUV"}
  <2>1. StoredCount(op, a) = Memory!Scale(op)
    BY <1>4 DEF StoredCount, RunStores, Memory!Scale
  <2>2. StoredAt(op, e, a, j) = a + j
    BY <1>4 DEF StoredAt, RunStores
  <2>3. Memory!Reach(op, a) = a .. a + Memory!Scale(op) - 1
    BY <1>4 DEF Memory!Reach, RunStores
  <2>. QED BY <1>2, <2>1, <2>2, <2>3
<1>5. CASE op = "SQV"
  <2>1. StoredCount(op, a) = 16 - Memory!inLine(a) /\ StoredAt(op, e, a, j) = a + j
    BY <1>5 DEF StoredCount, StoredAt, RunStores
  <2>2. Memory!Reach(op, a) = a .. a + (15 - Memory!inLine(a))
    BY <1>5 DEF Memory!Reach
  <2>. QED BY <1>3, <1>2, <2>1, <2>2
<1>6. CASE op = "SRV"
  <2>1. /\ StoredCount(op, a) = Memory!inLine(a)
        /\ StoredAt(op, e, a, j) = (a - Memory!inLine(a)) + j
    BY <1>6 DEF StoredCount, StoredAt, RunStores
  <2>2. Memory!Reach(op, a) = a - Memory!inLine(a) .. a - 1
    BY <1>6 DEF Memory!Reach
  <2>. QED BY <1>3, <1>2, <2>1, <2>2
<1>7. CASE op \in {"SHV", "SFV", "SWV", "STV"}
  <2>1. Memory!Reach(op, a) = Memory!Window(a) .. Memory!Window(a) + 15
    BY <1>7 DEF Memory!Reach
  <2>2. PICK k \in Int : StoredAt(op, e, a, j) = Memory!inWindow(a, k)
    <3>1. /\ Memory!inUnit(a) + 2 * j \in Int /\ Memory!inUnit(a) + 4 * j \in Int
          /\ Memory!inUnit(a) + j \in Int /\ Memory!inUnit(a) - 2 * (e \div 2) + j \in Int
      BY <1>1, <1>2
    <3>. QED BY <1>7, <3>1 DEF StoredAt, RunStores
  <2>3. /\ StoredAt(op, e, a, j) \in Int
        /\ StoredAt(op, e, a, j) >= Memory!Window(a)
        /\ StoredAt(op, e, a, j) <= Memory!Window(a) + 15
    BY <1>1, <2>2
  <2>. QED BY <1>1, <2>1, <2>3
<1>. QED BY <1>4, <1>5, <1>6, <1>7 DEF Memory!StoreOps, RunStores

(* So a store changes only bytes in its reach.                             *)
LEMMA ChangedInReach ==
    ASSUME NEW op \in Memory!StoreOps, NEW v, NEW e \in Int, NEW a \in Int,
           NEW i \in Memory!Index,
           Memory!readByte(Memory!Stored(op, v, e, a), i) # Memory!readByte(data, i)
    PROVE  \E c \in Memory!Reach(op, a) : c % MemorySize = i
<1>. DEFINE stored == Memory!Stored(op, v, e, a)
            k == StoredCount(op, a)
            c == Memory!At(i)
<1>1. i \in Int /\ i % MemorySize = i /\ c \in Memory!Index
  <2>1. i \in Int /\ i % MemorySize = i
    BY MemoryAssumption DEF Memory!Index
  <2>. QED BY <2>1, MirrorFacts
<1>2. k \in Nat
  BY StoredCounts
<1>3. Scattered(stored, op, v, e, a)
  BY StoresScatter, Zenon
<1>4. stored[c] # data[c]
  BY DEF Memory!readByte
<1>. HIDE DEF stored, c, k
<1>5. PICK address, byte :
          /\ stored = Memory!Scatter(data, k, address, byte)
          /\ \A j \in 0 .. k - 1 : address[j] = StoredAt(op, e, a, j)
  BY <1>3 DEF Scattered, k
<1>6. Memory!Scatter(data, k, address, byte)[c] # data[c]
  BY <1>4, <1>5, Zenon
<1>7. PICK j \in 0 .. k - 1 : Memory!At(address[j]) = c
  BY <1>1, <1>2, <1>6, ScatterChanges
<1>. DEFINE x == StoredAt(op, e, a, j)
<1>8. x \in Int /\ x \in Memory!Reach(op, a)
  BY <1>7, StoredInReach DEF k
<1>9. Memory!At(x) = Memory!At(i)
  BY <1>5, <1>7 DEF c
<1>. HIDE DEF x
<1>10. x % MemorySize = i
  <2>1. x % MemorySize = i % MemorySize
    BY <1>1, <1>8, <1>9, MirrorFacts
  <2>. QED BY <1>1, <2>1, Zenon
<1>. QED BY <1>8, <1>10, Zenon

(* The program that runs stays the same, and so do its address registers.  *)
MemoryInv ==
    /\ program \in Programs
    /\ base \in [{"from", "to"} -> Bases]
    /\ pc \in Nat \ {0}

(* The first instruction of a program is next.                             *)
LEMMA MemoryStarts == VectorInit => MemoryInv
<1> SUFFICES ASSUME VectorInit
             PROVE  MemoryInv
  OBVIOUS
<1>1. Memory!Init
  BY Zenon DEF VectorInit
<1> QED
  BY <1>1 DEF Memory!Init, MemoryInv

(* Every instruction moves on to the next, whatever it does.               *)
LEMMA MemoryAdvances ==
    Memory!Next => pc' = pc + 1 /\ program' = program /\ base' = base
BY DEF Memory!Next, Memory!Load, Memory!TransposedLoad, Memory!Store, Memory!MoveFrom,
       Memory!MoveTo, Memory!Advance

(* A step of another part of the unit changes nothing of it.               *)
LEMMA MemoryStep == MemoryInv /\ [VectorNext]_vectorVars => MemoryInv'
<1> SUFFICES ASSUME MemoryInv, [VectorNext]_vectorVars
             PROVE  MemoryInv'
  OBVIOUS
<1>1. Memory!Next \/ UNCHANGED memoryVars
  BY Zenon DEF VectorNext, vectorVars
<1>2. ASSUME UNCHANGED memoryVars PROVE MemoryInv'
  BY <1>2 DEF MemoryInv, memoryVars
<1>3. ASSUME Memory!Next PROVE MemoryInv'
  BY <1>3, MemoryAdvances DEF MemoryInv
<1> QED
  BY <1>1, <1>2, <1>3

(* The instruction that runs is one of the unit's, at an integer address.  *)
LEMMA CurrentFacts ==
    ASSUME MemoryInv, ~Memory!Done
    PROVE  /\ Memory!Current \in Memory!Transfers
           /\ Memory!Address(Memory!Current) \in Int
<1>1. program.code \in Seq(Memory!Transfers)
  BY ProgramsAssumption DEF MemoryInv
<1>2. pc \in 1 .. Len(program.code)
  BY <1>1 DEF MemoryInv, Memory!Done
<1>3. Memory!Current \in Memory!Transfers
  BY <1>1, <1>2 DEF Memory!Current
<1>. DEFINE i == Memory!Current
<1>. HIDE DEF i
<1>4. i \in Memory!Transfers
  BY <1>3 DEF i
<1>5. i.register \in {"from", "to"} /\ i.imm \in Int
  BY <1>4 DEF Memory!Transfers
<1>6. base[i.register] \in Int
  BY <1>5, BasesAssumption DEF MemoryInv
<1>7. Memory!Scale(i.op) \in Int
  BY DEF Memory!Scale
<1>8. Memory!Address(i) \in Int
  BY <1>5, <1>6, <1>7 DEF Memory!Address
<1> QED
  BY <1>3, <1>8 DEF i

(* What Store does to the memory is in reach of its instruction.           *)
LEMMA StoreReaches ==
    ASSUME MemoryInv, Memory!Store, NEW i \in Memory!Index,
           Memory!readByte(data', i) # Memory!readByte(data, i)
    PROVE  \E a \in Memory!Reach(Memory!Current.op, Memory!Address(Memory!Current)) :
               a % MemorySize = i
<1>. DEFINE op == Memory!Current.op
            e == Memory!Current.e
            v == vr[Memory!Current.vt]
            a == Memory!Address(Memory!Current)
<1>1. ~Memory!Done /\ op \in Memory!StoreOps /\ data' = Memory!Stored(op, v, e, a)
  BY DEF Memory!Store
<1>2. Memory!Current \in Memory!Transfers /\ a \in Int
  BY <1>1, CurrentFacts
<1>3. e \in Int
  BY <1>2 DEF Memory!Transfers
<1>. HIDE DEF op, e, v, a
<1>4. Memory!readByte(Memory!Stored(op, v, e, a), i) # Memory!readByte(data, i)
  BY <1>1
<1>5. \E c \in Memory!Reach(op, a) : c % MemorySize = i
  BY <1>1, <1>2, <1>3, <1>4, ChangedInReach
<1> QED
  BY <1>5 DEF op, a

(* A store changes no byte outside the line or window of its address,      *)
(* whatever its element, its registers and the size of the memory          *)
(* (interpreter-vpu.cpp, SBV .. STV and SWV).                              *)
THEOREM StoresInReach == VectorSpec => StoresStayInReach
<1>. DEFINE Confined == data' # data => \A i \in Memory!Index :
                Memory!readByte(data', i) # Memory!readByte(data, i) =>
                    \E a \in Memory!Reach(Memory!Current.op, Memory!Address(Memory!Current)) :
                        a % MemorySize = i
<1>1. MemoryInv /\ [VectorNext]_vectorVars => [Confined]_Memory!vars
  <2> SUFFICES ASSUME MemoryInv, [VectorNext]_vectorVars
               PROVE  [Confined]_Memory!vars
    OBVIOUS
  <2>1. Memory!Next \/ UNCHANGED memoryVars
    BY Zenon DEF VectorNext, vectorVars
  <2>2. CASE UNCHANGED memoryVars
    BY <2>2 DEF memoryVars, Memory!vars
  <2>3. CASE Memory!Store
    BY <2>3, StoreReaches
  <2>4. CASE Memory!Next /\ ~Memory!Store
    <3>1. data' = data
      BY <2>4 DEF Memory!Next, Memory!Load, Memory!TransposedLoad, Memory!MoveFrom,
                  Memory!MoveTo
    <3> QED
      BY <3>1
  <2> QED
    BY <2>1, <2>2, <2>3, <2>4
<1> QED
  BY <1>1, MemoryStarts, MemoryStep, PTL
     DEF VectorSpec, StoresStayInReach, Memory!StoresStayInReach

-----------------------------------------------------------------------------
(* What is read back from a memory that was stored to, and that memory and *)
(* registers hold bytes.                                                   *)

(* Two addresses of the same byte are the same or a memory apart.          *)
LEMMA Near ==
    ASSUME NEW a \in Int, NEW b \in Int, a % MemorySize = b % MemorySize,
           a - b < MemorySize, b - a < MemorySize
    PROVE  a = b
<1>. DEFINE p == a \div MemorySize
            q == b \div MemorySize
<1>1. /\ p \in Int /\ q \in Int
      /\ a = MemorySize * p + (a % MemorySize)
      /\ b = MemorySize * q + (b % MemorySize)
      /\ a % MemorySize \in Int
      /\ MemorySize \in Nat /\ MemorySize > 0
  BY MemoryAssumption
<1>. HIDE DEF p, q
<1>2. (p - q) * MemorySize = a - b
  BY <1>1
<1>3. p - q \in Int
  BY <1>1
<1>4. p - q = 0
  BY <1>1, <1>2, <1>3, Multiples
<1>. QED BY <1>1, <1>2, <1>4

(* What Scatter writes is read back where no two of its addresses meet.    *)
LEMMA ScatterReads ==
    ASSUME NEW d, NEW k \in Nat, NEW address, NEW byte, NEW j \in 0 .. k - 1,
           \A c \in 0 .. k - 1 : address[c] \in Int,
           \A c \in 0 .. k - 1 : Memory!At(address[c]) = Memory!At(address[j]) => c = j
    PROVE  Memory!readByte(Memory!Scatter(d, k, address, byte), address[j]) = byte[j]
<1>. DEFINE x == Memory!At(address[j])
            writes == {c \in 0 .. k - 1 : Memory!At(address[c]) = x}
<1>1. x \in Memory!Index
  BY MirrorFacts
<1>2. writes = {j}
  OBVIOUS
<1>3. (CHOOSE c \in writes : \A b \in writes : b <= c) = j
  BY <1>2
<1>4. Memory!Scatter(d, k, address, byte)[x]
      = IF writes = {} THEN d[x] ELSE byte[CHOOSE c \in writes : \A b \in writes : b <= c]
  <2>. HIDE DEF x
  <2>. QED BY <1>1 DEF Memory!Scatter
<1>5. Memory!Scatter(d, k, address, byte)[x] = byte[j]
  <2>. HIDE DEF x, writes
  <2>. QED BY <1>2, <1>3, <1>4
<1>. QED BY <1>5 DEF Memory!readByte

(* Bytes that it does not write stay as they are.                          *)
LEMMA ScatterLeaves ==
    ASSUME NEW d, NEW k \in Nat, NEW address, NEW byte, NEW x \in Int,
           \A c \in 0 .. k - 1 : Memory!At(address[c]) # Memory!At(x)
    PROVE  Memory!readByte(Memory!Scatter(d, k, address, byte), x) = Memory!readByte(d, x)
<1>. DEFINE i == Memory!At(x)
            after == Memory!Scatter(d, k, address, byte)
<1>1. i \in Memory!Index
  BY MirrorFacts
<1>2. \A c \in 0 .. k - 1 : Memory!At(address[c]) # i
  OBVIOUS
<1>3. after[i] = d[i]
  <2>. HIDE DEF i
  <2>. QED BY <1>1, <1>2, ScatterChanges
<1>. QED BY <1>3 DEF Memory!readByte

(* Two addresses less than a line apart are different bytes.               *)
LEMMA Apart ==
    ASSUME NEW a \in Int, NEW b \in Int, a - b <= 15, b - a <= 15,
           Memory!At(a) = Memory!At(b)
    PROVE  a = b
<1>1. a % MemorySize = b % MemorySize
  BY MirrorFacts
<1>2. MemorySize \in Nat /\ MemorySize >= 128
  BY MemoryAssumption
<1>. QED BY <1>1, <1>2, Near

(* A byte has twice as many values as half of them.                        *)
LEMMA BaseFacts ==
    /\ Base \in Nat /\ Base >= 2
    /\ Base \div 2 \in Nat /\ Base \div 2 >= 1 /\ Base = 2 * (Base \div 2)
BY BaseAssumption

(* What remains of a number modulo Base is a byte, and so is a byte read.  *)
LEMMA ModuloByte ==
    ASSUME NEW k \in Int
    PROVE  k % Base \in Memory!Byte
BY BaseFacts DEF Memory!Byte

(* What is read from the memory is a byte.                                 *)
LEMMA ReadByte ==
    ASSUME NEW d \in Memory!Data, NEW a \in Int
    PROVE  Memory!readByte(d, a) \in Memory!Byte
BY MirrorFacts DEF Memory!Data, Memory!readByte

(* A byte, shifted up by 8 or by 7, as two bytes.                          *)
LEMMA PackedBytes ==
    ASSUME NEW b \in Memory!Byte
    PROVE  /\ (b * Base) \div Base = b /\ (b * Base) % Base = 0
           /\ (b * (Base \div 2)) \div Base = b \div 2
           /\ (b * (Base \div 2)) % Base = (b % 2) * (Base \div 2)
           /\ b \div 2 \in Memory!Byte /\ (b % 2) * (Base \div 2) \in Memory!Byte
           /\ 0 \in Memory!Byte
<1>. DEFINE half == Base \div 2
            q == b \div 2
            r == b % 2
<1>1. half \in Nat /\ half >= 1 /\ Base = 2 * half /\ Base \in Nat
  BY BaseFacts
<1>2. b \in Nat /\ b < Base /\ q \in Nat /\ r \in {0, 1} /\ b = 2 * q + r /\ q < Base
  BY BaseFacts DEF Memory!Byte
<1>. HIDE DEF half, q, r
<1>3. b * half = q * Base + r * half
  BY <1>1, <1>2
<1>4. r * half \in 0 .. Base - 1
  <2>1. CASE r = 0
    BY <1>1, <2>1
  <2>2. CASE r = 1
    BY <1>1, <2>2
  <2>. QED BY <1>2, <2>1, <2>2
<1>5. b * half \in Int
  BY <1>1, <1>2
<1>6. (b * half) \div Base = q /\ (b * half) % Base = r * half
  <2>. DEFINE n == b * half
              t == r * half
  <2>1. n \in Int /\ n = q * Base + t /\ t \in 0 .. Base - 1
    BY <1>3, <1>4, <1>5
  <2>2. Base \in Nat /\ Base >= 1 /\ q \in Int
    BY <1>1, <1>2
  <2>. HIDE DEF n, t
  <2>3. n \div Base = q /\ n % Base = t
    BY <2>1, <2>2, DivModUnique
  <2>. QED BY <2>3 DEF n, t
<1>7. (b * Base) \div Base = b /\ (b * Base) % Base = 0
  <2>. DEFINE n == b * Base
  <2>1. n \in Int /\ n = b * Base + 0 /\ 0 \in 0 .. Base - 1 /\ Base \in Nat /\ Base >= 1 /\ b \in Int
    BY <1>1, <1>2
  <2>. HIDE DEF n
  <2>2. n \div Base = b /\ n % Base = 0
    BY <2>1, DivModUnique
  <2>. QED BY <2>2 DEF n
<1>8. q \in Memory!Byte /\ r * half \in Memory!Byte /\ 0 \in Memory!Byte
  BY <1>1, <1>2, <1>4 DEF Memory!Byte
<1>. QED BY <1>6, <1>7, <1>8 DEF half, q, r

(* The last write of several exists.                                       *)
LEMMA Latest ==
    ASSUME NEW k \in Nat, NEW T \in SUBSET (0 .. k - 1), T # {}
    PROVE  \E j \in T : \A c \in T : c <= j
<1>. DEFINE B == {m \in Nat : \A c \in T : c <= m}
<1>1. PICK m \in B : \A n \in B : m <= n
  <2>1. k \in B /\ B \subseteq Nat
    OBVIOUS
  <2>. HIDE DEF B
  <2>. QED BY <2>1, LeastNumber
<1>2. m \in T
  <2>. SUFFICES ASSUME m \notin T
                PROVE  FALSE
    OBVIOUS
  <2>1. \A c \in T : c \in Nat /\ c < m
    BY <1>1
  <2>2. PICK b \in T : TRUE
    OBVIOUS
  <2>3. m \in Nat /\ m - 1 \in Nat
    BY <1>1, <2>1, <2>2
  <2>4. \A c \in T : c <= m - 1
    BY <2>1, <2>3
  <2>5. m - 1 \in B
    BY <2>3, <2>4
  <2>. QED BY <1>1, <2>5
<1>. QED BY <1>1, <1>2

(* Writing bytes leaves bytes.                                             *)
LEMMA ScatterTypes ==
    ASSUME NEW d \in Memory!Data, NEW k \in Nat, NEW address, NEW byte,
           \A j \in 0 .. k - 1 : byte[j] \in Memory!Byte
    PROVE  Memory!Scatter(d, k, address, byte) \in Memory!Data
<1>. DEFINE writes(i) == {j \in 0 .. k - 1 : Memory!At(address[j]) = i}
            latest(i) == CHOOSE j \in writes(i) : \A c \in writes(i) : c <= j
<1>1. ASSUME NEW i \in Memory!Index
      PROVE  (IF writes(i) = {} THEN d[i] ELSE byte[latest(i)]) \in Memory!Byte
  <2>1. CASE writes(i) = {}
    BY <2>1 DEF Memory!Data
  <2>2. CASE writes(i) # {}
    <3>1. writes(i) \in SUBSET (0 .. k - 1)
      OBVIOUS
    <3>2. latest(i) \in writes(i)
      <4>. HIDE DEF writes
      <4>. QED BY <2>2, <3>1, Latest
    <3>3. latest(i) \in 0 .. k - 1
      <4>. HIDE DEF latest
      <4>. QED BY <3>2
    <3>. QED BY <2>2, <3>3
  <2>. QED BY <2>1, <2>2
<1>2. Memory!Scatter(d, k, address, byte)
      = [i \in Memory!Index |-> IF writes(i) = {} THEN d[i] ELSE byte[latest(i)]]
  BY Zenon DEF Memory!Scatter
<1>. QED BY <1>1, <1>2 DEF Memory!Data

(* The bytes of a register, and its elements.                              *)
LEMMA ElementTypes ==
    ASSUME NEW v \in Memory!Vector, NEW k \in 0 .. 7
    PROVE  /\ Memory!element(v, k) \in Nat
           /\ Memory!Top(v, k) \in Memory!Byte
           /\ Memory!Rounded(v, k) \in Memory!Byte
<1>1. /\ 2 * k \in Memory!Bytes /\ 2 * k + 1 \in Memory!Bytes
  BY DEF Memory!Bytes
<1>2. v[2 * k] \in Memory!Byte /\ v[2 * k + 1] \in Memory!Byte
  BY <1>1 DEF Memory!Vector
<1>3. Memory!element(v, k) \in Nat
  BY <1>2, BaseFacts DEF Memory!element, Memory!Byte
<1>4. Memory!element(v, k) \div (Base \div 2) \in Int
  BY <1>3, BaseFacts
<1>5. Memory!Rounded(v, k) \in Memory!Byte
  BY <1>4, ModuloByte DEF Memory!Rounded
<1>. QED BY <1>2, <1>3, <1>5 DEF Memory!Top

(* A load leaves bytes in its register.                                    *)
LEMMA RunTypes ==
    ASSUME NEW d \in Memory!Data, NEW v \in Memory!Vector, NEW e \in 0 .. 15,
           NEW a \in Int, NEW k \in Int
    PROVE  Memory!LoadRun(d, v, e, a, k) \in Memory!Vector
<1>1. \A i \in Memory!Bytes : Memory!readByte(d, a + i - e) \in Memory!Byte
  <2>1. \A i \in Memory!Bytes : a + i - e \in Int
    BY DEF Memory!Bytes
  <2>. QED BY <2>1, ReadByte
<1>2. \A i \in Memory!Bytes : v[i] \in Memory!Byte
  BY DEF Memory!Vector
<1>. QED BY <1>1, <1>2 DEF Memory!LoadRun, Memory!Vector

(* So does LRV, whose bytes come from the line before its address.         *)
LEMMA RightTypes ==
    ASSUME NEW d \in Memory!Data, NEW v \in Memory!Vector, NEW e \in 0 .. 15, NEW a \in Int
    PROVE  Memory!LRV(d, v, e, a) \in Memory!Vector
<1>. DEFINE x(i) == a - Memory!inLine(a) + i - (16 - (Memory!inLine(a) - e))
<1>1. \A i \in Memory!Bytes : Memory!readByte(d, x(i)) \in Memory!Byte
  <2>1. \A i \in Memory!Bytes : x(i) \in Int
    BY DEF Memory!Bytes, Memory!inLine
  <2>. QED BY <2>1, ReadByte
<1>2. \A i \in Memory!Bytes : v[i] \in Memory!Byte
  BY DEF Memory!Vector
<1>3. Memory!LRV(d, v, e, a) =
          [i \in Memory!Bytes |->
              IF e <= Memory!inLine(a) /\ i >= 16 - (Memory!inLine(a) - e)
              THEN Memory!readByte(d, x(i)) ELSE v[i]]
  BY Zenon DEF Memory!LRV
<1>. HIDE DEF x
<1>. QED BY <1>1, <1>2, <1>3 DEF Memory!Vector

(* So do LPV, LUV and LHV, whose elements hold one byte, shifted.          *)
LEMMA PackedTypes ==
    ASSUME NEW d \in Memory!Data, NEW e \in 0 .. 15, NEW a \in Int,
           NEW step \in Nat, NEW shift
    PROVE  Memory!LoadPacked(d, e, a, step, shift) \in Memory!Vector
<1>. DEFINE byte(k) == Memory!readByte(d, Memory!inWindow(a, Memory!inUnit(a) - e + k * step))
            value(k) == IF shift = 8 THEN byte(k) * Base ELSE byte(k) * (Base \div 2)
<1>1. ASSUME NEW k \in 0 .. 7
      PROVE  value(k) \div Base \in Memory!Byte /\ value(k) % Base \in Memory!Byte
  <2>1. Memory!inUnit(a) - e + k * step \in Int
    <3>1. Memory!inUnit(a) \in Int /\ k * step \in Int
      BY DEF Memory!inUnit
    <3>. QED BY <3>1
  <2>2. Memory!inWindow(a, Memory!inUnit(a) - e + k * step) \in Int
    BY <2>1, WindowFacts, Zenon
  <2>3. byte(k) \in Memory!Byte
    BY <2>2, ReadByte
  <2>. DEFINE b == byte(k)
  <2>4. b \in Memory!Byte /\ value(k) = IF shift = 8 THEN b * Base ELSE b * (Base \div 2)
    BY <2>3
  <2>. HIDE DEF b, value
  <2>5. CASE shift = 8
    BY <2>4, <2>5, PackedBytes
  <2>6. CASE shift # 8
    BY <2>4, <2>6, PackedBytes
  <2>. QED BY <2>5, <2>6
<1>2. Memory!LoadPacked(d, e, a, step, shift) =
          [i \in Memory!Bytes |-> IF i % 2 = 0 THEN value(i \div 2) \div Base
                                              ELSE value(i \div 2) % Base]
  BY Zenon DEF Memory!LoadPacked
<1>3. \A i \in Memory!Bytes : i \div 2 \in 0 .. 7
  BY DEF Memory!Bytes
<1>. HIDE DEF value
<1>. QED BY <1>1, <1>2, <1>3 DEF Memory!Vector

(* So does LFV.                                                            *)
LEMMA FourthTypes ==
    ASSUME NEW d \in Memory!Data, NEW v \in Memory!Vector, NEW e \in 0 .. 15, NEW a \in Int
    PROVE  Memory!LFV(d, v, e, a) \in Memory!Vector
<1>. DEFINE position(k) == IF k < 4 THEN 4 * k ELSE 4 * (k - 4) + 8
            byte(k) == Memory!readByte(d, Memory!inWindow(a, Memory!inUnit(a) - e + position(k)))
            value(k) == byte(k) * (Base \div 2)
<1>1. ASSUME NEW k \in 0 .. 7
      PROVE  value(k) \div Base \in Memory!Byte /\ value(k) % Base \in Memory!Byte
  <2>1. Memory!inUnit(a) - e + position(k) \in Int
    BY DEF Memory!inUnit
  <2>2. Memory!inWindow(a, Memory!inUnit(a) - e + position(k)) \in Int
    BY <2>1, WindowFacts, Zenon
  <2>3. byte(k) \in Memory!Byte
    BY <2>2, ReadByte
  <2>. HIDE DEF byte
  <2>. QED BY <2>3, PackedBytes
<1>2. Memory!LFV(d, v, e, a) =
          [i \in Memory!Bytes |->
              IF i \notin e .. e + 7 THEN v[i]
              ELSE IF i % 2 = 0 THEN value(i \div 2) \div Base ELSE value(i \div 2) % Base]
  BY Zenon DEF Memory!LFV
<1>3. \A i \in Memory!Bytes : i \div 2 \in 0 .. 7 /\ v[i] \in Memory!Byte
  BY DEF Memory!Bytes, Memory!Vector
<1>. HIDE DEF value
<1>. QED BY <1>1, <1>2, <1>3 DEF Memory!Vector

(* And so does every load.                                                 *)
LEMMA LoadTypes ==
    ASSUME NEW op \in Memory!LoadOps, data \in Memory!Data, NEW v \in Memory!Vector,
           NEW e \in 0 .. 15, NEW a \in Int
    PROVE  Memory!Loaded(op, v, e, a) \in Memory!Vector
<1>1. CASE op \in {"LBV", "LSV", "LLV", "LDV"}
  <2>1. Memory!Scale(op) \in Int
    BY DEF Memory!Scale
  <2>2. Memory!Loaded(op, v, e, a) = Memory!LoadRun(data, v, e, a, Memory!Scale(op))
    BY <1>1 DEF Memory!Loaded
  <2>. QED BY <2>1, <2>2, RunTypes
<1>2. CASE op = "LQV"
  <2>1. 16 - Memory!inLine(a) \in Int
    BY DEF Memory!inLine
  <2>2. Memory!Loaded(op, v, e, a) = Memory!LoadRun(data, v, e, a, 16 - Memory!inLine(a))
    BY <1>2 DEF Memory!Loaded, Memory!LQV
  <2>. QED BY <2>1, <2>2, RunTypes
<1>3. CASE op = "LRV"
  BY <1>3, RightTypes DEF Memory!Loaded
<1>4. CASE op \in {"LPV", "LUV", "LHV"}
  BY <1>4, PackedTypes DEF Memory!Loaded
<1>5. CASE op = "LFV"
  BY <1>5, FourthTypes DEF Memory!Loaded
<1>. QED BY <1>1, <1>2, <1>3, <1>4, <1>5 DEF Memory!LoadOps

(* LTV fills two bytes of each register.                                   *)
LEMMA TransposedTypes ==
    ASSUME NEW d \in Memory!Data, NEW regs \in [0..7 -> Memory!Vector], NEW e \in 0 .. 15,
           NEW a \in Int
    PROVE  Memory!LTV(d, regs, e, a) \in [0..7 -> Memory!Vector]
<1>. DEFINE at(k) == Memory!inWindow(a, e + 8 * ((a \div 8) % 2) + k)
            turn(k) == (k - e \div 2) % 8
            row(k) == [regs[k] EXCEPT
                          ![2 * turn(k)] = Memory!readByte(d, at(2 * turn(k))),
                          ![2 * turn(k) + 1] = Memory!readByte(d, at(2 * turn(k) + 1))]
<1>1. ASSUME NEW k \in 0 .. 7
      PROVE  row(k) \in Memory!Vector
  <2>1. turn(k) \in 0 .. 7
    OBVIOUS
  <2>2. \A j \in Int : at(j) \in Int
    <3>1. \A j \in Int : e + 8 * ((a \div 8) % 2) + j \in Int
      OBVIOUS
    <3>. QED BY <3>1, WindowFacts, Zenon
  <2>. DEFINE x == at(2 * turn(k))
              y == at(2 * turn(k) + 1)
  <2>. HIDE DEF at
  <2>3. x \in Int /\ y \in Int
    BY <2>1, <2>2
  <2>4. Memory!readByte(d, x) \in Memory!Byte /\ Memory!readByte(d, y) \in Memory!Byte
    BY <2>3, ReadByte
  <2>. HIDE DEF turn
  <2>. QED BY <2>1, <2>4 DEF Memory!Vector
<1>2. Memory!LTV(d, regs, e, a) = [k \in 0 .. 7 |-> row(k)]
  BY Zenon DEF Memory!LTV
<1>. HIDE DEF row
<1>. QED BY <1>1, <1>2

(* A store writes bytes.                                                   *)
LEMMA StoredByteTypes ==
    ASSUME NEW op \in Memory!StoreOps, NEW v \in Memory!Vector, NEW e \in 0 .. 15,
           NEW a \in Int, vr \in [0..7 -> Memory!Vector],
           NEW j \in 0 .. StoredCount(op, a) - 1
    PROVE  StoredByte(op, v, e, a, j) \in Memory!Byte
<1>1. j \in Nat /\ j <= 15 /\ e \in Nat /\ e <= 15
  BY StoredCounts
<1>2. \A k \in Int : v[k % 16] \in Memory!Byte
  BY DEF Memory!Vector, Memory!Bytes
<1>3. \A k \in Int : /\ Memory!Top(v, k % 8) \in Memory!Byte
                     /\ Memory!Rounded(v, k % 8) \in Memory!Byte
  <2>1. \A k \in Int : k % 8 \in 0 .. 7
    OBVIOUS
  <2>. QED BY <2>1, ElementTypes
<1>4. CASE op \in RunStores \cup {"SQV", "SWV"}
  <2>1. StoredByte(op, v, e, a, j) = v[(e + j) % 16]
    BY <1>4 DEF StoredByte, RunStores
  <2>2. e + j \in Int
    BY <1>1
  <2>. QED BY <1>2, <2>1, <2>2
<1>5. CASE op = "SRV"
  <2>1. StoredByte(op, v, e, a, j) = v[(e + j + (16 - Memory!inLine(a))) % 16]
    BY <1>5 DEF StoredByte, RunStores
  <2>2. e + j + (16 - Memory!inLine(a)) \in Int
    BY <1>1 DEF Memory!inLine
  <2>. QED BY <1>2, <2>1, <2>2
<1>6. CASE op \in {"SPV", "SUV"}
  <2>1. e + j \in Int
    BY <1>1
  <2>2. /\ Memory!Top(v, (e + j) % 8) \in Memory!Byte
        /\ Memory!Rounded(v, (e + j) % 8) \in Memory!Byte
    BY <1>3, <2>1
  <2>. QED BY <1>6, <2>2 DEF StoredByte, RunStores
<1>7. CASE op = "SHV"
  <2>. DEFINE x == v[(e + 2 * j) % 16]
              y == v[(e + 2 * j + 1) % 16]
              z == 2 * x + y \div (Base \div 2)
  <2>1. e + 2 * j \in Int /\ e + 2 * j + 1 \in Int
    BY <1>1
  <2>2. x \in Memory!Byte /\ y \in Memory!Byte
    BY <1>2, <2>1
  <2>3. StoredByte(op, v, e, a, j) = z % Base
    BY <1>7 DEF StoredByte, RunStores
  <2>. HIDE DEF x, y
  <2>4. z \in Int
    BY <2>2, BaseFacts DEF Memory!Byte
  <2>. HIDE DEF z
  <2>. QED BY <2>3, <2>4, ModuloByte
<1>8. CASE op = "SFV"
  <2>1. j \in 0 .. 3
    BY <1>1, <1>8 DEF StoredCount, RunStores
  <2>2. \A k \in DOMAIN Memory!FourthElements :
            /\ Memory!FourthElements[k][1] \in 0 .. 7 /\ Memory!FourthElements[k][2] \in 0 .. 7
            /\ Memory!FourthElements[k][3] \in 0 .. 7 /\ Memory!FourthElements[k][4] \in 0 .. 7
    BY DEF Memory!FourthElements
  <2>3. \A k \in DOMAIN Memory!FourthElements : Memory!FourthElements[k][j + 1] \in 0 .. 7
    BY <2>1, <2>2
  <2>4. 0 \in Memory!Byte
    BY BaseFacts DEF Memory!Byte
  <2>5. StoredByte(op, v, e, a, j) =
            IF e \in DOMAIN Memory!FourthElements
            THEN Memory!Rounded(v, Memory!FourthElements[e][j + 1]) ELSE 0
    BY <1>8 DEF StoredByte, RunStores
  <2>. QED BY <2>3, <2>4, <2>5, ElementTypes
<1>9. CASE op = "STV"
  <2>1. StoredByte(op, v, e, a, j) = vr[j \div 2][(16 - 2 * (e \div 2) + j) % 16]
    BY <1>9 DEF StoredByte, RunStores
  <2>2. j \div 2 \in 0 .. 7 /\ (16 - 2 * (e \div 2) + j) % 16 \in 0 .. 15
    BY <1>1
  <2>3. vr[j \div 2] \in Memory!Vector
    BY <2>2
  <2>. QED BY <2>1, <2>2, <2>3 DEF Memory!Vector, Memory!Bytes
<1>. QED BY <1>4, <1>5, <1>6, <1>7, <1>8, <1>9 DEF Memory!StoreOps, RunStores

(* So the memory holds bytes after it.                                     *)
LEMMA StoreTypes ==
    ASSUME NEW op \in Memory!StoreOps, data \in Memory!Data, NEW v \in Memory!Vector,
           NEW e \in 0 .. 15, NEW a \in Int, vr \in [0..7 -> Memory!Vector]
    PROVE  Memory!Stored(op, v, e, a) \in Memory!Data
<1>. DEFINE stored == Memory!Stored(op, v, e, a)
            k == StoredCount(op, a)
<1>1. k \in Nat
  BY StoredCounts
<1>2. Scattered(stored, op, v, e, a)
  BY StoresScatter, Zenon
<1>3. \A j \in 0 .. k - 1 : StoredByte(op, v, e, a, j) \in Memory!Byte
  BY StoredByteTypes
<1>. HIDE DEF stored, k
<1>4. PICK address, byte :
          /\ stored = Memory!Scatter(data, k, address, byte)
          /\ \A j \in 0 .. k - 1 : byte[j] = StoredByte(op, v, e, a, j)
  BY <1>2 DEF Scattered, k
<1>5. \A j \in 0 .. k - 1 : byte[j] \in Memory!Byte
  BY <1>3, <1>4
<1>6. Memory!Scatter(data, k, address, byte) \in Memory!Data
  BY <1>1, <1>5, ScatterTypes
<1>7. stored \in Memory!Data
  BY <1>4, <1>6, Zenon
<1>. QED BY <1>7 DEF stored

(* The two moves exchange bytes.                                           *)
LEMMA MoveTypes ==
    ASSUME NEW v \in Memory!Vector, NEW e \in 0 .. 15,
           NEW w \in Memory!Byte \X Memory!Byte \X Memory!Byte \X Memory!Byte
    PROVE  /\ Memory!MFC2(v, e) \in Memory!Byte \X Memory!Byte \X Memory!Byte \X Memory!Byte
           /\ Memory!MTC2(w, v, e) \in Memory!Vector
<1>1. e \in Memory!Bytes /\ (e + 1) % 16 \in Memory!Bytes
  BY DEF Memory!Bytes
<1>2. /\ v[e] \in Memory!Byte /\ v[(e + 1) % 16] \in Memory!Byte
      /\ 0 \in Memory!Byte /\ Base - 1 \in Memory!Byte
  BY <1>1, BaseFacts DEF Memory!Vector, Memory!Byte
<1>3. \A i \in Memory!Bytes : v[i] \in Memory!Byte
  BY DEF Memory!Vector
<1>4. w[3] \in Memory!Byte /\ w[4] \in Memory!Byte
  OBVIOUS
<1>5. Memory!MTC2(w, v, e) \in Memory!Vector
  BY <1>3, <1>4 DEF Memory!MTC2, Memory!Vector
<1>6. Memory!MFC2(v, e) \in Memory!Byte \X Memory!Byte \X Memory!Byte \X Memory!Byte
  BY <1>2 DEF Memory!MFC2
<1>. QED BY <1>5, <1>6

(* What a step does, by the instruction that is next.                      *)
Effects(i, a) ==
    /\ i.op \in Memory!LoadOps =>
           /\ vr' = [vr EXCEPT ![i.vt] = Memory!Loaded(i.op, vr[i.vt], i.e, a)]
           /\ data' = data /\ rt' = rt
    /\ i.op = "LTV" => vr' = Memory!LTV(data, vr, i.e, a) /\ data' = data /\ rt' = rt
    /\ i.op \in Memory!StoreOps =>
           data' = Memory!Stored(i.op, vr[i.vt], i.e, a) /\ vr' = vr /\ rt' = rt
    /\ i.op = "MFC2" => rt' = Memory!MFC2(vr[i.vt], i.e) /\ data' = data /\ vr' = vr
    /\ i.op = "MTC2" =>
           /\ vr' = [vr EXCEPT ![i.vt] = Memory!MTC2(rt, vr[i.vt], i.e)]
           /\ data' = data /\ rt' = rt

(* Every step runs the instruction that is next.                           *)
LEMMA StepEffects ==
    ASSUME Memory!Next
    PROVE  /\ ~Memory!Done
           /\ Effects(Memory!Current, Memory!Address(Memory!Current))
<1>. DEFINE op == Memory!Current.op
<1>1. /\ Memory!LoadOps \cap Memory!StoreOps = {}
      /\ "LTV" \notin Memory!LoadOps \cup Memory!StoreOps
      /\ "MFC2" \notin Memory!LoadOps \cup Memory!StoreOps
      /\ "MTC2" \notin Memory!LoadOps \cup Memory!StoreOps
  BY DEF Memory!LoadOps, Memory!StoreOps
<1>2. CASE Memory!Load
  BY <1>1, <1>2 DEF Memory!Load, Effects
<1>3. CASE Memory!TransposedLoad
  BY <1>1, <1>3 DEF Memory!TransposedLoad, Effects
<1>4. CASE Memory!Store
  BY <1>1, <1>4 DEF Memory!Store, Effects
<1>5. CASE Memory!MoveFrom
  BY <1>1, <1>5 DEF Memory!MoveFrom, Effects
<1>6. CASE Memory!MoveTo
  BY <1>1, <1>6 DEF Memory!MoveTo, Effects
<1>. QED BY <1>2, <1>3, <1>4, <1>5, <1>6 DEF Memory!Next

(* Memory and registers hold bytes, whatever the program.                  *)
LEMMA TypesStart == Memory!Init => Memory!TypeOK
<1> SUFFICES ASSUME Memory!Init
             PROVE  Memory!TypeOK
  OBVIOUS
<1>1. 0 \in Memory!Byte
  BY BaseFacts DEF Memory!Byte
<1> QED
  BY <1>1, ContentsAssumption DEF Memory!Init, Memory!TypeOK

(* Every instruction leaves bytes where it writes.                         *)
LEMMA TypesKept == MemoryInv /\ Memory!TypeOK /\ Memory!Next => Memory!TypeOK'
<1> SUFFICES ASSUME MemoryInv, Memory!TypeOK, Memory!Next
             PROVE  Memory!TypeOK'
  OBVIOUS
<1>. DEFINE i == Memory!Current
            a == Memory!Address(i)
            Quad == Memory!Byte \X Memory!Byte \X Memory!Byte \X Memory!Byte
<1>1. ~Memory!Done /\ Effects(i, a)
  BY StepEffects
<1>2. i \in Memory!Transfers /\ a \in Int
  BY <1>1, CurrentFacts
<1>. HIDE DEF i, a, Quad
<1>3. i.vt \in 0 .. 7 /\ i.e \in 0 .. 15
  BY <1>2 DEF Memory!Transfers
<1>4. /\ data \in Memory!Data /\ vr \in [0..7 -> Memory!Vector] /\ rt \in Quad
      /\ vr[i.vt] \in Memory!Vector
  BY <1>3 DEF Memory!TypeOK, Quad
<1>5. CASE i.op \in Memory!LoadOps
  <2>1. Memory!Loaded(i.op, vr[i.vt], i.e, a) \in Memory!Vector
    BY <1>2, <1>3, <1>4, <1>5, LoadTypes
  <2>2. vr' \in [0..7 -> Memory!Vector] /\ data' = data /\ rt' = rt
    BY <1>1, <1>3, <1>4, <1>5, <2>1 DEF Effects
  <2> QED
    BY <1>4, <2>2 DEF Memory!TypeOK, Quad
<1>6. CASE i.op = "LTV"
  <2>1. Memory!LTV(data, vr, i.e, a) \in [0..7 -> Memory!Vector]
    BY <1>2, <1>3, <1>4, TransposedTypes
  <2> QED
    BY <1>1, <1>4, <1>6, <2>1 DEF Memory!TypeOK, Effects, Quad
<1>7. CASE i.op \in Memory!StoreOps
  <2>1. Memory!Stored(i.op, vr[i.vt], i.e, a) \in Memory!Data
    BY <1>2, <1>3, <1>4, <1>7, StoreTypes
  <2> QED
    BY <1>1, <1>4, <1>7, <2>1 DEF Memory!TypeOK, Effects, Quad
<1>8. CASE i.op = "MFC2"
  <2>1. Memory!MFC2(vr[i.vt], i.e) \in Quad
    BY <1>3, <1>4, MoveTypes DEF Quad
  <2> QED
    BY <1>1, <1>4, <1>8, <2>1 DEF Memory!TypeOK, Effects, Quad
<1>9. CASE i.op = "MTC2"
  <2>1. Memory!MTC2(rt, vr[i.vt], i.e) \in Memory!Vector
    BY <1>3, <1>4, MoveTypes DEF Quad
  <2>2. vr' \in [0..7 -> Memory!Vector] /\ data' = data /\ rt' = rt
    BY <1>1, <1>3, <1>4, <1>9, <2>1 DEF Effects
  <2> QED
    BY <1>4, <2>2 DEF Memory!TypeOK, Quad
<1> QED
  BY <1>2, <1>5, <1>6, <1>7, <1>8, <1>9 DEF Memory!Transfers

-----------------------------------------------------------------------------
(* Copying.  A copy is done in parts; each takes the bytes that arrived    *)
(* one further, to the places that the program names.                      *)

(* What the sequences that copy consist of: a load and the store that      *)
(* matches it, at any element they fit at.                                 *)
LEMMA RunShape ==
    ASSUME NEW i \in Memory!Runs
    PROVE  \E l \in {"LBV", "LSV", "LLV", "LDV"}, s \in RunStores, k \in {1, 2, 4, 8} :
               \E e \in 0 .. 16 - k :
                   /\ Memory!Scale(l) = k /\ Memory!Scale(s) = k
                   /\ i = Memory!Copy(<<Memory!From(l, e, 0), Memory!To(s, e, 0)>>, k)
<1>1. PICK p \in {<<"LBV", "SBV">>, <<"LSV", "SSV">>, <<"LLV", "SLV">>, <<"LDV", "SDV">>} :
          i \in { Memory!Copy(<<Memory!From(p[1], e, 0), Memory!To(p[2], e, 0)>>,
                              Memory!Scale(p[1]))
                    : e \in 0 .. 16 - Memory!Scale(p[1]) }
  BY Zenon DEF Memory!Runs
<1>2. PICK e \in 0 .. 16 - Memory!Scale(p[1]) :
          i = Memory!Copy(<<Memory!From(p[1], e, 0), Memory!To(p[2], e, 0)>>,
                          Memory!Scale(p[1]))
  BY <1>1, Zenon
<1>3. /\ p[1] \in {"LBV", "LSV", "LLV", "LDV"} /\ p[2] \in RunStores
      /\ Memory!Scale(p[1]) = Memory!Scale(p[2]) /\ Memory!Scale(p[1]) \in {1, 2, 4, 8}
  BY <1>1 DEF RunStores, Memory!Scale
<1>. QED BY <1>2, <1>3, Zenon

(* A load and a store of packed elements.                                  *)
LEMMA PackedShape ==
    ASSUME NEW i \in Memory!Packed
    PROVE  \/ \E p \in {<<"LPV", "SPV", 0>>, <<"LPV", "SUV", 8>>, <<"LUV", "SUV", 0>>,
                        <<"LUV", "SPV", 8>>} :
                  i = Memory!Copy(<<Memory!From(p[1], 0, 0), Memory!To(p[2], p[3], 0)>>, 8)
           \/ i = Memory!CopyWindowed(<<Memory!From("LHV", 0, 0), Memory!To("SHV", 0, 0)>>, 8, 2)
           \/ \E e \in {0, 8} :
                  i = Memory!CopyWindowed(<<Memory!From("LFV", e, 0), Memory!To("SFV", e, 0)>>, 4, 4)
BY Zenon DEF Memory!Packed

(* A load, two moves and a store.                                          *)
LEMMA MoveShape ==
    ASSUME NEW i \in Memory!Moves
    PROVE  \E e \in 0 .. 14 :
               i = Memory!Copy(<<Memory!From("LSV", e, 0), Memory!From("MFC2", e, 0),
                                 Memory!To("MTC2", 14 - e, 0), Memory!To("SSV", 14 - e, 0)>>, 2)
BY Zenon DEF Memory!Moves

(* A copy has at most sixteen bytes, one after the other or in the steps   *)
(* that fit around a window.                                               *)
LEMMA CopyShape ==
    ASSUME NEW i \in Memory!Copies
    PROVE  /\ i.items \in Nat /\ i.items <= 16 /\ i.goal = "copy"
           /\ \/ i.windowed = FALSE
              \/ i.windowed = TRUE /\ i.items = 8 /\ i.step = 2
              \/ i.windowed = TRUE /\ i.items = 4 /\ i.step = 4
<1>1. CASE i \in Memory!Quad
  BY <1>1 DEF Memory!Quad, Memory!Copy
<1>2. CASE i \in Memory!Runs
  BY <1>2, RunShape DEF Memory!Copy
<1>3. CASE i \in Memory!Moves
  BY <1>3, MoveShape DEF Memory!Copy
<1>4. CASE i \in Memory!Packed
  BY <1>4, PackedShape DEF Memory!Copy, Memory!CopyWindowed
<1>. QED BY <1>1, <1>2, <1>3, <1>4 DEF Memory!Copies

(* The places that a copy names are different bytes.                       *)
LEMMA PlacesApart ==
    ASSUME program \in Memory!Copies, NEW a \in Int,
           NEW i \in 0 .. program.items - 1, NEW j \in 0 .. program.items - 1
    PROVE  /\ Memory!Place(a, i) \in Int
           /\ Memory!At(Memory!Place(a, i)) = Memory!At(Memory!Place(a, j)) => i = j
<1>. DEFINE x == Memory!Place(a, i)
            y == Memory!Place(a, j)
<1>1. i \in Nat /\ j \in Nat /\ i <= 15 /\ j <= 15
  <2>1. program.items \in Nat /\ program.items <= 16
    BY CopyShape, Zenon
  <2>. QED BY <2>1
<1>2. CASE program.windowed = FALSE
  <2>1. x = a + i /\ y = a + j
    BY <1>2 DEF Memory!Place
  <2>2. x \in Int /\ y \in Int /\ x - y <= 15 /\ y - x <= 15
    BY <1>1, <2>1
  <2>3. Memory!At(x) = Memory!At(y) => x = y
    BY <2>2, Apart
  <2>. HIDE DEF x, y
  <2>. QED BY <1>1, <2>1, <2>2, <2>3 DEF x, y
<1>3. CASE program.windowed = TRUE
  <2>1. PICK s \in {2, 4} : program.step = s /\ s * i <= 15 /\ s * j <= 15
    <3>1. CASE program.items = 8 /\ program.step = 2
      BY <3>1
    <3>2. CASE program.items = 4 /\ program.step = 4
      BY <3>2
    <3>. QED BY <1>3, <3>1, <3>2, CopyShape
  <2>. DEFINE u == Memory!inUnit(a)
              w == Memory!Window(a)
  <2>2. /\ x = w + ((u + s * i) % 16) /\ y = w + ((u + s * j) % 16)
        /\ w \in Int /\ u \in Int
    <3>1. x = Memory!inWindow(a, u + s * i) /\ y = Memory!inWindow(a, u + s * j)
      BY <1>3, <2>1 DEF Memory!Place
    <3>2. Memory!Window(a) \in Int /\ Memory!inUnit(a) \in Int
      BY WindowFacts DEF Memory!inUnit
    <3>. QED BY <3>1, <3>2 DEF Memory!inWindow
  <2>. HIDE DEF x, y, u, w
  <2>3. x \in Int /\ y \in Int /\ x - y <= 15 /\ y - x <= 15
    BY <1>1, <2>1, <2>2
  <2>4. Memory!At(x) = Memory!At(y) => x = y
    BY <2>3, Apart
  <2>5. x = y => i = j
    <3>1. CASE s = 2
      BY <1>1, <2>1, <2>2, <3>1
    <3>2. CASE s = 4
      BY <1>1, <2>1, <2>2, <3>2
    <3>. QED BY <2>1, <3>1, <3>2
  <2>. QED BY <2>3, <2>4, <2>5 DEF x, y
<1>. QED BY <1>2, <1>3, CopyShape

(* The first k bytes are copied, and nothing else.                         *)
Arrived(k) ==
    /\ \A j \in 0 .. k - 1 :
           Memory!readByte(data, Memory!Place(base["to"], j))
             = Memory!readByte(InitData, Memory!Place(base["from"], j))
    /\ \A x \in Int :
           (\A j \in 0 .. k - 1 : Memory!At(Memory!Place(base["to"], j)) # Memory!At(x)) =>
               Memory!readByte(data, x) = Memory!readByte(InitData, x)

(* That is what CopiesExactly asks of all of them.                         *)
LEMMA ArrivedExactly ==
    ASSUME program \in Memory!Copies, base["to"] \in Int, Arrived(program.items)
    PROVE  Memory!CopiesExactly
<1>. DEFINE k == program.items
            to(c) == Memory!Place(base["to"], c)
            from(c) == Memory!Place(base["from"], c)
            moved(i) == {c \in 0 .. k - 1 : to(c) % MemorySize = i}
            x(i) == CHOOSE c \in moved(i) : TRUE
<1>1. \A c \in 0 .. k - 1 : to(c) \in Int
  BY PlacesApart
<1>2. ASSUME NEW i \in Memory!Index
      PROVE  Memory!readByte(data, i) = IF moved(i) = {} THEN Memory!readByte(InitData, i)
                                        ELSE Memory!readByte(InitData, from(x(i)))
  <2>1. i \in Int /\ i % MemorySize = i
    BY MemoryAssumption DEF Memory!Index
  <2>2. CASE moved(i) = {}
    <3>1. \A c \in 0 .. k - 1 : Memory!At(to(c)) # Memory!At(i)
      <4>1. \A c \in 0 .. k - 1 : to(c) % MemorySize # i % MemorySize
        BY <2>1, <2>2
      <4>. HIDE DEF to
      <4>. QED BY <1>1, <2>1, <4>1, MirrorFacts
    <3>. QED BY <2>1, <2>2, <3>1 DEF Arrived
  <2>3. CASE moved(i) # {}
    <3>1. x(i) \in moved(i)
      BY <2>3
    <3>2. x(i) \in 0 .. k - 1 /\ to(x(i)) % MemorySize = i
      BY <3>1
    <3>3. Memory!At(to(x(i))) = Memory!At(i)
      BY <2>1, <3>2 DEF Memory!At
    <3>4. Memory!readByte(data, to(x(i))) = Memory!readByte(InitData, from(x(i)))
      <4>. HIDE DEF x
      <4>. QED BY <3>2 DEF Arrived
    <3>. QED BY <2>3, <3>3, <3>4 DEF Memory!readByte
  <2>. QED BY <2>2, <2>3
<1>. QED BY <1>2, Zenon DEF Memory!CopiesExactly

(* A store of the next bytes copies them too.                              *)
LEMMA StoreCopies ==
    ASSUME program \in Memory!Copies, base["to"] \in Int, UNCHANGED <<program, base>>,
           NEW op \in Memory!StoreOps, NEW v, NEW e \in Int, NEW a \in Int,
           data' = Memory!Stored(op, v, e, a),
           NEW k \in Nat, Arrived(k), k + StoredCount(op, a) <= program.items,
           \A j \in 0 .. StoredCount(op, a) - 1 :
               /\ StoredAt(op, e, a, j) = Memory!Place(base["to"], k + j)
               /\ StoredByte(op, v, e, a, j)
                    = Memory!readByte(InitData, Memory!Place(base["from"], k + j)),
           NEW m \in Nat, m = k + StoredCount(op, a)
    PROVE  Arrived(m)'
<1>. DEFINE n == StoredCount(op, a)
            stored == Memory!Stored(op, v, e, a)
            to(c) == Memory!Place(base["to"], c)
            from(c) == Memory!Place(base["from"], c)
<1>1. n \in Nat
  BY StoredCounts
<1>2. Scattered(stored, op, v, e, a)
  BY StoresScatter, Zenon
<1>3. /\ \A c \in 0 .. k + n - 1 : to(c) \in Int
      /\ \A c, d \in 0 .. k + n - 1 : Memory!At(to(c)) = Memory!At(to(d)) => c = d
  <2>1. program.items \in Nat
    BY CopyShape, Zenon
  <2>2. \A c \in 0 .. k + n - 1 : c \in 0 .. program.items - 1
    BY <1>1, <2>1
  <2>. QED BY <2>2, PlacesApart
<1>. HIDE DEF n, stored
<1>4. PICK address, byte :
          /\ stored = Memory!Scatter(data, n, address, byte)
          /\ \A j \in 0 .. n - 1 : /\ address[j] = StoredAt(op, e, a, j)
                                   /\ byte[j] = StoredByte(op, v, e, a, j)
  BY <1>2 DEF Scattered, n
<1>5. \A j \in 0 .. n - 1 : /\ address[j] = to(k + j)
                            /\ byte[j] = Memory!readByte(InitData, from(k + j))
  BY <1>4 DEF n
<1>6. \A c \in 0 .. k - 1 :
          Memory!readByte(data, to(c)) = Memory!readByte(InitData, from(c))
  BY DEF Arrived
<1>7. \A x \in Int : (\A c \in 0 .. k - 1 : Memory!At(to(c)) # Memory!At(x)) =>
          Memory!readByte(data, x) = Memory!readByte(InitData, x)
  BY DEF Arrived
<1>. HIDE DEF to, from
<1>8. ASSUME NEW c \in 0 .. k + n - 1
      PROVE  Memory!readByte(stored, to(c)) = Memory!readByte(InitData, from(c))
  <2>1. CASE c < k
    <3>1. \A j \in 0 .. n - 1 : Memory!At(address[j]) # Memory!At(to(c))
      <4>1. \A j \in 0 .. n - 1 : k + j \in 0 .. k + n - 1 /\ k + j # c
        BY <1>1, <2>1
      <4>. QED BY <1>3, <1>5, <4>1
    <3>2. Memory!readByte(Memory!Scatter(data, n, address, byte), to(c))
            = Memory!readByte(data, to(c))
      BY <1>1, <1>3, <3>1, ScatterLeaves
    <3>. QED BY <1>1, <1>4, <1>6, <2>1, <3>2
  <2>2. CASE c >= k
    <3>. DEFINE j == c - k
    <3>1. j \in 0 .. n - 1 /\ k + j = c
      BY <1>1, <2>2
    <3>. HIDE DEF j
    <3>2. \A d \in 0 .. n - 1 : k + d \in 0 .. k + n - 1
      BY <1>1
    <3>3. \A d \in 0 .. n - 1 : address[d] \in Int
      BY <1>3, <1>5, <3>2
    <3>4. \A d \in 0 .. n - 1 : Memory!At(address[d]) = Memory!At(address[j]) => k + d = k + j
      BY <1>3, <1>5, <3>1, <3>2
    <3>5. \A d \in 0 .. n - 1 : Memory!At(address[d]) = Memory!At(address[j]) => d = j
      BY <1>1, <3>1, <3>4
    <3>6. Memory!readByte(Memory!Scatter(data, n, address, byte), address[j]) = byte[j]
      BY <1>1, <3>1, <3>3, <3>5, ScatterReads
    <3>. QED BY <1>4, <1>5, <3>1, <3>6
  <2>. QED BY <1>1, <2>1, <2>2
<1>9. ASSUME NEW x \in Int, \A c \in 0 .. k + n - 1 : Memory!At(to(c)) # Memory!At(x)
      PROVE  Memory!readByte(stored, x) = Memory!readByte(InitData, x)
  <2>1. \A c \in 0 .. k - 1 : c \in 0 .. k + n - 1
    BY <1>1
  <2>2. \A d \in 0 .. n - 1 : k + d \in 0 .. k + n - 1
    BY <1>1
  <2>3. Memory!readByte(Memory!Scatter(data, n, address, byte), x) = Memory!readByte(data, x)
    <3>1. \A d \in 0 .. n - 1 : Memory!At(address[d]) # Memory!At(x)
      BY <1>5, <1>9, <2>2
    <3>. QED BY <1>1, <3>1, ScatterLeaves
  <2>. QED BY <1>4, <1>7, <1>9, <2>1, <2>3
<1>. DEFINE after(c) == (Memory!readByte(data, Memory!Place(base["to"], c))
                = Memory!readByte(InitData, Memory!Place(base["from"], c)))'
            outside(x, c) == (Memory!At(Memory!Place(base["to"], c)) # Memory!At(x))'
            kept(x) == (Memory!readByte(data, x) = Memory!readByte(InitData, x))'
<1>10. data' = stored /\ program' = program /\ base' = base
  BY DEF stored
<1>11. m = k + n
  BY DEF n
<1>12. \A c : after(c) <=> (Memory!readByte(stored, to(c))
                               = Memory!readByte(InitData, from(c)))
  BY <1>10 DEF Memory!readByte, Memory!Place, to, from
<1>13. \A x, c : outside(x, c) <=> (Memory!At(to(c)) # Memory!At(x))
  BY <1>10 DEF Memory!Place, to
<1>14. \A x : kept(x) <=> (Memory!readByte(stored, x) = Memory!readByte(InitData, x))
  BY <1>10 DEF Memory!readByte
<1>. HIDE DEF after, outside, kept
<1>15. \A c \in 0 .. m - 1 : after(c)
  <2>1. SUFFICES ASSUME NEW c \in 0 .. m - 1
                 PROVE  after(c)
    OBVIOUS
  <2>2. c \in 0 .. k + n - 1
    BY <1>1, <1>11
  <2>3. Memory!readByte(stored, to(c)) = Memory!readByte(InitData, from(c))
    BY <1>8, <2>2, Zenon
  <2>. QED BY <1>12, <2>3, Zenon
<1>16. \A x \in Int : (\A c \in 0 .. m - 1 : outside(x, c)) => kept(x)
  <2>1. SUFFICES ASSUME NEW x \in Int, \A c \in 0 .. m - 1 : outside(x, c)
                 PROVE  kept(x)
    OBVIOUS
  <2>2. ASSUME NEW c \in 0 .. k + n - 1
        PROVE  Memory!At(to(c)) # Memory!At(x)
    <3>1. c \in 0 .. m - 1
      BY <1>1, <1>11
    <3>2. outside(x, c)
      BY <2>1, <3>1, Zenon
    <3>. QED BY <1>13, <3>2, Zenon
  <2>. QED BY <1>9, <1>14, <2>2, Zenon
<1>. QED BY <1>15, <1>16, Zenon DEF Arrived, after, outside, kept

(* A byte that a load shifts up by 7 and splits is whole again when a      *)
(* store shifts its two parts down.                                        *)
LEMMA RoundTrip ==
    ASSUME NEW b \in Memory!Byte
    PROVE  LET hi == b \div 2
               lo == (b % 2) * (Base \div 2)
           IN  /\ ((Base * hi + lo) \div (Base \div 2)) % Base = b
               /\ (2 * hi + lo \div (Base \div 2)) % Base = b
<1>. DEFINE half == Base \div 2
            q == b \div 2
            r == b % 2
            t == Base * q + r * half
<1>1. half \in Nat /\ half >= 1 /\ Base = 2 * half /\ Base \in Nat
  BY BaseFacts
<1>2. b \in Nat /\ b < Base /\ q \in Nat /\ r \in {0, 1} /\ b = 2 * q + r
  BY BaseFacts DEF Memory!Byte
<1>. HIDE DEF half, q, r
<1>3. r * half \in Int /\ t \in Int /\ t = b * half + 0
  <2>1. CASE r = 0
    BY <1>1, <1>2, <2>1
  <2>2. CASE r = 1
    BY <1>1, <1>2, <2>2
  <2>. QED BY <1>2, <2>1, <2>2
<1>. HIDE DEF t
<1>4. t \div half = b
  <2>1. b \in Int /\ 0 \in 0 .. half - 1
    BY <1>1, <1>2
  <2>. QED BY <1>1, <1>3, <2>1, DivModUnique
<1>. DEFINE m == r * half
<1>5. m \div half = r
  <2>1. m \in Int /\ m = r * half + 0 /\ r \in Int /\ 0 \in 0 .. half - 1
    BY <1>1, <1>2, <1>3
  <2>. HIDE DEF m
  <2>. QED BY <1>1, <2>1, DivModUnique
<1>6. b % Base = b
  <2>1. b \in Int /\ b = 0 * Base + b /\ b \in 0 .. Base - 1 /\ Base >= 1 /\ 0 \in Int
    BY <1>1, <1>2
  <2>. QED BY <1>1, <2>1, DivModUnique
<1>7. 2 * q + r = b
  BY <1>2
<1>. QED BY <1>4, <1>5, <1>6, <1>7 DEF t, half, q, r

(* What each load puts where its store finds it.                           *)
LEMMA RunCarries ==
    ASSUME NEW d, NEW v, NEW e, NEW a, NEW k, NEW i \in Memory!Bytes, i \in e .. e + k - 1
    PROVE  Memory!LoadRun(d, v, e, a, k)[i] = Memory!readByte(d, a + i - e)
BY DEF Memory!LoadRun

(* LRV fills the end of the register, from the line below its address.     *)
LEMMA RightCarries ==
    ASSUME NEW d \in Memory!Data, NEW v, NEW a \in Int, NEW i \in 0 .. 15
    PROVE  Memory!LRV(d, v, 0, a)[i]
             = IF i >= 16 - Memory!inLine(a) THEN Memory!readByte(d, (a - 16) + i) ELSE v[i]
<1>. DEFINE line == Memory!inLine(a)
<1>1. line \in Int /\ line >= 0
  BY WindowFacts DEF Memory!inLine
<1>2. Memory!LRV(d, v, 0, a)[i]
        = IF 0 <= line /\ i >= 16 - (line - 0)
          THEN Memory!readByte(d, a - line + i - (16 - (line - 0))) ELSE v[i]
  BY DEF Memory!LRV, Memory!Bytes
<1>. HIDE DEF line
<1>3. a - line + i - (16 - (line - 0)) = (a - 16) + i /\ 16 - (line - 0) = 16 - line
  BY <1>1
<1>. QED BY <1>1, <1>2, <1>3 DEF line

(* The elements that LPV, LUV and LHV make hold the byte where SPV, SUV    *)
(* and SHV take theirs from.                                               *)
LEMMA PackedCarries ==
    ASSUME NEW d \in Memory!Data, NEW a \in Int, NEW j \in 0 .. 7
    PROVE  /\ Memory!Top(Memory!LoadPacked(d, 0, a, 1, 8), j) = Memory!readByte(d, a + j)
           /\ Memory!Rounded(Memory!LoadPacked(d, 0, a, 1, 7), j) = Memory!readByte(d, a + j)
           /\ LET w == Memory!LoadPacked(d, 0, a, 2, 7)
              IN  (2 * w[(2 * j) % 16] + w[(2 * j + 1) % 16] \div (Base \div 2)) % Base
                    = Memory!readByte(d, Memory!inWindow(a, Memory!inUnit(a) + 2 * j))
<1>. DEFINE half == Base \div 2
<1>1. ASSUME NEW step \in {1, 2}, NEW shift
      PROVE  LET w == Memory!LoadPacked(d, 0, a, step, shift)
                 x == Memory!inWindow(a, Memory!inUnit(a) + step * j)
                 b == Memory!readByte(d, x)
             IN  /\ b \in Memory!Byte
                 /\ shift = 8 => w[2 * j] = b
                 /\ shift # 8 => w[2 * j] = b \div 2 /\ w[2 * j + 1] = (b % 2) * half
  <2>. DEFINE w == Memory!LoadPacked(d, 0, a, step, shift)
              x == Memory!inWindow(a, Memory!inUnit(a) + step * j)
              b == Memory!readByte(d, x)
  <2>1. x \in Int
    <3>1. Memory!inUnit(a) + step * j \in Int
      BY DEF Memory!inUnit
    <3>. QED BY <3>1, WindowFacts
  <2>2. b \in Memory!Byte
    <3>. HIDE DEF x
    <3>. QED BY <2>1, ReadByte
  <2>. DEFINE byte(k) == Memory!readByte(d, Memory!inWindow(a, Memory!inUnit(a) - 0 + k * step))
              value(k) == IF shift = 8 THEN byte(k) * Base ELSE byte(k) * half
  <2>3. w = [i \in Memory!Bytes |-> IF i % 2 = 0 THEN value(i \div 2) \div Base
                                                 ELSE value(i \div 2) % Base]
    BY Zenon DEF Memory!LoadPacked
  <2>4. byte(j) = b
    <3>1. Memory!inUnit(a) - 0 + j * step = Memory!inUnit(a) + step * j
      BY DEF Memory!inUnit
    <3>. QED BY <3>1, Zenon
  <2>5. value(j) = IF shift = 8 THEN b * Base ELSE b * half
    BY <2>4, Zenon
  <2>6. /\ 2 * j \in Memory!Bytes /\ (2 * j) % 2 = 0 /\ (2 * j) \div 2 = j
        /\ 2 * j + 1 \in Memory!Bytes /\ (2 * j + 1) % 2 # 0 /\ (2 * j + 1) \div 2 = j
    BY DEF Memory!Bytes
  <2>. HIDE DEF w, b, value
  <2>7. w[2 * j] = value(j) \div Base /\ w[2 * j + 1] = value(j) % Base
    BY <2>3, <2>6
  <2>8. /\ (b * Base) \div Base = b
        /\ (b * half) \div Base = b \div 2 /\ (b * half) % Base = (b % 2) * half
    BY <2>2, PackedBytes
  <2>. HIDE DEF half
  <2>. QED BY <2>2, <2>5, <2>7, <2>8 DEF w, b
<1>2. Memory!inWindow(a, Memory!inUnit(a) + 1 * j) = a + j
  BY DEF Memory!inWindow, Memory!Window, Memory!inUnit
<1>3. Memory!Top(Memory!LoadPacked(d, 0, a, 1, 8), j) = Memory!readByte(d, a + j)
  BY <1>1, <1>2 DEF Memory!Top
<1>4. Memory!Rounded(Memory!LoadPacked(d, 0, a, 1, 7), j) = Memory!readByte(d, a + j)
  <2>. DEFINE w == Memory!LoadPacked(d, 0, a, 1, 7)
              b == Memory!readByte(d, a + j)
  <2>1. b \in Memory!Byte /\ w[2 * j] = b \div 2 /\ w[2 * j + 1] = (b % 2) * half
    BY <1>1, <1>2
  <2>. HIDE DEF w, b
  <2>2. ((Base * (b \div 2) + (b % 2) * half) \div half) % Base = b
    BY <2>1, RoundTrip
  <2>3. Memory!Rounded(w, j) = b
    BY <2>1, <2>2 DEF Memory!Rounded, Memory!element
  <2>. QED BY <2>3 DEF w, b
<1>5. LET w == Memory!LoadPacked(d, 0, a, 2, 7)
      IN  (2 * w[(2 * j) % 16] + w[(2 * j + 1) % 16] \div (Base \div 2)) % Base
            = Memory!readByte(d, Memory!inWindow(a, Memory!inUnit(a) + 2 * j))
  <2>. DEFINE w == Memory!LoadPacked(d, 0, a, 2, 7)
              b == Memory!readByte(d, Memory!inWindow(a, Memory!inUnit(a) + 2 * j))
  <2>1. b \in Memory!Byte /\ w[2 * j] = b \div 2 /\ w[2 * j + 1] = (b % 2) * half
    BY <1>1
  <2>2. (2 * j) % 16 = 2 * j /\ (2 * j + 1) % 16 = 2 * j + 1
    OBVIOUS
  <2>. HIDE DEF w, b
  <2>3. (2 * (b \div 2) + ((b % 2) * half) \div half) % Base = b
    BY <2>1, RoundTrip
  <2>4. (2 * w[(2 * j) % 16] + w[(2 * j + 1) % 16] \div half) % Base = b
    BY <2>1, <2>2, <2>3
  <2>. QED BY <2>4 DEF w, b
<1>. QED BY <1>3, <1>4, <1>5

(* So do those of LFV, for the two elements that SFV stores in order.      *)
LEMMA FourthCarries ==
    ASSUME NEW d \in Memory!Data, NEW v, NEW e \in {0, 8}, NEW a \in Int, NEW j \in 0 .. 3
    PROVE  /\ e \in DOMAIN Memory!FourthElements
           /\ Memory!Rounded(Memory!LFV(d, v, e, a), Memory!FourthElements[e][j + 1])
                = Memory!readByte(d, Memory!inWindow(a, Memory!inUnit(a) + 4 * j))
<1>. DEFINE half == Base \div 2
            x == Memory!inWindow(a, Memory!inUnit(a) + 4 * j)
            b == Memory!readByte(d, x)
            k == e \div 2 + j
            w == Memory!LFV(d, v, e, a)
            position(i) == IF i < 4 THEN 4 * i ELSE 4 * (i - 4) + 8
            byte(i) == Memory!readByte(d, Memory!inWindow(a, Memory!inUnit(a) - e + position(i)))
            value(i) == byte(i) * half
<1>1. b \in Memory!Byte
  <2>1. Memory!inUnit(a) + 4 * j \in Int
    BY DEF Memory!inUnit
  <2>2. x \in Int
    BY <2>1, WindowFacts
  <2>. HIDE DEF x
  <2>. QED BY <2>2, ReadByte
<1>2. e \in DOMAIN Memory!FourthElements /\ Memory!FourthElements[e][j + 1] = k
  <2>1. /\ DOMAIN Memory!FourthElements = {0, 1, 4, 5, 8, 11, 12, 15}
        /\ Memory!FourthElements[0] = <<0, 1, 2, 3>> /\ Memory!FourthElements[8] = <<4, 5, 6, 7>>
    BY DEF Memory!FourthElements
  <2>. QED BY <2>1
<1>3. w = [i \in Memory!Bytes |->
              IF i \notin e .. e + 7 THEN v[i]
              ELSE IF i % 2 = 0 THEN value(i \div 2) \div Base ELSE value(i \div 2) % Base]
  BY Zenon DEF Memory!LFV
<1>4. byte(k) = b
  <2>1. Memory!inUnit(a) - e + position(k) = Memory!inUnit(a) + 4 * j
    BY DEF Memory!inUnit
  <2>. QED BY <2>1, Zenon
<1>5. value(k) = b * half
  BY <1>4, Zenon
<1>6. /\ 2 * k \in Memory!Bytes /\ 2 * k \in e .. e + 7
      /\ 2 * k + 1 \in Memory!Bytes /\ 2 * k + 1 \in e .. e + 7
      /\ (2 * k) % 2 = 0 /\ (2 * k) \div 2 = k
      /\ (2 * k + 1) % 2 # 0 /\ (2 * k + 1) \div 2 = k
  BY DEF Memory!Bytes
<1>. HIDE DEF w, b, k, value
<1>7. w[2 * k] = value(k) \div Base /\ w[2 * k + 1] = value(k) % Base
  BY <1>3, <1>6
<1>8. w[2 * k] = b \div 2 /\ w[2 * k + 1] = (b % 2) * half
  BY <1>1, <1>5, <1>7, PackedBytes
<1>9. ((Base * (b \div 2) + (b % 2) * half) \div half) % Base = b
  BY <1>1, RoundTrip
<1>10. Memory!Rounded(w, k) = b
  BY <1>8, <1>9 DEF Memory!Rounded, Memory!element
<1>. QED BY <1>2, <1>10 DEF w, b

(* A load and a store fit when the store writes, at the places of the      *)
(* program, the bytes that the load read.                                  *)
Fits(l, e, s, f) ==
    /\ l \in Memory!LoadOps /\ s \in Memory!StoreOps /\ e \in 0 .. 15 /\ f \in 0 .. 15
    /\ StoredCount(s, base["to"]) = program.items
    /\ \A j \in 0 .. program.items - 1 :
           /\ StoredAt(s, f, base["to"], j) = Memory!Place(base["to"], j)
           /\ \A v : StoredByte(s, Memory!Loaded(l, v, e, base["from"]), f, base["to"], j)
                       = Memory!readByte(data, Memory!Place(base["from"], j))

(* A run of bytes is stored from the element it was loaded to.             *)
LEMMA RunFits ==
    ASSUME program \in Memory!Runs, data \in Memory!Data, base["from"] \in Int, base["to"] \in Int
    PROVE  \E l, s, e, f : /\ program.code = <<Memory!From(l, e, 0), Memory!To(s, f, 0)>>
                           /\ Fits(l, e, s, f)
<1>1. PICK l \in {"LBV", "LSV", "LLV", "LDV"}, s \in RunStores, k \in {1, 2, 4, 8} :
          \E e \in 0 .. 16 - k :
              /\ Memory!Scale(l) = k /\ Memory!Scale(s) = k
              /\ program = Memory!Copy(<<Memory!From(l, e, 0), Memory!To(s, e, 0)>>, k)
  BY RunShape, Zenon
<1>2. PICK e \in 0 .. 16 - k :
          /\ Memory!Scale(l) = k /\ Memory!Scale(s) = k
          /\ program = Memory!Copy(<<Memory!From(l, e, 0), Memory!To(s, e, 0)>>, k)
  BY <1>1, Zenon
<1>3. /\ program.code = <<Memory!From(l, e, 0), Memory!To(s, e, 0)>>
      /\ program.items = k /\ program.windowed = FALSE
  BY <1>2 DEF Memory!Copy
<1>4. /\ l \in Memory!LoadOps /\ s \in Memory!StoreOps /\ e \in 0 .. 15
      /\ k \in Nat /\ e \in Nat /\ e + k <= 16
  BY <1>1, <1>2 DEF RunStores, Memory!LoadOps, Memory!StoreOps
<1>5. s \in RunStores /\ Memory!Scale(s) = k
  BY <1>1, <1>2, Zenon
<1>6. StoredCount(s, base["to"]) = k
  BY <1>5 DEF StoredCount, RunStores
<1>7. ASSUME NEW j \in 0 .. k - 1
      PROVE  /\ StoredAt(s, e, base["to"], j) = Memory!Place(base["to"], j)
             /\ \A v : StoredByte(s, Memory!Loaded(l, v, e, base["from"]), e, base["to"], j)
                         = Memory!readByte(data, Memory!Place(base["from"], j))
  <2>1. StoredAt(s, e, base["to"], j) = base["to"] + j
    BY <1>5 DEF StoredAt, RunStores
  <2>2. \A a : Memory!Place(a, j) = a + j
    BY <1>3 DEF Memory!Place
  <2>3. ASSUME NEW v
        PROVE  StoredByte(s, Memory!Loaded(l, v, e, base["from"]), e, base["to"], j)
                 = Memory!readByte(data, base["from"] + j)
    <3>1. Memory!Loaded(l, v, e, base["from"]) = Memory!LoadRun(data, v, e, base["from"], k)
      BY <1>1, <1>2 DEF Memory!Loaded
    <3>2. Memory!LoadRun(data, v, e, base["from"], k)[(e + j) % 16]
            = Memory!readByte(data, base["from"] + j)
      <4>. DEFINE a == base["from"]
      <4>1. a \in Int
        OBVIOUS
      <4>. HIDE DEF a
      <4>2. Memory!LoadRun(data, v, e, a, k)[(e + j) % 16] = Memory!readByte(data, a + j)
        <5>. DEFINE i == e + j
        <5>1. /\ i \in Memory!Bytes /\ i \in e .. e + k - 1 /\ i % 16 = i
              /\ a + i - e = a + j
          BY <1>4, <4>1 DEF Memory!Bytes
        <5>2. Memory!LoadRun(data, v, e, a, k)[i] = Memory!readByte(data, a + i - e)
          <6>. HIDE DEF i
          <6>1. i \in Memory!Bytes
            BY <5>1, Zenon
          <6>2. i \in e .. e + k - 1
            BY <5>1, Zenon
          <6>. QED BY <6>1, <6>2, RunCarries
        <5>. QED BY <5>1, <5>2, Zenon
      <4>. QED BY <4>2 DEF a
    <3>3. \A w : StoredByte(s, w, e, base["to"], j) = w[(e + j) % 16]
      BY <1>5 DEF StoredByte, RunStores
    <3>. QED BY <3>1, <3>2, <3>3, Zenon
  <2>. QED BY <2>1, <2>2, <2>3, Zenon
<1>8. Fits(l, e, s, e)
  BY <1>3, <1>4, <1>6, <1>7, Zenon DEF Fits
<1>. QED BY <1>3, <1>8, Zenon

(* Packed elements are stored by the instruction that shifts them back.    *)
LEMMA HalfFits ==
    ASSUME NEW p \in {<<"LPV", "SPV", 0>>, <<"LPV", "SUV", 8>>, <<"LUV", "SUV", 0>>,
                      <<"LUV", "SPV", 8>>},
           program = Memory!Copy(<<Memory!From(p[1], 0, 0), Memory!To(p[2], p[3], 0)>>, 8),
           data \in Memory!Data, base["from"] \in Int, base["to"] \in Int
    PROVE  Fits(p[1], 0, p[2], p[3])
<1>. DEFINE l == p[1]
            s == p[2]
            f == p[3]
<1>1. program.items = 8 /\ program.windowed = FALSE
  BY DEF Memory!Copy
<1>2. /\ l \in {"LPV", "LUV"} /\ s \in {"SPV", "SUV"} /\ f \in {0, 8}
      /\ l = "LPV" => (s = "SPV" /\ f = 0) \/ (s = "SUV" /\ f = 8)
      /\ l = "LUV" => (s = "SUV" /\ f = 0) \/ (s = "SPV" /\ f = 8)
  OBVIOUS
<1>. HIDE DEF l, s, f
<1>3. StoredCount(s, base["to"]) = 8
  BY <1>2 DEF StoredCount, RunStores
<1>4. ASSUME NEW j \in 0 .. 7
      PROVE  /\ StoredAt(s, f, base["to"], j) = Memory!Place(base["to"], j)
             /\ \A v : StoredByte(s, Memory!Loaded(l, v, 0, base["from"]), f, base["to"], j)
                         = Memory!readByte(data, Memory!Place(base["from"], j))
  <2>1. StoredAt(s, f, base["to"], j) = base["to"] + j
    BY <1>2 DEF StoredAt, RunStores
  <2>2. \A a : Memory!Place(a, j) = a + j
    BY <1>1 DEF Memory!Place
  <2>3. (0 + j) % 16 < 8 /\ ~((8 + j) % 16 < 8) /\ (0 + j) % 8 = j /\ (8 + j) % 8 = j
    OBVIOUS
  <2>4. \A w : StoredByte(s, w, f, base["to"], j)
                 = IF l = "LPV" THEN Memory!Top(w, j) ELSE Memory!Rounded(w, j)
    BY <1>2, <2>3 DEF StoredByte, RunStores
  <2>5. \A v : Memory!Loaded(l, v, 0, base["from"])
                 = Memory!LoadPacked(data, 0, base["from"], 1, IF l = "LPV" THEN 8 ELSE 7)
    BY <1>2 DEF Memory!Loaded
  <2>6. \A v : StoredByte(s, Memory!Loaded(l, v, 0, base["from"]), f, base["to"], j)
                 = Memory!readByte(data, base["from"] + j)
    BY SMTT(60), <1>2, <2>4, <2>5, PackedCarries
  <2>. QED BY <2>1, <2>2, <2>6, Zenon
<1>5. l \in Memory!LoadOps /\ s \in Memory!StoreOps /\ 0 \in 0 .. 15 /\ f \in 0 .. 15
  BY <1>2 DEF Memory!LoadOps, Memory!StoreOps
<1>6. \A j \in 0 .. program.items - 1 : j \in 0 .. 7
  BY <1>1
<1>7. Fits(l, 0, s, f)
  BY <1>1, <1>3, <1>4, <1>5, <1>6, Zenon DEF Fits
<1>. QED BY <1>7 DEF l, s, f

(* And the windowed ones around the same window.                           *)
LEMMA WindowFits ==
    ASSUME data \in Memory!Data, base["from"] \in Int, base["to"] \in Int
    PROVE  /\ program = Memory!CopyWindowed(<<Memory!From("LHV", 0, 0), Memory!To("SHV", 0, 0)>>,
                                            8, 2)
                => Fits("LHV", 0, "SHV", 0)
           /\ \A e \in {0, 8} :
                  program = Memory!CopyWindowed(<<Memory!From("LFV", e, 0),
                                                  Memory!To("SFV", e, 0)>>, 4, 4)
                      => Fits("LFV", e, "SFV", e)
<1>1. ASSUME program = Memory!CopyWindowed(<<Memory!From("LHV", 0, 0), Memory!To("SHV", 0, 0)>>,
                                           8, 2)
      PROVE  Fits("LHV", 0, "SHV", 0)
  <2>1. program.items = 8 /\ program.windowed = TRUE /\ program.step = 2
    BY <1>1 DEF Memory!CopyWindowed
  <2>2. StoredCount("SHV", base["to"]) = 8
    BY DEF StoredCount, RunStores
  <2>3. ASSUME NEW j \in 0 .. 7
        PROVE  /\ StoredAt("SHV", 0, base["to"], j) = Memory!Place(base["to"], j)
               /\ \A v : StoredByte("SHV", Memory!Loaded("LHV", v, 0, base["from"]), 0, base["to"], j)
                           = Memory!readByte(data, Memory!Place(base["from"], j))
    <3>1. StoredAt("SHV", 0, base["to"], j)
            = Memory!inWindow(base["to"], Memory!inUnit(base["to"]) + 2 * j)
      BY DEF StoredAt, RunStores
    <3>2. \A a : Memory!Place(a, j) = Memory!inWindow(a, Memory!inUnit(a) + 2 * j)
      BY <2>1 DEF Memory!Place
    <3>3. 0 + 2 * j = 2 * j /\ 0 + 2 * j + 1 = 2 * j + 1
      OBVIOUS
    <3>4. \A w : StoredByte("SHV", w, 0, base["to"], j)
                   = (2 * w[(2 * j) % 16] + w[(2 * j + 1) % 16] \div (Base \div 2)) % Base
      BY <3>3 DEF StoredByte, RunStores
    <3>5. \A v : Memory!Loaded("LHV", v, 0, base["from"])
                   = Memory!LoadPacked(data, 0, base["from"], 2, 7)
      BY DEF Memory!Loaded
    <3>6. \A v : StoredByte("SHV", Memory!Loaded("LHV", v, 0, base["from"]), 0, base["to"], j)
                   = Memory!readByte(data, Memory!inWindow(base["from"],
                                                           Memory!inUnit(base["from"]) + 2 * j))
      <4>. DEFINE a == base["from"]
                  w == Memory!LoadPacked(data, 0, a, 2, 7)
      <4>1. (2 * w[(2 * j) % 16] + w[(2 * j + 1) % 16] \div (Base \div 2)) % Base
              = Memory!readByte(data, Memory!inWindow(a, Memory!inUnit(a) + 2 * j))
        <5>1. a \in Int
          OBVIOUS
        <5>. HIDE DEF a
        <5>. QED BY <5>1, PackedCarries
      <4>. HIDE DEF w
      <4>2. \A v : Memory!Loaded("LHV", v, 0, a) = w
        BY <3>5 DEF w
      <4>. QED BY <3>4, <4>1, <4>2, Zenon
    <3>. QED BY <3>1, <3>2, <3>6, Zenon
  <2>4. "LHV" \in Memory!LoadOps /\ "SHV" \in Memory!StoreOps /\ 0 \in 0 .. 15
    BY DEF Memory!LoadOps, Memory!StoreOps
  <2>5. \A j \in 0 .. program.items - 1 : j \in 0 .. 7
    BY <2>1
  <2>. QED BY <2>1, <2>2, <2>3, <2>4, <2>5, Zenon DEF Fits
<1>2. ASSUME NEW e \in {0, 8},
             program = Memory!CopyWindowed(<<Memory!From("LFV", e, 0), Memory!To("SFV", e, 0)>>,
                                           4, 4)
      PROVE  Fits("LFV", e, "SFV", e)
  <2>1. program.items = 4 /\ program.windowed = TRUE /\ program.step = 4
    BY <1>2 DEF Memory!CopyWindowed
  <2>2. StoredCount("SFV", base["to"]) = 4
    BY DEF StoredCount, RunStores
  <2>3. ASSUME NEW j \in 0 .. 3
        PROVE  /\ StoredAt("SFV", e, base["to"], j) = Memory!Place(base["to"], j)
               /\ \A v : StoredByte("SFV", Memory!Loaded("LFV", v, e, base["from"]), e, base["to"], j)
                           = Memory!readByte(data, Memory!Place(base["from"], j))
    <3>1. StoredAt("SFV", e, base["to"], j)
            = Memory!inWindow(base["to"], Memory!inUnit(base["to"]) + 4 * j)
      BY DEF StoredAt, RunStores
    <3>2. \A a : Memory!Place(a, j) = Memory!inWindow(a, Memory!inUnit(a) + 4 * j)
      BY <2>1 DEF Memory!Place
    <3>3. \A w : StoredByte("SFV", w, e, base["to"], j)
                   = IF e \in DOMAIN Memory!FourthElements
                     THEN Memory!Rounded(w, Memory!FourthElements[e][j + 1]) ELSE 0
      BY DEF StoredByte, RunStores
    <3>4. \A v : Memory!Loaded("LFV", v, e, base["from"])
                   = Memory!LFV(data, v, e, base["from"])
      BY DEF Memory!Loaded
    <3>5. \A v : StoredByte("SFV", Memory!Loaded("LFV", v, e, base["from"]), e, base["to"], j)
                   = Memory!readByte(data, Memory!inWindow(base["from"],
                                                           Memory!inUnit(base["from"]) + 4 * j))
      BY <3>3, <3>4, FourthCarries
    <3>. QED BY <3>1, <3>2, <3>5, Zenon
  <2>4. "LFV" \in Memory!LoadOps /\ "SFV" \in Memory!StoreOps /\ e \in 0 .. 15
    BY DEF Memory!LoadOps, Memory!StoreOps
  <2>5. \A j \in 0 .. program.items - 1 : j \in 0 .. 3
    BY <2>1
  <2>. QED BY <2>1, <2>2, <2>3, <2>4, <2>5, Zenon DEF Fits
<1>. QED BY <1>1, <1>2

(* Every pair of the programs fits.                                        *)
LEMMA PairFits ==
    ASSUME program \in Memory!Runs \cup Memory!Packed, data \in Memory!Data,
           base["from"] \in Int, base["to"] \in Int
    PROVE  \E l, s, e, f : /\ program.code = <<Memory!From(l, e, 0), Memory!To(s, f, 0)>>
                           /\ Fits(l, e, s, f)
<1>1. CASE program \in Memory!Runs
  BY <1>1, RunFits, Zenon
<1>2. ASSUME NEW p \in {<<"LPV", "SPV", 0>>, <<"LPV", "SUV", 8>>, <<"LUV", "SUV", 0>>,
                        <<"LUV", "SPV", 8>>},
             program = Memory!Copy(<<Memory!From(p[1], 0, 0), Memory!To(p[2], p[3], 0)>>, 8)
      PROVE  \E l, s, e, f : /\ program.code = <<Memory!From(l, e, 0), Memory!To(s, f, 0)>>
                             /\ Fits(l, e, s, f)
  <2>1. Fits(p[1], 0, p[2], p[3])
    BY <1>2, HalfFits
  <2>2. program.code = <<Memory!From(p[1], 0, 0), Memory!To(p[2], p[3], 0)>>
    BY <1>2 DEF Memory!Copy
  <2>. QED BY <2>1, <2>2, Zenon
<1>3. ASSUME program = Memory!CopyWindowed(<<Memory!From("LHV", 0, 0), Memory!To("SHV", 0, 0)>>,
                                           8, 2)
      PROVE  \E l, s, e, f : /\ program.code = <<Memory!From(l, e, 0), Memory!To(s, f, 0)>>
                             /\ Fits(l, e, s, f)
  <2>1. Fits("LHV", 0, "SHV", 0)
    BY <1>3, WindowFits, Zenon
  <2>2. program.code = <<Memory!From("LHV", 0, 0), Memory!To("SHV", 0, 0)>>
    BY <1>3 DEF Memory!CopyWindowed
  <2>. QED BY <2>1, <2>2, Zenon
<1>4. ASSUME NEW c \in {0, 8},
             program = Memory!CopyWindowed(<<Memory!From("LFV", c, 0), Memory!To("SFV", c, 0)>>,
                                           4, 4)
      PROVE  \E l, s, e, f : /\ program.code = <<Memory!From(l, e, 0), Memory!To(s, f, 0)>>
                             /\ Fits(l, e, s, f)
  <2>1. Fits("LFV", c, "SFV", c)
    BY <1>4, WindowFits, Zenon
  <2>2. program.code = <<Memory!From("LFV", c, 0), Memory!To("SFV", c, 0)>>
    BY <1>4 DEF Memory!CopyWindowed
  <2>. QED BY <2>1, <2>2, Zenon
<1>5. CASE program \in Memory!Packed
  BY <1>2, <1>3, <1>4, <1>5, PackedShape, Zenon
<1>. QED BY <1>1, <1>5

(* The instructions of a copy, and where they access memory.               *)
LEMMA CodeFacts ==
    ASSUME NEW op, NEW e, NEW imm
    PROVE  LET l == Memory!From(op, e, imm)
               s == Memory!To(op, e, imm)
           IN  /\ l.op = op /\ l.vt = 0 /\ l.e = e
               /\ s.op = op /\ s.vt = 0 /\ s.e = e
               /\ Memory!Address(l) = base["from"] + imm * Memory!Scale(op)
               /\ Memory!Address(s) = base["to"] + imm * Memory!Scale(op)
<1>1. /\ Memory!From(op, e, imm).op = op /\ Memory!From(op, e, imm).vt = 0
      /\ Memory!From(op, e, imm).e = e /\ Memory!From(op, e, imm).imm = imm
      /\ Memory!From(op, e, imm).register = "from"
      /\ Memory!To(op, e, imm).op = op /\ Memory!To(op, e, imm).vt = 0
      /\ Memory!To(op, e, imm).e = e /\ Memory!To(op, e, imm).imm = imm
      /\ Memory!To(op, e, imm).register = "to"
  BY DEF Memory!From, Memory!To, Memory!Instruction
<1>. HIDE DEF Memory!From, Memory!To
<1>2. /\ Memory!Address(Memory!From(op, e, imm)) = base["from"] + imm * Memory!Scale(op)
      /\ Memory!Address(Memory!To(op, e, imm)) = base["to"] + imm * Memory!Scale(op)
  BY <1>1, Zenon DEF Memory!Address
<1>. QED BY <1>1, <1>2, Zenon

(* Those without an offset access memory at the address itself.            *)
LEMMA FirstFacts ==
    ASSUME NEW op, NEW e, base["from"] \in Int, base["to"] \in Int
    PROVE  LET l == Memory!From(op, e, 0)
               s == Memory!To(op, e, 0)
           IN  /\ l.op = op /\ l.vt = 0 /\ l.e = e
               /\ s.op = op /\ s.vt = 0 /\ s.e = e
               /\ Memory!Address(l) = base["from"]
               /\ Memory!Address(s) = base["to"]
<1>1. Memory!Scale(op) \in Int
  BY DEF Memory!Scale
<1>2. 0 * Memory!Scale(op) = 0
  BY <1>1
<1>. QED BY <1>2, CodeFacts
(* What arrived stays while only registers change.                         *)
LEMMA ArrivedStays ==
    ASSUME NEW k, Arrived(k), data' = data, program' = program, base' = base
    PROVE  Arrived(k)'
BY DEF Arrived, Memory!Place

(* The address registers hold numbers.                                     *)
LEMMA CopyBases ==
    ASSUME MemoryInv
    PROVE  base["from"] \in Int /\ base["to"] \in Int
BY BasesAssumption DEF MemoryInv

(* The two instructions of a pair: the register holds what was loaded, and *)
(* then the bytes are in their places.                                     *)
PairInv ==
    program \in Memory!Runs \cup Memory!Packed =>
        /\ pc <= 2 => Arrived(0)
        /\ pc = 2 => \E v : vr[0] = Memory!Loaded(program.code[1].op, v, program.code[1].e,
                                                  base["from"])
        /\ pc > 2 => Arrived(program.items)

(* The load fills the register, and the store copies all of it.            *)
LEMMA PairStep ==
    ASSUME MemoryInv, Memory!TypeOK, PairInv, Memory!Next
    PROVE  PairInv'
<1>1. pc' = pc + 1 /\ program' = program /\ base' = base
  BY MemoryAdvances, Zenon
<1>. SUFFICES ASSUME program \in Memory!Runs \cup Memory!Packed
              PROVE  PairInv'
  BY <1>1 DEF PairInv
<1>2. PICK l, s, e, f : /\ program.code = <<Memory!From(l, e, 0), Memory!To(s, f, 0)>>
                        /\ Fits(l, e, s, f)
  <2>1. data \in Memory!Data
    BY DEF Memory!TypeOK
  <2>. QED BY <2>1, CopyBases, PairFits, Zenon
<1>3. /\ program \in Memory!Copies
      /\ Len(program.code) = 2
      /\ program.code[1] = Memory!From(l, e, 0) /\ program.code[2] = Memory!To(s, f, 0)
  BY <1>2 DEF Memory!Copies
<1>4. /\ ~Memory!Done
      /\ Effects(Memory!Current, Memory!Address(Memory!Current))
  BY StepEffects, Zenon
<1>5. pc \in Nat /\ (pc = 1 \/ pc = 2)
  BY <1>3, <1>4 DEF MemoryInv, Memory!Done
<1>6. /\ Memory!From(l, e, 0).op = l /\ Memory!From(l, e, 0).vt = 0 /\ Memory!From(l, e, 0).e = e
      /\ Memory!To(s, f, 0).op = s /\ Memory!To(s, f, 0).vt = 0 /\ Memory!To(s, f, 0).e = f
      /\ Memory!Address(Memory!From(l, e, 0)) = base["from"]
      /\ Memory!Address(Memory!To(s, f, 0)) = base["to"]
  BY FirstFacts, CopyBases
<1>7. CASE pc = 1
  <2>1. Memory!Current = Memory!From(l, e, 0)
    BY <1>3, <1>7 DEF Memory!Current
  <2>2. Effects(Memory!From(l, e, 0), base["from"])
    BY <1>4, <1>6, <2>1, Zenon
  <2>3. l \in Memory!LoadOps
    BY <1>2, Zenon DEF Fits
  <2>4. /\ vr' = [vr EXCEPT ![0] = Memory!Loaded(l, vr[0], e, base["from"])]
        /\ data' = data
    BY <1>6, <2>2, <2>3, Zenon DEF Effects
  <2>5. vr'[0] = Memory!Loaded(l, vr[0], e, base["from"])
    BY <2>4 DEF Memory!TypeOK
  <2>6. Memory!Loaded(program.code[1].op, vr[0], program.code[1].e, base["from"])
        = Memory!Loaded(l, vr[0], e, base["from"])
    BY <1>3, <1>6, Zenon
  <2>7. \E v : vr'[0] = Memory!Loaded(program.code[1].op, v, program.code[1].e, base["from"])
    BY <2>5, <2>6, Zenon
  <2>8. (\E v : vr[0] = Memory!Loaded(program.code[1].op, v, program.code[1].e, base["from"]))'
    <3>1. PICK v : vr'[0] = Memory!Loaded(program.code[1].op, v, program.code[1].e, base["from"])
      BY <2>7, Zenon
    <3>2. Memory!Loaded(program.code[1].op, v, program.code[1].e, base["from"])'
          = Memory!Loaded(program.code[1].op, v, program.code[1].e, base["from"])
      BY <1>1, <2>4, Zenon DEF Memory!Loaded
    <3>. QED BY <3>1, <3>2, Zenon
  <2>9. Arrived(0)'
    <3>1. Arrived(0)
      BY <1>7 DEF PairInv
    <3>. QED BY <1>1, <2>4, <3>1, ArrivedStays, Zenon
  <2>10. pc' = 2
    BY <1>1, <1>7
  <2>. QED BY <2>8, <2>9, <2>10 DEF PairInv
<1>8. CASE pc = 2
  <2>1. Memory!Current = Memory!To(s, f, 0)
    BY <1>3, <1>8 DEF Memory!Current
  <2>2. Effects(Memory!To(s, f, 0), base["to"])
    BY <1>4, <1>6, <2>1, Zenon
  <2>3. s \in Memory!StoreOps
    BY <1>2, Zenon DEF Fits
  <2>4. data' = Memory!Stored(s, vr[0], f, base["to"])
    BY <1>6, <2>2, <2>3, Zenon DEF Effects
  <2>5. Arrived(0) /\ \E v : vr[0] = Memory!Loaded(l, v, e, base["from"])
    <3>1. program.code[1].op = l /\ program.code[1].e = e
      BY <1>3, <1>6, Zenon
    <3>2. Arrived(0) /\ \E v : vr[0] = Memory!Loaded(program.code[1].op, v, program.code[1].e,
                                                  base["from"])
      BY <1>8 DEF PairInv
    <3>. QED BY <3>1, <3>2, Zenon
  <2>6. StoredCount(s, base["to"]) = program.items /\ f \in 0 .. 15
    BY <1>2, Zenon DEF Fits
  <2>7. ASSUME NEW j \in 0 .. program.items - 1
        PROVE  /\ StoredAt(s, f, base["to"], j) = Memory!Place(base["to"], 0 + j)
               /\ StoredByte(s, vr[0], f, base["to"], j)
                    = Memory!readByte(InitData, Memory!Place(base["from"], 0 + j))
    <3>1. /\ StoredAt(s, f, base["to"], j) = Memory!Place(base["to"], j)
          /\ StoredByte(s, vr[0], f, base["to"], j)
               = Memory!readByte(data, Memory!Place(base["from"], j))
      BY <1>2, <2>5, Zenon DEF Fits
    <3>2. Memory!Place(base["from"], j) \in Int
      BY <1>3, CopyBases, PlacesApart
    <3>3. Memory!readByte(data, Memory!Place(base["from"], j))
          = Memory!readByte(InitData, Memory!Place(base["from"], j))
      BY <2>5, <3>2 DEF Arrived
    <3>4. 0 + j = j
      OBVIOUS
    <3>. QED BY <3>1, <3>3, <3>4, Zenon
  <2>8. PICK m \in Nat : m = program.items
    BY <1>3, CopyShape, Zenon
  <2>9. Arrived(m)'
    <3>1. m = 0 + StoredCount(s, base["to"]) /\ 0 + StoredCount(s, base["to"]) <= program.items
      BY <2>6, <2>8
    <3>2. f \in Int /\ 0 \in Nat
      BY <2>6
    <3>3. \A j \in 0 .. StoredCount(s, base["to"]) - 1 :
              /\ StoredAt(s, f, base["to"], j) = Memory!Place(base["to"], 0 + j)
              /\ StoredByte(s, vr[0], f, base["to"], j)
                   = Memory!readByte(InitData, Memory!Place(base["from"], 0 + j))
      BY <2>6, <2>7, Zenon
    <3>. QED BY <1>1, <1>3, <2>3, <2>4, <2>5, <3>1, <3>2, <3>3, CopyBases, StoreCopies, Zenon
  <2>10. Arrived(program.items)'
    BY <1>1, <2>8, <2>9, Zenon
  <2>. QED BY <1>1, <1>8, <2>10 DEF PairInv
<1>. QED BY <1>5, <1>7, <1>8

(* While nothing has arrived the memory is as it was.                      *)
LEMMA NothingArrived ==
    ASSUME Arrived(0), NEW x \in Int
    PROVE  Memory!readByte(data, x) = Memory!readByte(InitData, x)
BY DEF Arrived

(* A line further on, an address is at the same place in its line.         *)
LEMMA LineAgain ==
    ASSUME NEW a \in Int
    PROVE  Memory!inLine(a + 1 * 16) = Memory!inLine(a) /\ Memory!inLine(a) \in 0 .. 15
BY DEF Memory!inLine

(* The first n bytes at the address to load from, in the first register.   *)
Filled(n) ==
    \A j \in 0 .. 15 :
        j < n => vr[0][j] = Memory!readByte(InitData, base["from"] + j)

(* A quadword is loaded in two parts and stored in two others.             *)
QuadInv ==
    program \in Memory!Quad =>
        /\ pc <= 3 => Arrived(0)
        /\ pc = 2 => Filled(16 - Memory!inLine(base["from"]))
        /\ pc \in {3, 4} => Filled(16)
        /\ pc = 4 => Arrived(16 - Memory!inLine(base["to"]))
        /\ pc > 4 => Arrived(16)

(* LQV fills the register up to the end of the line, LRV from there on,    *)
(* and neither disturbs what the other fills.                              *)
LEMMA QuadLoads ==
    ASSUME data \in Memory!Data, NEW a \in Int, a = base["from"], Arrived(0), NEW v, NEW j \in 0 .. 15
    PROVE  /\ j < 16 - Memory!inLine(a) =>
                  Memory!Loaded("LQV", v, 0, a)[j] = Memory!readByte(InitData, a + j)
           /\ Memory!Loaded("LRV", v, 0, a + 1 * 16)[j]
                = IF j < 16 - Memory!inLine(a) THEN v[j]
                  ELSE Memory!readByte(InitData, a + j)
<1>. DEFINE line == Memory!inLine(a)
<1>1. line \in Nat /\ line <= 15 /\ Memory!inLine(a + 1 * 16) = line
  BY LineAgain
<1>2. Memory!readByte(data, a + j) = Memory!readByte(InitData, a + j)
  <2>1. a + j \in Int
    OBVIOUS
  <2>. QED BY <2>1, NothingArrived
<1>. HIDE DEF line
<1>3. ASSUME j < 16 - line
      PROVE  Memory!Loaded("LQV", v, 0, a)[j] = Memory!readByte(InitData, a + j)
  <2>1. j \in Memory!Bytes /\ j \in 0 .. 0 + (16 - line) - 1 /\ a + j - 0 = a + j
    BY <1>1, <1>3 DEF Memory!Bytes
  <2>2. j \in Memory!Bytes
    BY <2>1
  <2>3. Memory!LoadRun(data, v, 0, a, 16 - line)[j] = Memory!readByte(data, a + j - 0)
    BY <2>1, <2>2, RunCarries
  <2>4. Memory!Loaded("LQV", v, 0, a) = Memory!LoadRun(data, v, 0, a, 16 - line)
    BY DEF Memory!Loaded, Memory!LQV, line
  <2>. QED BY <1>2, <2>1, <2>3, <2>4
<1>4. Memory!Loaded("LRV", v, 0, a + 1 * 16)[j]
        = IF j < 16 - line THEN v[j] ELSE Memory!readByte(InitData, a + j)
  <2>. DEFINE b == a + 1 * 16
  <2>1. b \in Int /\ (b - 16) + j = a + j
    OBVIOUS
  <2>2. Memory!inLine(b) = line
    BY <1>1
  <2>. HIDE DEF b
  <2>3. Memory!Loaded("LRV", v, 0, b) = Memory!LRV(data, v, 0, b)
    BY DEF Memory!Loaded
  <2>4. Memory!LRV(data, v, 0, b)[j]
          = IF j >= 16 - line THEN Memory!readByte(data, (b - 16) + j) ELSE v[j]
    BY <2>1, <2>2, RightCarries
  <2>5. j < 16 - line <=> ~(j >= 16 - line)
    BY <1>1
  <2>6. Memory!Loaded("LRV", v, 0, b)[j]
          = IF j < 16 - line THEN v[j] ELSE Memory!readByte(InitData, a + j)
    BY <1>2, <2>1, <2>3, <2>4, <2>5
  <2>. QED BY <2>6 DEF b
<1>. QED BY <1>3, <1>4 DEF line

(* SQV stores up to the end of the line it stores to, which is another     *)
(* place in the register, and SRV the others.                              *)
LEMMA QuadStores ==
    ASSUME program.windowed = FALSE, NEW a \in Int, a = base["to"], Filled(16), base["from"] \in Int
    PROVE  LET n == 16 - Memory!inLine(a)
           IN  /\ StoredCount("SQV", a) = n
               /\ StoredCount("SRV", a + 1 * 16) = 16 - n
               /\ \A j \in 0 .. n - 1 :
                      /\ StoredAt("SQV", 0, a, j) = Memory!Place(a, 0 + j)
                      /\ StoredByte("SQV", vr[0], 0, a, j)
                           = Memory!readByte(InitData, Memory!Place(base["from"], 0 + j))
               /\ \A j \in 0 .. (16 - n) - 1 :
                      /\ StoredAt("SRV", 0, a + 1 * 16, j) = Memory!Place(a, n + j)
                      /\ StoredByte("SRV", vr[0], 0, a + 1 * 16, j)
                           = Memory!readByte(InitData, Memory!Place(base["from"], n + j))
<1>. DEFINE line == Memory!inLine(a)
            n == 16 - line
            b == a + 1 * 16
<1>1. line \in Nat /\ line <= 15 /\ Memory!inLine(b) = line
  BY LineAgain
<1>2. b \in Int /\ b = a + 16
  OBVIOUS
<1>3. \A c, j : Memory!Place(c, j) = c + j
  BY DEF Memory!Place
<1>4. \A j \in 0 .. 15 : vr[0][j] = Memory!readByte(InitData, base["from"] + j)
  BY DEF Filled
<1>. HIDE DEF line, b
<1>5. StoredCount("SQV", a) = n /\ StoredCount("SRV", b) = 16 - n
  <2>1. StoredCount("SQV", a) = 16 - line
    BY DEF StoredCount, RunStores, line
  <2>2. StoredCount("SRV", b) = line
    BY <1>1 DEF StoredCount, RunStores
  <2>. QED BY <1>1, <2>1, <2>2
<1>6. ASSUME NEW j \in 0 .. n - 1
      PROVE  /\ StoredAt("SQV", 0, a, j) = Memory!Place(a, 0 + j)
             /\ StoredByte("SQV", vr[0], 0, a, j)
                  = Memory!readByte(InitData, Memory!Place(base["from"], 0 + j))
  <2>1. StoredAt("SQV", 0, a, j) = a + j
    BY DEF StoredAt, RunStores
  <2>2. StoredByte("SQV", vr[0], 0, a, j) = vr[0][(0 + j) % 16]
    BY DEF StoredByte, RunStores
  <2>3. j \in 0 .. 15 /\ (0 + j) % 16 = j /\ 0 + j = j
    BY <1>1
  <2>4. vr[0][j] = Memory!readByte(InitData, base["from"] + j)
    BY <1>4, <2>3
  <2>5. StoredByte("SQV", vr[0], 0, a, j) = vr[0][j]
    BY <2>2, <2>3
  <2>6. Memory!Place(a, 0 + j) = a + j /\ Memory!Place(base["from"], 0 + j) = base["from"] + j
    BY <1>3, <2>3
  <2>. QED BY <2>1, <2>4, <2>5, <2>6
<1>7. ASSUME NEW j \in 0 .. (16 - n) - 1
      PROVE  /\ StoredAt("SRV", 0, b, j) = Memory!Place(a, n + j)
             /\ StoredByte("SRV", vr[0], 0, b, j)
                  = Memory!readByte(InitData, Memory!Place(base["from"], n + j))
  <2>1. StoredAt("SRV", 0, b, j) = (b - line) + j
    BY <1>1 DEF StoredAt, RunStores
  <2>2. StoredByte("SRV", vr[0], 0, b, j) = vr[0][(0 + j + (16 - line)) % 16]
    BY <1>1 DEF StoredByte, RunStores
  <2>3. /\ n + j \in 0 .. 15 /\ (0 + j + (16 - line)) % 16 = n + j
        /\ (b - line) + j = a + (n + j)
    BY <1>1, <1>2
  <2>4. vr[0][n + j] = Memory!readByte(InitData, base["from"] + (n + j))
    BY <1>4, <2>3
  <2>5. StoredByte("SRV", vr[0], 0, b, j) = vr[0][n + j]
    BY <2>2, <2>3
  <2>6. /\ Memory!Place(a, n + j) = a + (n + j)
        /\ Memory!Place(base["from"], n + j) = base["from"] + (n + j)
    BY <1>3
  <2>. QED BY <2>1, <2>3, <2>4, <2>5, <2>6
<1>. QED BY <1>5, <1>6, <1>7 DEF line, b

(* Each of the four instructions takes the copy one part further.          *)
LEMMA QuadStep ==
    ASSUME MemoryInv, Memory!TypeOK, QuadInv, Memory!Next
    PROVE  QuadInv'
<1>1. pc' = pc + 1 /\ program' = program /\ base' = base
  BY MemoryAdvances, Zenon
<1>. SUFFICES ASSUME program \in Memory!Quad
              PROVE  QuadInv'
  BY <1>1 DEF QuadInv
<1>. DEFINE from == base["from"]
            to == base["to"]
            i1 == Memory!From("LQV", 0, 0)
            i2 == Memory!From("LRV", 0, 1)
            i3 == Memory!To("SQV", 0, 0)
            i4 == Memory!To("SRV", 0, 1)
<1>2. /\ program.code = <<i1, i2, i3, i4>>
      /\ program \in Memory!Copies /\ program.items = 16 /\ program.windowed = FALSE
  BY DEF Memory!Quad, Memory!Copy, Memory!Copies
<1>3. from \in Int /\ to \in Int /\ data \in Memory!Data
  BY CopyBases DEF Memory!TypeOK
<1>4. /\ i1.op = "LQV" /\ i1.vt = 0 /\ i1.e = 0 /\ Memory!Address(i1) = from
      /\ i2.op = "LRV" /\ i2.vt = 0 /\ i2.e = 0 /\ Memory!Address(i2) = from + 1 * 16
      /\ i3.op = "SQV" /\ i3.vt = 0 /\ i3.e = 0 /\ Memory!Address(i3) = to
      /\ i4.op = "SRV" /\ i4.vt = 0 /\ i4.e = 0 /\ Memory!Address(i4) = to + 1 * 16
  <2>1. Memory!Scale("LRV") = 16 /\ Memory!Scale("SRV") = 16
    BY DEF Memory!Scale
  <2>2. /\ i1.op = "LQV" /\ i1.vt = 0 /\ i1.e = 0 /\ Memory!Address(i1) = from
        /\ i3.op = "SQV" /\ i3.vt = 0 /\ i3.e = 0 /\ Memory!Address(i3) = to
    BY <1>3, FirstFacts
  <2>3. /\ i2.op = "LRV" /\ i2.vt = 0 /\ i2.e = 0
        /\ Memory!Address(i2) = from + 1 * Memory!Scale("LRV")
        /\ i4.op = "SRV" /\ i4.vt = 0 /\ i4.e = 0
        /\ Memory!Address(i4) = to + 1 * Memory!Scale("SRV")
    BY CodeFacts
  <2>. HIDE DEF i1, i2, i3, i4
  <2>. QED BY <2>1, <2>2, <2>3
<1>. HIDE DEF i1, i2, i3, i4, from, to
<1>5. /\ ~Memory!Done
      /\ Effects(Memory!Current, Memory!Address(Memory!Current))
  BY StepEffects, Zenon
<1>6. pc \in {1, 2, 3, 4}
  BY <1>2, <1>5 DEF MemoryInv, Memory!Done
<1>7. /\ "LQV" \in Memory!LoadOps /\ "LRV" \in Memory!LoadOps
      /\ "SQV" \in Memory!StoreOps /\ "SRV" \in Memory!StoreOps
  BY DEF Memory!LoadOps, Memory!StoreOps
<1>8. CASE pc = 1
  <2>1. Memory!Current = i1
    BY <1>2, <1>8 DEF Memory!Current
  <2>2. vr' = [vr EXCEPT ![0] = Memory!Loaded("LQV", vr[0], 0, from)] /\ data' = data
    BY <1>4, <1>5, <1>7, <2>1, Zenon DEF Effects
  <2>3. vr'[0] = Memory!Loaded("LQV", vr[0], 0, from)
    BY <2>2 DEF Memory!TypeOK
  <2>4. Arrived(0)
    BY <1>8 DEF QuadInv
  <2>5. \A j \in 0 .. 15 : j < 16 - Memory!inLine(from) =>
            vr'[0][j] = Memory!readByte(InitData, from + j)
    BY <1>3, <2>3, <2>4, QuadLoads DEF from
  <2>6. Filled(16 - Memory!inLine(base["from"]))'
    BY <1>1, <2>5 DEF Filled, from
  <2>7. Arrived(0)'
    BY <1>1, <2>2, <2>4, ArrivedStays, Zenon
  <2>. QED BY <1>1, <1>8, <2>6, <2>7 DEF QuadInv
<1>9. CASE pc = 2
  <2>1. Memory!Current = i2
    BY <1>2, <1>9 DEF Memory!Current
  <2>2. vr' = [vr EXCEPT ![0] = Memory!Loaded("LRV", vr[0], 0, from + 1 * 16)] /\ data' = data
    BY <1>4, <1>5, <1>7, <2>1, Zenon DEF Effects
  <2>3. vr'[0] = Memory!Loaded("LRV", vr[0], 0, from + 1 * 16)
    BY <2>2 DEF Memory!TypeOK
  <2>4. Arrived(0) /\ Filled(16 - Memory!inLine(from))
    BY <1>9 DEF QuadInv, from
  <2>5. ASSUME NEW j \in 0 .. 15
        PROVE  vr'[0][j] = Memory!readByte(InitData, from + j)
    <3>1. vr'[0][j] = IF j < 16 - Memory!inLine(from) THEN vr[0][j]
                      ELSE Memory!readByte(InitData, from + j)
      BY <1>3, <2>3, <2>4, QuadLoads DEF from
    <3>. QED BY <2>4, <3>1 DEF Filled, from
  <2>6. Filled(16)'
    BY <1>1, <2>5 DEF Filled, from
  <2>7. Arrived(0)'
    BY <1>1, <2>2, <2>4, ArrivedStays, Zenon
  <2>. QED BY <1>1, <1>9, <2>6, <2>7 DEF QuadInv
<1>10. CASE pc = 3
  <2>1. Memory!Current = i3
    BY <1>2, <1>10 DEF Memory!Current
  <2>2. data' = Memory!Stored("SQV", vr[0], 0, to) /\ vr' = vr
    BY <1>4, <1>5, <1>7, <2>1, Zenon DEF Effects
  <2>3. Arrived(0) /\ Filled(16)
    BY <1>10 DEF QuadInv
  <2>4. PICK m \in Nat : m = 16 - Memory!inLine(to) /\ m <= 16
    BY <1>3, LineAgain
  <2>5. Arrived(m)'
    <3>1. StoredCount("SQV", to) = m
      BY <1>2, <1>3, <2>3, <2>4, QuadStores DEF to, from
    <3>2. \A j \in 0 .. m - 1 :
              /\ StoredAt("SQV", 0, to, j) = Memory!Place(to, 0 + j)
              /\ StoredByte("SQV", vr[0], 0, to, j)
                   = Memory!readByte(InitData, Memory!Place(base["from"], 0 + j))
      BY <1>2, <1>3, <2>3, <2>4, QuadStores DEF to, from
    <3>3. 0 \in Nat /\ 0 \in Int /\ 0 + m <= program.items /\ m = 0 + m
      BY <1>2, <2>4
    <3>. QED BY <1>1, <1>2, <1>3, <1>7, <2>2, <2>3, <3>1, <3>2, <3>3, StoreCopies, Zenon DEF to
  <2>6. Arrived(16 - Memory!inLine(base["to"]))'
    BY <1>1, <2>4, <2>5, Zenon DEF to
  <2>7. Filled(16)'
    BY <1>1, <2>2, <2>3 DEF Filled
  <2>. QED BY <1>1, <1>10, <2>6, <2>7 DEF QuadInv
<1>11. CASE pc = 4
  <2>1. Memory!Current = i4
    BY <1>2, <1>11 DEF Memory!Current
  <2>2. data' = Memory!Stored("SRV", vr[0], 0, to + 1 * 16)
    BY <1>4, <1>5, <1>7, <2>1, Zenon DEF Effects
  <2>3. Filled(16) /\ Arrived(16 - Memory!inLine(to))
    BY <1>11 DEF QuadInv, to
  <2>4. PICK m \in Nat : m = 16 - Memory!inLine(to) /\ m <= 16
    BY <1>3, LineAgain
  <2>5. Arrived(m)
    BY <2>3, <2>4, Zenon
  <2>6. StoredCount("SRV", to + 1 * 16) = 16 - m
    BY <1>2, <1>3, <2>3, <2>4, QuadStores DEF to, from
  <2>7. \A j \in 0 .. (16 - m) - 1 :
            /\ StoredAt("SRV", 0, to + 1 * 16, j) = Memory!Place(to, m + j)
            /\ StoredByte("SRV", vr[0], 0, to + 1 * 16, j)
                 = Memory!readByte(InitData, Memory!Place(base["from"], m + j))
    BY <1>2, <1>3, <2>3, <2>4, QuadStores DEF to, from
  <2>. DEFINE n == 16
              b == to + 1 * 16
  <2>8. /\ m + StoredCount("SRV", b) = n /\ n \in Nat /\ n <= program.items /\ 0 \in Int
        /\ b \in Int
    BY <1>2, <1>3, <2>4, <2>6
  <2>9. Arrived(n)'
    <3>1. \A j \in 0 .. StoredCount("SRV", b) - 1 :
              /\ StoredAt("SRV", 0, b, j) = Memory!Place(to, m + j)
              /\ StoredByte("SRV", vr[0], 0, b, j)
                   = Memory!readByte(InitData, Memory!Place(base["from"], m + j))
      BY <2>6, <2>7, Zenon
    <3>. HIDE DEF n, b
    <3>2. data' = Memory!Stored("SRV", vr[0], 0, b)
      BY <2>2 DEF b
    <3>. QED BY <1>1, <1>2, <1>3, <1>7, <2>5, <2>8, <3>1, <3>2, StoreCopies, Zenon DEF to
  <2>. QED BY <1>1, <1>11, <2>9 DEF QuadInv
<1>. QED BY <1>6, <1>8, <1>9, <1>10, <1>11

(* A halfword goes through a scalar register: which bytes are where.       *)
First == Memory!readByte(InitData, base["from"])
Second == Memory!readByte(InitData, base["from"] + 1)

(* The sequence that loads to element e, and what each of its four         *)
(* instructions leaves for the next.                                       *)
MoveOf(e) ==
    Memory!Copy(<<Memory!From("LSV", e, 0), Memory!From("MFC2", e, 0),
                  Memory!To("MTC2", 14 - e, 0), Memory!To("SSV", 14 - e, 0)>>, 2)

MoveInv ==
    \A e \in 0 .. 14 :
        program = MoveOf(e) =>
            /\ pc <= 4 => Arrived(0)
            /\ pc = 2 => vr[0][e] = First /\ vr[0][e + 1] = Second
            /\ pc = 3 => rt[3] = First /\ rt[4] = Second
            /\ pc = 4 => vr[0][14 - e] = First /\ vr[0][15 - e] = Second
            /\ pc > 4 => Arrived(2)

(* LSV puts the two bytes at element e.                                    *)
LEMMA MoveLoads ==
    ASSUME base["from"] \in Int, Arrived(0), NEW v, NEW e \in 0 .. 14
    PROVE  /\ Memory!Loaded("LSV", v, e, base["from"])[e] = First
           /\ Memory!Loaded("LSV", v, e, base["from"])[e + 1] = Second
<1>. DEFINE a == base["from"]
            w == Memory!LoadRun(data, v, e, a, 2)
            f == e + 1
<1>1. /\ e \in Memory!Bytes /\ f \in Memory!Bytes
      /\ e \in e .. e + 2 - 1 /\ f \in e .. e + 2 - 1
      /\ a + e - e = a /\ a + f - e = a + 1 /\ a + 1 \in Int /\ a \in Int
  BY DEF Memory!Bytes
<1>2. Memory!Loaded("LSV", v, e, a) = w
  <2>1. Memory!Scale("LSV") = 2
    BY DEF Memory!Scale
  <2>. QED BY <2>1 DEF Memory!Loaded
<1>. HIDE DEF a, f
<1>3. w[e] = Memory!readByte(data, a + e - e) /\ w[f] = Memory!readByte(data, a + f - e)
  BY <1>1, RunCarries
<1>4. /\ Memory!readByte(data, a) = Memory!readByte(InitData, a)
      /\ Memory!readByte(data, a + 1) = Memory!readByte(InitData, a + 1)
  BY <1>1, NothingArrived
<1>5. w[e] = Memory!readByte(InitData, a) /\ w[f] = Memory!readByte(InitData, a + 1)
  BY <1>1, <1>3, <1>4
<1>. QED BY <1>2, <1>5 DEF a, f, First, Second

(* MFC2 takes them to the low half of the scalar register, and MTC2 from   *)
(* there to another element.                                               *)
LEMMA MoveMoves ==
    ASSUME NEW v, NEW w, NEW e \in 0 .. 14
    PROVE  /\ Memory!MFC2(v, e)[3] = v[e] /\ Memory!MFC2(v, e)[4] = v[e + 1]
           /\ Memory!MTC2(w, v, 14 - e)[14 - e] = w[3] /\ Memory!MTC2(w, v, 14 - e)[15 - e] = w[4]
<1>1. (e + 1) % 16 = e + 1
  OBVIOUS
<1>2. Memory!MFC2(v, e)[3] = v[e] /\ Memory!MFC2(v, e)[4] = v[e + 1]
  BY <1>1 DEF Memory!MFC2
<1>. DEFINE f == 14 - e
            g == 15 - e
<1>3. f \in Memory!Bytes /\ g \in Memory!Bytes /\ g = f + 1 /\ g # f
  BY DEF Memory!Bytes
<1>. HIDE DEF f, g
<1>4. Memory!MTC2(w, v, f)[f] = w[3] /\ Memory!MTC2(w, v, f)[g] = w[4]
  BY <1>3 DEF Memory!MTC2
<1>. QED BY <1>2, <1>4 DEF f, g

(* SSV stores them from that element.                                      *)
LEMMA MoveStores ==
    ASSUME base["from"] \in Int, base["to"] \in Int, NEW e \in 0 .. 14, program.windowed = FALSE,
           vr[0][14 - e] = First, vr[0][15 - e] = Second
    PROVE  LET a == base["to"]
           IN  /\ StoredCount("SSV", a) = 2
               /\ \A j \in 0 .. 1 :
                      /\ StoredAt("SSV", 14 - e, a, j) = Memory!Place(a, 0 + j)
                      /\ StoredByte("SSV", vr[0], 14 - e, a, j)
                           = Memory!readByte(InitData, Memory!Place(base["from"], 0 + j))
<1>. DEFINE a == base["to"]
            b == base["from"]
<1>1. a \in Int /\ b \in Int /\ \A c, j : Memory!Place(c, j) = c + j
  BY DEF Memory!Place
<1>2. StoredCount("SSV", a) = 2
  BY DEF StoredCount, RunStores, Memory!Scale
<1>3. ASSUME NEW j \in 0 .. 1
      PROVE  /\ StoredAt("SSV", 14 - e, a, j) = Memory!Place(a, 0 + j)
             /\ StoredByte("SSV", vr[0], 14 - e, a, j)
                  = Memory!readByte(InitData, Memory!Place(b, 0 + j))
  <2>1. /\ StoredAt("SSV", 14 - e, a, j) = a + j
        /\ StoredByte("SSV", vr[0], 14 - e, a, j) = vr[0][((14 - e) + j) % 16]
    BY DEF StoredAt, StoredByte, RunStores
  <2>2. Memory!Place(a, 0 + j) = a + j /\ Memory!Place(b, 0 + j) = b + j
    BY <1>1
  <2>3. ((14 - e) + j) % 16 = IF j = 0 THEN 14 - e ELSE 15 - e
    OBVIOUS
  <2>4. b + 0 = b
    BY <1>1
  <2>5. vr[0][((14 - e) + j) % 16] = Memory!readByte(InitData, b + j)
    <3>1. CASE j = 0
      BY <2>3, <2>4, <3>1 DEF First
    <3>2. CASE j = 1
      BY <2>3, <3>2 DEF Second
    <3>. QED BY <3>1, <3>2
  <2>. QED BY <2>1, <2>2, <2>5
<1>. QED BY <1>2, <1>3

(* So each instruction does its part.                                      *)
LEMMA MoveStep ==
    ASSUME MemoryInv, Memory!TypeOK, MoveInv, Memory!Next
    PROVE  MoveInv'
<1>1. pc' = pc + 1 /\ program' = program /\ base' = base
  BY MemoryAdvances, Zenon
<1>. SUFFICES ASSUME NEW e \in 0 .. 14, program = MoveOf(e)
              PROVE  /\ pc' <= 4 => Arrived(0)'
                     /\ pc' = 2 => vr'[0][e] = First' /\ vr'[0][e + 1] = Second'
                     /\ pc' = 3 => rt'[3] = First' /\ rt'[4] = Second'
                     /\ pc' = 4 => vr'[0][14 - e] = First' /\ vr'[0][15 - e] = Second'
                     /\ pc' > 4 => Arrived(2)'
  BY <1>1 DEF MoveInv
<1>2. First' = First /\ Second' = Second
  BY <1>1 DEF First, Second
<1>. DEFINE i1 == Memory!From("LSV", e, 0)
            i2 == Memory!From("MFC2", e, 0)
            i3 == Memory!To("MTC2", 14 - e, 0)
            i4 == Memory!To("SSV", 14 - e, 0)
<1>3. /\ program.code = <<i1, i2, i3, i4>>
      /\ program.items = 2 /\ program.windowed = FALSE
  BY DEF MoveOf, Memory!Copy
<1>4. program \in Memory!Copies
  BY DEF MoveOf, Memory!Copies, Memory!Moves
<1>5. base["from"] \in Int /\ base["to"] \in Int
  BY CopyBases
<1>6. /\ i1.op = "LSV" /\ i1.vt = 0 /\ i1.e = e /\ Memory!Address(i1) = base["from"]
      /\ i2.op = "MFC2" /\ i2.vt = 0 /\ i2.e = e
      /\ i3.op = "MTC2" /\ i3.vt = 0 /\ i3.e = 14 - e
      /\ i4.op = "SSV" /\ i4.vt = 0 /\ i4.e = 14 - e /\ Memory!Address(i4) = base["to"]
  BY <1>5, FirstFacts
<1>. HIDE DEF i1, i2, i3, i4
<1>7. /\ ~Memory!Done
      /\ Effects(Memory!Current, Memory!Address(Memory!Current))
  BY StepEffects, Zenon
<1>8. pc \in {1, 2, 3, 4}
  BY <1>3, <1>7 DEF MemoryInv, Memory!Done
<1>9. "LSV" \in Memory!LoadOps /\ "SSV" \in Memory!StoreOps
  BY DEF Memory!LoadOps, Memory!StoreOps
<1>10. /\ pc <= 4 => Arrived(0)
       /\ pc = 2 => vr[0][e] = First /\ vr[0][e + 1] = Second
       /\ pc = 3 => rt[3] = First /\ rt[4] = Second
       /\ pc = 4 => vr[0][14 - e] = First /\ vr[0][15 - e] = Second
  BY DEF MoveInv
<1>11. CASE pc = 1
  <2>1. Memory!Current = i1
    BY <1>3, <1>11 DEF Memory!Current
  <2>2. vr' = [vr EXCEPT ![0] = Memory!Loaded("LSV", vr[0], e, base["from"])] /\ data' = data
    BY <1>6, <1>7, <1>9, <2>1, Zenon DEF Effects
  <2>3. vr'[0] = Memory!Loaded("LSV", vr[0], e, base["from"])
    BY <2>2 DEF Memory!TypeOK
  <2>4. Arrived(0)
    BY <1>10, <1>11
  <2>5. vr'[0][e] = First /\ vr'[0][e + 1] = Second
    BY <1>5, <2>3, <2>4, MoveLoads
  <2>6. Arrived(0)'
    BY <1>1, <2>2, <2>4, ArrivedStays, Zenon
  <2>. QED BY <1>1, <1>2, <1>11, <2>5, <2>6
<1>12. CASE pc = 2
  <2>1. Memory!Current = i2
    BY <1>3, <1>12 DEF Memory!Current
  <2>2. rt' = Memory!MFC2(vr[0], e) /\ data' = data
    BY <1>6, <1>7, <2>1, Zenon DEF Effects
  <2>3. rt'[3] = First /\ rt'[4] = Second
    BY <1>10, <1>12, <2>2, MoveMoves
  <2>4. Arrived(0)
    BY <1>10, <1>12
  <2>5. Arrived(0)'
    BY <1>1, <2>2, <2>4, ArrivedStays, Zenon
  <2>. QED BY <1>1, <1>2, <1>12, <2>3, <2>5
<1>13. CASE pc = 3
  <2>1. Memory!Current = i3
    BY <1>3, <1>13 DEF Memory!Current
  <2>2. vr' = [vr EXCEPT ![0] = Memory!MTC2(rt, vr[0], 14 - e)] /\ data' = data
    BY <1>6, <1>7, <2>1, Zenon DEF Effects
  <2>3. vr'[0] = Memory!MTC2(rt, vr[0], 14 - e)
    BY <2>2 DEF Memory!TypeOK
  <2>4. vr'[0][14 - e] = First /\ vr'[0][15 - e] = Second
    BY <1>10, <1>13, <2>3, MoveMoves
  <2>5. Arrived(0)
    BY <1>10, <1>13
  <2>6. Arrived(0)'
    BY <1>1, <2>2, <2>5, ArrivedStays, Zenon
  <2>. QED BY <1>1, <1>2, <1>13, <2>4, <2>6
<1>14. CASE pc = 4
  <2>. DEFINE f == 14 - e
              to == base["to"]
              m == 2
  <2>1. Memory!Current = i4
    BY <1>3, <1>14 DEF Memory!Current
  <2>2. data' = Memory!Stored("SSV", vr[0], f, to)
    BY <1>6, <1>7, <1>9, <2>1, Zenon DEF Effects
  <2>3. Arrived(0) /\ vr[0][14 - e] = First /\ vr[0][15 - e] = Second
    BY <1>10, <1>14
  <2>4. /\ StoredCount("SSV", to) = m
        /\ \A j \in 0 .. 1 :
               /\ StoredAt("SSV", f, to, j) = Memory!Place(to, 0 + j)
               /\ StoredByte("SSV", vr[0], f, to, j)
                    = Memory!readByte(InitData, Memory!Place(base["from"], 0 + j))
    BY <1>3, <1>5, <2>3, MoveStores
  <2>5. /\ 0 + StoredCount("SSV", to) = m /\ m \in Nat /\ m <= program.items
        /\ 0 \in Nat /\ f \in Int /\ to \in Int
        /\ \A j \in 0 .. StoredCount("SSV", to) - 1 : j \in 0 .. 1
    BY <1>3, <1>5, <2>4
  <2>6. Arrived(m)'
    <3>. HIDE DEF m, f
    <3>1. \A j \in 0 .. StoredCount("SSV", to) - 1 :
              /\ StoredAt("SSV", f, to, j) = Memory!Place(to, 0 + j)
              /\ StoredByte("SSV", vr[0], f, to, j)
                   = Memory!readByte(InitData, Memory!Place(base["from"], 0 + j))
      BY <2>4, <2>5, Zenon
    <3>. QED BY <1>1, <1>4, <1>9, <2>2, <2>3, <2>5, <3>1, StoreCopies, Zenon
  <2>. QED BY <1>1, <1>14, <2>6
<1>. QED BY <1>8, <1>11, <1>12, <1>13, <1>14

-----------------------------------------------------------------------------
(* Transposing.                                                            *)

(* A row of the matrix: STV with an element of 2 r turns it by r elements  *)
(* and fills sixteen bytes.                                                *)
LEMMA RowStored ==
    ASSUME NEW r \in 0 .. 7, NEW a \in Int, a % 16 = 0, NEW v
    PROVE  LET after == Memory!Stored("STV", v, 2 * r, a)
           IN  /\ \A q \in 0 .. 15 :
                      Memory!readByte(after, a + q) = vr[((q + 2 * r) % 16) \div 2][q]
               /\ \A x \in Int : (\A q \in 0 .. 15 : Memory!At(a + q) # Memory!At(x)) =>
                      Memory!readByte(after, x) = Memory!readByte(data, x)
<1>. DEFINE after == Memory!Stored("STV", v, 2 * r, a)
            place(j) == a + ((j - 2 * r) % 16)
            byte0(j) == vr[j \div 2][(16 - 2 * r + j) % 16]
            op == "STV"
            e == 2 * r
<1>1. op \in Memory!StoreOps /\ StoredCount(op, a) = 16
  BY DEF Memory!StoreOps, StoredCount, RunStores
<1>2. \A j \in Int : StoredAt(op, e, a, j) = place(j)
  <2>1. Memory!inUnit(a) = 0 /\ Memory!Window(a) = a /\ 2 * (e \div 2) = 2 * r
    BY DEF Memory!inUnit, Memory!Window
  <2>2. \A j \in Int : 0 - 2 * r + j = j - 2 * r
    OBVIOUS
  <2>3. \A j \in Int : StoredAt(op, e, a, j)
                         = Memory!inWindow(a, Memory!inUnit(a) - 2 * (e \div 2) + j)
    BY DEF StoredAt, RunStores
  <2>. QED BY <2>1, <2>2, <2>3 DEF Memory!inWindow
<1>3. \A j \in Int : StoredByte(op, v, e, a, j) = byte0(j)
  <2>1. 2 * (e \div 2) = 2 * r
    OBVIOUS
  <2>2. \A j \in Int : StoredByte(op, v, e, a, j) = vr[j \div 2][(16 - 2 * (e \div 2) + j) % 16]
    BY DEF StoredByte, RunStores
  <2>. QED BY <2>1, <2>2
<1>4. Scattered(after, op, v, e, a)
  BY <1>1, StoresScatter
<1>. HIDE DEF after, op, e
<1>5. PICK address, byte :
          /\ after = Memory!Scatter(data, 16, address, byte)
          /\ \A j \in 0 .. 16 - 1 : /\ address[j] = StoredAt(op, e, a, j)
                                    /\ byte[j] = StoredByte(op, v, e, a, j)
  BY <1>1, <1>4 DEF Scattered
<1>6. \A j \in 0 .. 15 : address[j] = place(j) /\ byte[j] = byte0(j)
  <2>1. \A j \in 0 .. 15 : j \in Int /\ j \in 0 .. 16 - 1
    OBVIOUS
  <2>. HIDE DEF place, byte0
  <2>. QED BY <1>2, <1>3, <1>5, <2>1
<1>7. \A j \in 0 .. 15 : place(j) \in Int
  OBVIOUS
<1>8. \A i, j \in 0 .. 15 : Memory!At(place(i)) = Memory!At(place(j)) => i = j
  <2>1. SUFFICES ASSUME NEW i \in 0 .. 15, NEW j \in 0 .. 15,
                        Memory!At(place(i)) = Memory!At(place(j))
                 PROVE  i = j
    OBVIOUS
  <2>. DEFINE x == place(i)
              y == place(j)
  <2>2. x \in Int /\ y \in Int /\ x - y <= 15 /\ y - x <= 15
    OBVIOUS
  <2>3. Memory!At(x) = Memory!At(y)
    BY <2>1
  <2>4. x = y
    <3>. HIDE DEF x, y
    <3>. QED BY <2>2, <2>3, Apart
  <2>5. (i - 2 * r) % 16 = (j - 2 * r) % 16
    BY <2>4
  <2>. QED BY <2>5
<1>. HIDE DEF place, byte0
<1>9. ASSUME NEW q \in 0 .. 15
      PROVE  Memory!readByte(after, a + q) = vr[((q + 2 * r) % 16) \div 2][q]
  <2>. DEFINE j == (q + 2 * r) % 16
  <2>1. j \in 0 .. 15 /\ place(j) = a + q /\ byte0(j) = vr[j \div 2][q]
    <3>1. j \in 0 .. 15 /\ (j - 2 * r) % 16 = q /\ (16 - 2 * r + j) % 16 = q
      OBVIOUS
    <3>. HIDE DEF j
    <3>. QED BY <3>1 DEF place, byte0
  <2>. HIDE DEF j
  <2>2. \A c \in 0 .. 16 - 1 : address[c] \in Int
    BY <1>6, <1>7
  <2>3. \A c \in 0 .. 16 - 1 : Memory!At(address[c]) = Memory!At(address[j]) => c = j
    BY <1>6, <1>8, <2>1
  <2>4. Memory!readByte(Memory!Scatter(data, 16, address, byte), address[j]) = byte[j]
    <3>. DEFINE k == 16
    <3>1. k \in Nat /\ j \in 0 .. k - 1
      BY <2>1
    <3>2. \A c \in 0 .. k - 1 : address[c] \in Int
      BY <2>2
    <3>3. \A c \in 0 .. k - 1 : Memory!At(address[c]) = Memory!At(address[j]) => c = j
      BY <2>3
    <3>. HIDE DEF k
    <3>4. Memory!readByte(Memory!Scatter(data, k, address, byte), address[j]) = byte[j]
      BY <3>1, <3>2, <3>3, ScatterReads
    <3>. QED BY <3>4 DEF k
  <2>5. Memory!readByte(after, a + q) = vr[j \div 2][q]
    BY <1>5, <1>6, <2>1, <2>4
  <2>. QED BY <2>5 DEF j
<1>10. ASSUME NEW x \in Int, \A q \in 0 .. 15 : Memory!At(a + q) # Memory!At(x)
       PROVE  Memory!readByte(after, x) = Memory!readByte(data, x)
  <2>. DEFINE k == 16
  <2>1. \A c \in 0 .. k - 1 : Memory!At(address[c]) # Memory!At(x)
    <3>1. SUFFICES ASSUME NEW c \in 0 .. 15
                   PROVE  Memory!At(address[c]) # Memory!At(x)
      OBVIOUS
    <3>. DEFINE q == (c - 2 * r) % 16
    <3>2. q \in 0 .. 15 /\ place(c) = a + q
      BY DEF place
    <3>. HIDE DEF q
    <3>. QED BY <1>6, <1>10, <3>2
  <2>2. k \in Nat
    OBVIOUS
  <2>3. after = Memory!Scatter(data, k, address, byte)
    BY <1>5
  <2>. HIDE DEF k
  <2>. QED BY <2>1, <2>2, <2>3, ScatterLeaves
<1>. QED BY <1>9, <1>10 DEF after, op, e

(* And LTV takes one element of it back to each register: w is register k *)
(* of those, v what it was before.                                         *)
ColumnIn(w, v, d, a, k, t) ==
    /\ w[2 * t] = Memory!readByte(d, a + 2 * k)
    /\ w[2 * t + 1] = Memory!readByte(d, a + (2 * k + 1))
    /\ \A i \in Memory!Bytes \ {2 * t, 2 * t + 1} : w[i] = v[i]

(* The element that an instruction with e loads to register k is t.        *)
LEMMA ColumnLoaded ==
    ASSUME NEW d, NEW regs \in [0 .. 7 -> Memory!Vector], NEW a \in Int, a % 16 = 0,
           NEW k \in 0 .. 7, NEW t \in 0 .. 7, NEW e \in 0 .. 15, (e + 2 * t) % 16 = 2 * k
    PROVE  ColumnIn(Memory!LTV(d, regs, e, a)[k], regs[k], d, a, k, t)
<1>. DEFINE after == Memory!LTV(d, regs, e, a)
            at(j) == Memory!inWindow(a, e + 8 * ((a \div 8) % 2) + j)
            turn(i) == (i - e \div 2) % 8
<1>1. after = [i \in 0 .. 7 |->
                  [regs[i] EXCEPT ![2 * turn(i)] = Memory!readByte(d, at(2 * turn(i))),
                                  ![2 * turn(i) + 1] = Memory!readByte(d, at(2 * turn(i) + 1))]]
  BY Zenon DEF Memory!LTV
<1>2. turn(k) = t /\ t \in 0 .. 7
  OBVIOUS
<1>3. (a \div 8) % 2 = 0 /\ Memory!Window(a) = a
  BY DEF Memory!Window, Memory!inUnit
<1>4. (e + 8 * 0 + 2 * t) % 16 = 2 * k /\ (e + 8 * 0 + (2 * t + 1)) % 16 = 2 * k + 1
  OBVIOUS
<1>5. at(2 * t) = a + 2 * k /\ at(2 * t + 1) = a + (2 * k + 1)
  BY <1>3, <1>4, Zenon DEF Memory!inWindow
<1>6. after[k] = [regs[k] EXCEPT ![2 * turn(k)] = Memory!readByte(d, at(2 * turn(k))),
                                 ![2 * turn(k) + 1] = Memory!readByte(d, at(2 * turn(k) + 1))]
  <2>. HIDE DEF after, at, turn
  <2>. QED BY <1>1
<1>7. after[k] = [regs[k] EXCEPT ![2 * t] = Memory!readByte(d, a + 2 * k),
                                 ![2 * t + 1] = Memory!readByte(d, a + (2 * k + 1))]
  BY <1>2, <1>5, <1>6, Zenon
<1>8. regs[k] \in Memory!Vector /\ 2 * t \in Memory!Bytes /\ 2 * t + 1 \in Memory!Bytes
      /\ 2 * t # 2 * t + 1
  BY <1>2 DEF Memory!Bytes
<1>. DEFINE x == 2 * t
            y == 2 * t + 1
            z == after[k]
<1>. HIDE DEF x, y, z
<1>9. /\ z[x] = Memory!readByte(d, a + 2 * k)
      /\ z[y] = Memory!readByte(d, a + (2 * k + 1))
      /\ \A i \in Memory!Bytes \ {x, y} : z[i] = regs[k][i]
  <2>1. z = [regs[k] EXCEPT ![x] = Memory!readByte(d, a + 2 * k),
                            ![y] = Memory!readByte(d, a + (2 * k + 1))]
    BY <1>7 DEF x, y, z
  <2>2. regs[k] \in Memory!Vector /\ x \in Memory!Bytes /\ y \in Memory!Bytes /\ x # y
    BY <1>8 DEF x, y
  <2>. QED BY <2>1, <2>2 DEF Memory!Vector
<1>. QED BY <1>9 DEF x, y, z, ColumnIn

(* The transposition at a quadword: rows are stored until the ninth        *)
(* instruction, and then columns are loaded.                               *)
Rows ==
    \A i \in 0 .. 7, q \in 0 .. 15 :
        i < pc - 1 => Memory!readByte(data, base["to"] + (16 * i + q))
                        = InitVectors[((q + 2 * i) % 16) \div 2][q]

(* Column i went to the element of register k that k + i picks.            *)
Columns ==
    \A i, k \in 0 .. 7, b \in {0, 1} :
        i < pc - 9 => vr[k][2 * ((k + i) % 8) + b] = InitVectors[(k + i) % 8][2 * k + b]

(* The registers keep their rows as long as rows are stored.               *)
TransposeInv ==
    program \in Memory!Transposition /\ base["to"] % 16 = 0 =>
        /\ pc <= 9 => vr = InitVectors
        /\ Rows
        /\ Columns

(* The instruction that is next.                                           *)
LEMMA TransposeCode ==
    ASSUME MemoryInv, program \in Memory!Transposition, ~Memory!Done
    PROVE  LET i == Memory!Current
           IN  /\ pc \in 1 .. 16
               /\ pc <= 8 => /\ i.op = "STV" /\ i.e = 2 * (pc - 1)
                             /\ Memory!Address(i) = base["to"] + 16 * (pc - 1)
               /\ pc > 8 => /\ i.op = "LTV" /\ i.e = (16 - 2 * (pc - 9)) % 16
                            /\ Memory!Address(i) = base["to"] + 16 * (pc - 9)
<1>. DEFINE row(k) == Memory!To("STV", 2 * (k - 1), k - 1)
            column(k) == Memory!To("LTV", (16 - 2 * (k - 9)) % 16, k - 9)
<1>1. program.code = [k \in 1 .. 16 |-> IF k <= 8 THEN row(k) ELSE column(k)]
  BY DEF Memory!Transposition
<1>2. pc \in 1 .. 16
  <2>. HIDE DEF row, column
  <2>1. Len(program.code) = 16
    BY <1>1
  <2>. QED BY <2>1 DEF MemoryInv, Memory!Done
<1>3. Memory!Current = IF pc <= 8 THEN row(pc) ELSE column(pc)
  <2>. HIDE DEF row, column
  <2>. QED BY <1>1, <1>2 DEF Memory!Current
<1>4. /\ row(pc).op = "STV" /\ row(pc).e = 2 * (pc - 1)
      /\ Memory!Address(row(pc)) = base["to"] + (pc - 1) * Memory!Scale("STV")
      /\ column(pc).op = "LTV" /\ column(pc).e = (16 - 2 * (pc - 9)) % 16
      /\ Memory!Address(column(pc)) = base["to"] + (pc - 9) * Memory!Scale("LTV")
  BY CodeFacts
<1>5. Memory!Scale("STV") = 16 /\ Memory!Scale("LTV") = 16
  BY DEF Memory!Scale
<1>. HIDE DEF row, column
<1>6. /\ (pc - 1) * Memory!Scale("STV") = 16 * (pc - 1)
      /\ (pc - 9) * Memory!Scale("LTV") = 16 * (pc - 9)
  BY <1>2, <1>5
<1>7. CASE pc <= 8
  BY <1>2, <1>3, <1>4, <1>6, <1>7
<1>8. CASE pc > 8
  <2>1. ~(pc <= 8)
    BY <1>2, <1>8
  <2>. QED BY <1>2, <1>3, <1>4, <1>6, <2>1
<1>. QED BY <1>2, <1>7, <1>8

(* Rows at different lines of the 128 bytes do not meet.                   *)
LEMMA RowsApart ==
    ASSUME NEW a \in Int, NEW i \in 0 .. 7, NEW j \in 0 .. 7, NEW q \in 0 .. 15,
           NEW c \in 0 .. 15,
           Memory!At(a + (16 * i + q)) = Memory!At(a + (16 * j + c))
    PROVE  i = j
<1>. DEFINE x == a + (16 * i + q)
            y == a + (16 * j + c)
<1>1. x \in Int /\ y \in Int /\ x - y <= 127 /\ y - x <= 127
  OBVIOUS
<1>. HIDE DEF x, y
<1>2. x % MemorySize = y % MemorySize
  BY <1>1, MirrorFacts DEF x, y
<1>3. MemorySize \in Nat /\ MemorySize >= 128
  BY MemoryAssumption
<1>4. x - y < MemorySize /\ y - x < MemorySize
  BY <1>1, <1>3
<1>5. x = y
  BY <1>1, <1>2, <1>3, <1>4, Near
<1>. QED BY <1>5 DEF x, y

(* A row is stored beside those before it, and a column is loaded from all *)
(* eight rows.                                                             *)
LEMMA TransposeStep ==
    ASSUME MemoryInv, Memory!TypeOK, TransposeInv, Memory!Next
    PROVE  TransposeInv'
<1>1. pc' = pc + 1 /\ program' = program /\ base' = base
  BY MemoryAdvances, Zenon
<1>. SUFFICES ASSUME program \in Memory!Transposition, base["to"] % 16 = 0
              PROVE  /\ pc' <= 9 => vr' = InitVectors
                     /\ Rows'
                     /\ Columns'
  BY <1>1 DEF TransposeInv
<1>2. (pc <= 9 => vr = InitVectors) /\ Rows /\ Columns
  BY DEF TransposeInv
<1>3. /\ ~Memory!Done
      /\ Effects(Memory!Current, Memory!Address(Memory!Current))
  BY StepEffects, Zenon
<1>. DEFINE to == base["to"]
            i == Memory!Current
            a == Memory!Address(Memory!Current)
<1>4. /\ pc \in 1 .. 16
      /\ pc <= 8 => i.op = "STV" /\ i.e = 2 * (pc - 1) /\ a = to + 16 * (pc - 1)
      /\ pc > 8 => i.op = "LTV" /\ i.e = (16 - 2 * (pc - 9)) % 16 /\ a = to + 16 * (pc - 9)
  BY <1>3, TransposeCode
<1>5. to \in Int /\ to % 16 = 0
  BY CopyBases
<1>6. Effects(i, a)
  BY <1>3
<1>. HIDE DEF i, a, to
<1>7. CASE pc <= 8
  <2>. DEFINE r == pc - 1
              v == vr[i.vt]
              after == Memory!Stored("STV", v, 2 * r, a)
  <2>1. r \in 0 .. 7 /\ a \in Int /\ a % 16 = 0 /\ a = to + 16 * r
    BY <1>4, <1>5, <1>7
  <2>2. data' = after /\ vr' = vr
    <3>1. "STV" \in Memory!StoreOps
      BY DEF Memory!StoreOps
    <3>. QED BY <1>4, <1>6, <1>7, <3>1 DEF Effects
  <2>3. vr = InitVectors
    BY <1>2, <1>4, <1>7
  <2>. HIDE DEF v
  <2>4. /\ \A q \in 0 .. 15 :
               Memory!readByte(after, a + q) = vr[((q + 2 * r) % 16) \div 2][q]
        /\ \A x \in Int : (\A q \in 0 .. 15 : Memory!At(a + q) # Memory!At(x)) =>
               Memory!readByte(after, x) = Memory!readByte(data, x)
    BY <2>1, RowStored
  <2>. HIDE DEF after, r
  <2>5. ASSUME NEW j \in 0 .. 7, NEW q \in 0 .. 15, j < r + 1
        PROVE  Memory!readByte(after, to + (16 * j + q))
                 = InitVectors[((q + 2 * j) % 16) \div 2][q]
    <3>1. CASE j = r
      <4>1. a + q = to + (16 * j + q)
        BY <1>5, <2>1, <3>1
      <4>. QED BY <2>3, <2>4, <3>1, <4>1
    <3>2. CASE j < r
      <4>. DEFINE x == to + (16 * j + q)
      <4>1. ASSUME NEW c \in 0 .. 15
            PROVE  Memory!At(a + c) # Memory!At(x)
        <5>1. a + c = to + (16 * r + c) /\ r # j
          BY <1>5, <2>1, <3>2
        <5>2. Memory!At(to + (16 * r + c)) # Memory!At(to + (16 * j + q))
          BY ZenonT(60), <1>5, <2>1, <5>1, RowsApart
        <5>. QED BY <5>1, <5>2
      <4>2. x \in Int
        BY <1>5
      <4>. HIDE DEF x
      <4>3. Memory!readByte(after, x) = Memory!readByte(data, x)
        BY <2>4, <4>1, <4>2
      <4>4. Memory!readByte(data, x) = InitVectors[((q + 2 * j) % 16) \div 2][q]
        BY <1>2, <3>2 DEF Rows, x, r, to
      <4>. QED BY <4>3, <4>4 DEF x
    <3>3. j = r \/ j < r
      <4>1. r \in Int /\ j \in Int
        BY <2>1
      <4>. QED BY <2>5, <4>1
    <3>. QED BY <3>1, <3>2, <3>3
  <2>6. Rows'
    <3>1. pc' - 1 = r + 1
      BY <1>1, <1>4 DEF r
    <3>2. base'["to"] = to
      BY <1>1 DEF to
    <3>3. \A j \in 0 .. 7, q \in 0 .. 15 : j < pc' - 1 =>
              Memory!readByte(data', base'["to"] + (16 * j + q))
                = InitVectors[((q + 2 * j) % 16) \div 2][q]
      BY <2>2, <2>5, <3>1, <3>2
    <3>. QED BY <3>3 DEF Rows
  <2>7. Columns'
    <3>1. \A k \in 0 .. 7 : ~(k < pc' - 9)
      BY <1>1, <1>4, <1>7
    <3>. QED BY <3>1 DEF Columns
  <2>. QED BY <2>2, <2>3, <2>6, <2>7
<1>8. CASE pc > 8
  <2>. DEFINE r == pc - 9
  <2>1. r \in 0 .. 7 /\ a \in Int /\ a % 16 = 0 /\ a = to + 16 * r
    BY <1>4, <1>5, <1>8
  <2>2. data' = data /\ vr' = Memory!LTV(data, vr, (16 - 2 * r) % 16, a)
    BY <1>4, <1>6, <1>8 DEF Effects
  <2>3. vr \in [0 .. 7 -> Memory!Vector]
    BY DEF Memory!TypeOK
  <2>4. \A k \in 0 .. 7 :
            /\ vr'[k][2 * ((k + r) % 8)] = Memory!readByte(data, a + 2 * k)
            /\ vr'[k][2 * ((k + r) % 8) + 1] = Memory!readByte(data, a + (2 * k + 1))
            /\ \A c \in Memory!Bytes \ {2 * ((k + r) % 8), 2 * ((k + r) % 8) + 1} :
                   vr'[k][c] = vr[k][c]
    <3>. HIDE DEF r
    <3>1. TAKE k \in 0 .. 7
    <3>. DEFINE e == (16 - 2 * r) % 16
                t == (k + r) % 8
    <3>2. t \in 0 .. 7 /\ e \in 0 .. 15 /\ (e + 2 * t) % 16 = 2 * k
      BY <2>1
    <3>3. vr' = Memory!LTV(data, vr, e, a)
      BY <2>2
    <3>. HIDE DEF e, t
    <3>4. ColumnIn(Memory!LTV(data, vr, e, a)[k], vr[k], data, a, k, t)
      BY <2>1, <2>3, <3>2, ColumnLoaded
    <3>5. ColumnIn(vr'[k], vr[k], data, a, k, t)
      BY <3>3, <3>4
    <3>. QED BY <3>5 DEF ColumnIn, t
  <2>5. \A q \in 0 .. 15 : Memory!readByte(data, a + q)
                             = InitVectors[((q + 2 * r) % 16) \div 2][q]
    <3>1. r < pc - 1
      BY <1>4
    <3>. HIDE DEF r
    <3>2. \A q \in 0 .. 15 : a + q = to + (16 * r + q)
      BY <1>5, <2>1
    <3>. QED BY <1>2, <2>1, <3>1, <3>2 DEF Rows, to
  <2>. HIDE DEF r
  <2>6. ASSUME NEW j \in 0 .. 7, NEW k \in 0 .. 7, NEW b \in {0, 1}, j < r + 1
        PROVE  vr'[k][2 * ((k + j) % 8) + b] = InitVectors[(k + j) % 8][2 * k + b]
    <3>1. CASE j = r
      <4>1. /\ 2 * k + b \in 0 .. 15 /\ ((2 * k + b + 2 * r) % 16) \div 2 = (k + r) % 8
            /\ 2 * ((k + r) % 8) + 0 = 2 * ((k + r) % 8) /\ 2 * k + 0 = 2 * k
        BY <2>1
      <4>2. vr'[k][2 * ((k + r) % 8) + b] = Memory!readByte(data, a + (2 * k + b))
        <5>1. CASE b = 0
          BY <2>4, <4>1, <5>1
        <5>2. CASE b = 1
          BY <2>4, <5>2
        <5>. QED BY <5>1, <5>2
      <4>3. Memory!readByte(data, a + (2 * k + b))
              = InitVectors[(k + r) % 8][2 * k + b]
        BY <2>5, <4>1
      <4>. QED BY <3>1, <4>2, <4>3
    <3>2. CASE j < r
      <4>. DEFINE c == 2 * ((k + j) % 8) + b
      <4>1. c \in Memory!Bytes \ {2 * ((k + r) % 8), 2 * ((k + r) % 8) + 1}
        BY <2>1, <3>2 DEF Memory!Bytes
      <4>2. vr'[k][c] = vr[k][c]
        <5>. HIDE DEF c
        <5>. QED BY <2>4, <4>1
      <4>3. vr[k][c] = InitVectors[(k + j) % 8][2 * k + b]
        BY <1>2, <3>2 DEF Columns, r
      <4>. QED BY <4>2, <4>3
    <3>. QED BY <2>1, <2>6, <3>1, <3>2
  <2>7. Columns'
    BY <1>1, <1>4, <2>6 DEF Columns, r
  <2>8. Rows'
    <3>1. \A j \in 0 .. 7 : j < pc - 1
      BY <1>4, <1>8
    <3>. QED BY <1>1, <1>2, <2>2, <3>1 DEF Rows
  <2>9. ~(pc' <= 9)
    BY <1>1, <1>4, <1>8
  <2>. QED BY <2>7, <2>8, <2>9
<1>. QED BY <1>4, <1>7, <1>8

(* Where a program that copies or transposes is, and what it has done.     *)
ProgramInv ==
    /\ MemoryInv
    /\ Memory!TypeOK
    /\ PairInv
    /\ QuadInv
    /\ MoveInv
    /\ TransposeInv

(* Before the first instruction nothing is copied.                         *)
LEMMA ProgramStarts == VectorInit => ProgramInv
<1>. SUFFICES ASSUME VectorInit
              PROVE  ProgramInv
  OBVIOUS
<1>1. MemoryInv
  BY MemoryStarts
<1>2. Memory!Init
  BY Zenon DEF VectorInit
<1>3. Memory!TypeOK
  BY <1>2, TypesStart
<1>4. data = InitData /\ vr = InitVectors /\ pc = 1
  BY <1>2 DEF Memory!Init
<1>5. Arrived(0)
  BY <1>4 DEF Arrived
<1>6. PairInv
  BY <1>4, <1>5 DEF PairInv
<1>7. QuadInv
  BY <1>4, <1>5 DEF QuadInv
<1>8. MoveInv
  BY <1>4, <1>5 DEF MoveInv
<1>9. Rows /\ Columns
  BY <1>4 DEF Rows, Columns
<1>10. TransposeInv
  BY <1>4, <1>9 DEF TransposeInv
<1>. QED BY <1>1, <1>3, <1>6, <1>7, <1>8, <1>10 DEF ProgramInv

(* Every instruction keeps it, and the other parts of the unit change none *)
(* of the variables it is about.                                           *)
LEMMA ProgramStep == ProgramInv /\ [VectorNext]_vectorVars => ProgramInv'
<1>. SUFFICES ASSUME ProgramInv, [VectorNext]_vectorVars
              PROVE  ProgramInv'
  OBVIOUS
<1>1. MemoryInv /\ Memory!TypeOK /\ PairInv /\ QuadInv /\ MoveInv /\ TransposeInv
  BY DEF ProgramInv
<1>2. MemoryInv'
  BY <1>1, MemoryStep
<1>3. Memory!Next \/ UNCHANGED memoryVars
  BY Zenon DEF VectorNext, vectorVars
<1>4. CASE Memory!Next
  BY <1>1, <1>2, <1>4, TypesKept, PairStep, QuadStep, MoveStep, TransposeStep, Zenon
     DEF ProgramInv
<1>5. CASE UNCHANGED memoryVars
  <2>1. /\ data' = data /\ vr' = vr /\ program' = program /\ base' = base /\ rt' = rt
        /\ pc' = pc
    BY <1>5 DEF memoryVars
  <2>2. \A k : Arrived(k) => Arrived(k)'
    BY <2>1, ArrivedStays
  <2>3. Memory!TypeOK'
    BY <1>1, <2>1 DEF Memory!TypeOK
  <2>4. PairInv'
    BY <1>1, <2>1 DEF PairInv, Arrived, Memory!Place, Memory!Loaded
  <2>5. QuadInv'
    BY <1>1, <2>1 DEF QuadInv, Arrived, Filled, Memory!Place
  <2>6. MoveInv'
    BY <1>1, <2>1 DEF MoveInv, Arrived, First, Second, Memory!Place
  <2>7. TransposeInv'
    BY <1>1, <2>1 DEF TransposeInv, Rows, Columns
  <2>. QED BY <1>2, <2>3, <2>4, <2>5, <2>6, <2>7 DEF ProgramInv
<1>. QED BY <1>3, <1>4, <1>5

(* A program that copies has copied all its bytes when it is done.         *)
LEMMA CopiesDone == ProgramInv => Memory!CopiesExactly
<1>. SUFFICES ASSUME ProgramInv, Memory!Done, program.goal = "copy"
              PROVE  Memory!CopiesExactly
  BY DEF Memory!CopiesExactly
<1>1. MemoryInv /\ PairInv /\ QuadInv /\ MoveInv
  BY DEF ProgramInv
<1>2. program \in Memory!Copies
  BY <1>1, ProgramsAssumption DEF MemoryInv
<1>3. pc \in Nat /\ pc > Len(program.code)
  BY <1>1 DEF MemoryInv, Memory!Done
<1>4. CASE program \in Memory!Quad
  <2>1. Len(program.code) = 4 /\ program.items = 16
    BY <1>4 DEF Memory!Quad, Memory!Copy
  <2>2. pc > 4
    BY <1>3, <2>1
  <2>3. Arrived(16)
    BY <1>1, <1>4, <2>2 DEF QuadInv
  <2>4. Arrived(program.items)
    BY <2>1, <2>3
  <2>. QED BY <1>1, <1>2, <2>4, CopyBases, ArrivedExactly
<1>5. CASE program \in Memory!Runs \cup Memory!Packed
  <2>1. Len(program.code) = 2
    <3>1. data \in Memory!Data
      BY DEF ProgramInv, Memory!TypeOK
    <3>2. PICK l, s, e, f : program.code = <<Memory!From(l, e, 0), Memory!To(s, f, 0)>>
      BY <1>1, <1>5, <3>1, CopyBases, PairFits, Zenon
    <3>. QED BY <3>2
  <2>2. pc > 2
    BY <1>3, <2>1
  <2>3. Arrived(program.items)
    BY <1>1, <1>5, <2>2 DEF PairInv
  <2>. QED BY <1>1, <1>2, <2>3, CopyBases, ArrivedExactly
<1>6. CASE program \in Memory!Moves
  <2>1. PICK e \in 0 .. 14 : program = MoveOf(e)
    BY <1>6, MoveShape, Zenon DEF MoveOf
  <2>2. Len(program.code) = 4 /\ program.items = 2
    BY <2>1 DEF MoveOf, Memory!Copy
  <2>3. pc > 4
    BY <1>3, <2>2
  <2>4. Arrived(2)
    BY <1>1, <2>1, <2>3 DEF MoveInv
  <2>5. Arrived(program.items)
    BY <2>2, <2>4
  <2>. QED BY <1>1, <1>2, <2>5, CopyBases, ArrivedExactly
<1>. QED BY <1>2, <1>4, <1>5, <1>6 DEF Memory!Copies

(* And one that transposes has turned the matrix.                          *)
LEMMA TransposesDone == ProgramInv => Memory!Transposes
<1>. SUFFICES ASSUME ProgramInv, Memory!Done, program.goal = "transpose",
                     Memory!inLine(base["to"]) = 0
              PROVE  \A k, i \in 0 .. 7 :
                         Memory!element(vr[k], i) = Memory!element(InitVectors[i], k)
  BY DEF Memory!Transposes
<1>1. MemoryInv /\ TransposeInv
  BY DEF ProgramInv
<1>2. program \in Memory!Transposition
  BY <1>1, ProgramsAssumption DEF MemoryInv
<1>3. Columns
  BY <1>1, <1>2 DEF TransposeInv, Memory!inLine
<1>4. pc \in Nat /\ pc > 16
  <2>1. program.code = [k \in 1 .. 16 |->
            IF k <= 8 THEN Memory!To("STV", 2 * (k - 1), k - 1)
            ELSE Memory!To("LTV", (16 - 2 * (k - 9)) % 16, k - 9)]
    BY <1>2 DEF Memory!Transposition
  <2>2. Len(program.code) = 16
    BY <2>1
  <2>. QED BY <1>1, <2>2 DEF MemoryInv, Memory!Done
<1>5. ASSUME NEW k \in 0 .. 7, NEW i \in 0 .. 7, NEW b \in {0, 1}
      PROVE  vr[k][2 * i + b] = InitVectors[i][2 * k + b]
  <2>. DEFINE r == (i - k) % 8
  <2>1. r \in 0 .. 7 /\ (k + r) % 8 = i
    OBVIOUS
  <2>. HIDE DEF r
  <2>2. r < pc - 9
    BY <1>4, <2>1
  <2>3. vr[k][2 * ((k + r) % 8) + b] = InitVectors[(k + r) % 8][2 * k + b]
    BY <1>3, <2>1, <2>2 DEF Columns
  <2>. QED BY <2>1, <2>3
<1>6. ASSUME NEW k \in 0 .. 7, NEW i \in 0 .. 7
      PROVE  Memory!element(vr[k], i) = Memory!element(InitVectors[i], k)
  <2>1. vr[k][2 * i + 0] = InitVectors[i][2 * k + 0]
    BY <1>5
  <2>2. vr[k][2 * i + 1] = InitVectors[i][2 * k + 1]
    BY <1>5
  <2>3. 2 * i + 0 = 2 * i /\ 2 * k + 0 = 2 * k
    OBVIOUS
  <2>. QED BY <2>1, <2>2, <2>3 DEF Memory!element
<1>. QED BY <1>6

(* Every program that copies moves exactly the bytes that it names, to the *)
(* place that it names, at any pair of addresses in any memory; one that   *)
(* transposes does that to any matrix at a quadword (interpreter-vpu.cpp,  *)
(* LBV .. LTV and SBV .. STV).                                             *)
THEOREM MovesExact == VectorSpec => []MovesExactly
<1>1. ProgramInv => MovesExactly
  <2>1. ProgramInv => Memory!TypeOK
    BY DEF ProgramInv
  <2>. QED BY <2>1, CopiesDone, TransposesDone DEF MovesExactly, Memory!MovesExactly
<1>2. QED
  BY <1>1, ProgramStarts, ProgramStep, PTL DEF VectorSpec

-----------------------------------------------------------------------------
(* The sequences of scalar instructions (ScalarUnit).  First: bitwise      *)
(* operators, and numbers made of two words.                               *)

(* What a bitwise operator makes of a number and itself.                   *)
LEMMA BitwiseSame ==
    ASSUME NEW table \in Tables, NEW g, Bitwise(g, table), NEW n \in Nat, table[0][0] = 0
    PROVE  \A p \in Below(n) : g[n][p][p] = IF table[1][1] = 0 THEN 0 ELSE p
<1>. DEFINE T == {m \in Nat : \A p \in Below(m) : g[m][p][p] = IF table[1][1] = 0 THEN 0 ELSE p}
<1>0. table[1][1] \in {0, 1}
  BY DEF Tables
<1>1. 0 \in T
  <2>1. \A p \in Below(0) : p = 0
      BY PowerFacts DEF Below
  <2>2. g[0][0][0] = 0
      BY DEF Bitwise
  <2>. QED BY <2>1, <2>2
<1>2. ASSUME NEW m \in Nat, m \in T
      PROVE  m + 1 \in T
  <2>1. ASSUME NEW p \in Below(m + 1)
        PROVE  g[m + 1][p][p] = IF table[1][1] = 0 THEN 0 ELSE p
      <3>1. g[m][Rest(p, m)][Rest(p, m)] = IF table[1][1] = 0 THEN 0 ELSE Rest(p, m)
          BY <1>2, Split
      <3>2. g[m + 1][p][p] = Weight(table[Top(p, m)][Top(p, m)], m) + g[m][Rest(p, m)][Rest(p, m)]
          BY BitwiseStep, Zenon
      <3>3. /\ Rest(p, m) \in Nat /\ Power[m] \in Nat
            /\ p = Rest(p, m) + (IF Top(p, m) = 0 THEN 0 ELSE Power[m])
          BY Split, PowerFacts
      <3>4. CASE Top(p, m) = 0
          BY <3>1, <3>2, <3>3, <3>4 DEF Weight
      <3>5. CASE Top(p, m) = 1
          BY <1>0, <3>1, <3>2, <3>3, <3>5 DEF Weight
      <3>. QED BY <3>4, <3>5, Split
  <2>. QED BY <2>1
<1>3. n \in T
  <2>. HIDE DEF T
  <2>. QED BY <1>1, <1>2, SetInduction
<1>. QED BY <1>3

(* The operator that adds bits undoes itself.                              *)
LEMMA BitwiseUndone ==
    ASSUME NEW g, Bitwise(g, Sums), NEW n \in Nat
    PROVE  \A p, q \in Below(n) : g[n][p][q] \in Below(n) /\ g[n][g[n][p][q]][q] = p
<1>. DEFINE T == {m \in Nat : \A p, q \in Below(m) : g[m][g[m][p][q]][q] = p}
<1>0. \A m \in Nat : \A p, q \in Below(m) : g[m][p][q] \in Below(m)
  BY BitwiseRange, TableFacts, Zenon
<1>1. 0 \in T
  <2>1. \A p \in Below(0) : p = 0
      BY PowerFacts DEF Below
  <2>2. g[0][0][0] = 0
      BY DEF Bitwise
  <2>. QED BY <2>1, <2>2
<1>2. ASSUME NEW m \in Nat, m \in T
      PROVE  m + 1 \in T
  <2>1. ASSUME NEW p \in Below(m + 1), NEW q \in Below(m + 1)
        PROVE  g[m + 1][g[m + 1][p][q]][q] = p
      <3>. DEFINE z == g[m + 1][p][q]
                  rest == g[m][Rest(p, m)][Rest(q, m)]
                  bit == Sums[Top(p, m)][Top(q, m)]
      <3>1. z \in Below(m + 1)
          <4>1. m + 1 \in Nat
              OBVIOUS
          <4>. QED BY <1>0, <4>1, Zenon
      <3>2. bit \in {0, 1} /\ z = Weight(bit, m) + rest
          BY BitwiseStep, TableFacts, ZenonT(60)
      <3>3. rest \in Below(m) /\ g[m][rest][Rest(q, m)] = Rest(p, m)
          BY <1>0, <1>2, Split
      <3>. HIDE DEF rest, bit
      <3>4. Top(z, m) = bit /\ Rest(z, m) = rest
          <4>. HIDE DEF z
          <4>. QED BY <3>2, <3>3, PowerFacts DEF Top, Rest, Below, Weight
      <3>5. g[m + 1][z][q] = Weight(Sums[Top(z, m)][Top(q, m)], m) + g[m][Rest(z, m)][Rest(q, m)]
          <4>. HIDE DEF z
          <4>. QED BY <3>1, BitwiseStep, TableFacts, ZenonT(60)
      <3>6. Sums[bit][Top(q, m)] = Top(p, m)
          <4>1. Top(p, m) \in {0, 1} /\ Top(q, m) \in {0, 1}
              BY Split
          <4>. QED BY <4>1, TableFacts DEF bit
      <3>. HIDE DEF z
      <3>7. g[m + 1][z][q] = Weight(Top(p, m), m) + Rest(p, m)
          BY <3>3, <3>4, <3>5, <3>6
      <3>8. /\ Rest(p, m) \in Nat /\ Power[m] \in Nat
            /\ p = Rest(p, m) + (IF Top(p, m) = 0 THEN 0 ELSE Power[m])
          BY Split, PowerFacts
      <3>9. g[m + 1][z][q] = p
          BY <3>7, <3>8 DEF Weight
      <3>. QED BY <3>9 DEF z
  <2>. HIDE DEF T
  <2>2. m + 1 \in Nat
      OBVIOUS
  <2>. QED BY <2>1, <2>2 DEF T
<1>3. n \in T
  <2>. HIDE DEF T
  <2>. QED BY <1>1, <1>2, SetInduction
<1>. QED BY <1>0, <1>3

(* A multiple of the divisor does not change the remainder.                *)
LEMMA RemainderShift ==
    ASSUME NEW n \in Int, NEW k \in Int, NEW d \in Nat, d >= 1
    PROVE  (n + k * d) % d = n % d /\ (n + k * d) \div d = n \div d + k
<1>1. n \div d \in Int /\ n % d \in 0 .. d - 1 /\ n = (n \div d) * d + (n % d)
  BY DivMod
<1>. DEFINE q == n \div d
            m == n % d
<1>. HIDE DEF q, m
<1>2. q \in Int /\ m \in 0 .. d - 1 /\ n = q * d + m
  BY <1>1 DEF q, m
<1>3. n + k * d = (q + k) * d + m /\ q + k \in Int /\ n + k * d \in Int
  BY <1>2
<1>4. (n + k * d) \div d = q + k /\ (n + k * d) % d = m
  <2>. DEFINE s == n + k * d
              t == q + k
  <2>1. s \in Int /\ t \in Int /\ s = t * d + m
      BY <1>3
  <2>. HIDE DEF s, t
  <2>2. s \div d = t /\ s % d = m
      BY <1>2, <2>1, DivModUnique
  <2>. QED BY <2>2 DEF s, t
<1>. QED BY <1>4 DEF q, m

(* A power is a multiple of every lower one.                               *)
LEMMA PowerMultiple ==
    ASSUME NEW k \in Nat, NEW m \in Nat, k <= m
    PROVE  \E c \in Nat : c >= 1 /\ Power[m] = c * Power[k] /\ c = Power[m - k]
<1>1. PICK d \in Nat : m = k + d
  <2>1. m - k \in Nat /\ m = k + (m - k)
      OBVIOUS
  <2>. QED BY <2>1
<1>2. Power[k + d] = Power[k] * Power[d]
  BY PowerSum
<1>3. Power[k] \in Nat /\ Power[d] \in Nat /\ Power[d] >= 1
  BY PowerFacts
<1>4. Power[m] = Power[d] * Power[k] /\ d = m - k
  BY <1>1, <1>2, <1>3
<1>. QED BY <1>3, <1>4

(* A number below the divisor is its remainder.                            *)
LEMMA SmallRemainder ==
    ASSUME NEW n \in Nat, NEW d \in Nat, n < d
    PROVE  n % d = n /\ n \div d = 0
<1>1. d >= 1 /\ n \in 0 .. d - 1 /\ n = 0 * d + n
  OBVIOUS
<1>. QED BY <1>1, DivModUnique

(* The top bit and the rest of a number, below a power that divides them.  *)
LEMMA LowBits ==
    ASSUME NEW k \in Nat, NEW n \in Nat, k <= n, NEW p \in Below(n + 1)
    PROVE  Rest(p, n) % Power[k] = p % Power[k]
<1>1. PICK c \in Nat : c >= 1 /\ Power[n] = c * Power[k]
  BY PowerMultiple
<1>2. /\ Rest(p, n) \in Nat
      /\ p = Rest(p, n) + (IF Top(p, n) = 0 THEN 0 ELSE Power[n])
      /\ Power[k] \in Nat /\ Power[k] >= 1 /\ p \in Nat
  BY Split, PowerFacts
<1>3. (Rest(p, n) + c * Power[k]) % Power[k] = Rest(p, n) % Power[k]
  <2>1. Rest(p, n) \in Int /\ c \in Int
      BY <1>2
  <2>. QED BY <1>2, <2>1, RemainderShift, Zenon
<1>4. CASE Top(p, n) = 0
  BY <1>2, <1>4
<1>5. CASE Top(p, n) # 0
  BY <1>1, <1>2, <1>3, <1>5
<1>. QED BY <1>4, <1>5

(* A number with only high bits and one with only low bits are joined by   *)
(* adding them.                                                            *)
LEMMA JoinsDisjoint ==
    ASSUME NEW g, Bitwise(g, Joins), NEW k \in Nat, NEW d \in Nat
    PROVE  \A p \in Below(k + d), q \in Below(k) :
              p % Power[k] = 0 => q \in Below(k + d) /\ g[k + d][q][p] = q + p
<1>0. \A n \in Nat : \A p, q \in Below(n + 1) :
          g[n + 1][p][q] = Weight(Joins[Top(p, n)][Top(q, n)], n) + g[n][Rest(p, n)][Rest(q, n)]
  <2>1. Joins \in Tables
      BY TableFacts
  <2>2. ASSUME NEW n \in Nat, NEW p \in Below(n + 1), NEW q \in Below(n + 1)
        PROVE  g[n + 1][p][q]
                   = Weight(Joins[Top(p, n)][Top(q, n)], n) + g[n][Rest(p, n)][Rest(q, n)]
      BY <2>1, BitwiseStep
  <2>. QED BY <2>2
<1>. DEFINE T == {m \in Nat : \A p \in Below(k + m), q \in Below(k) :
                     p % Power[k] = 0 => q \in Below(k + m) /\ g[k + m][q][p] = q + p}
<1>1. 0 \in T
  <2>1. ASSUME NEW p \in Below(k), NEW q \in Below(k), p % Power[k] = 0
        PROVE  g[k][q][p] = q + p
      <3>1. p = 0
          BY <2>1, PowerFacts DEF Below
      <3>2. g[k][q][All(0, k)] = q
          BY BitwiseMask, TableFacts
      <3>3. All(0, k) = 0 /\ q \in Nat
          BY PowerFacts DEF All, Below
      <3>. QED BY <3>1, <3>2, <3>3
  <2>2. k + 0 = k
      OBVIOUS
  <2>. QED BY <2>1, <2>2
<1>2. ASSUME NEW m \in Nat, m \in T
      PROVE  m + 1 \in T
  <2>. PICK n \in Nat : n = k + m
      OBVIOUS
  <2>0. k + (m + 1) = n + 1 /\ k <= n /\ m + 1 \in Nat
      OBVIOUS
  <2>1. ASSUME NEW p \in Below(n + 1), NEW q \in Below(k), p % Power[k] = 0
        PROVE  q \in Below(n + 1) /\ g[n + 1][q][p] = q + p
      <3>1. Rest(p, n) \in Below(n) /\ Rest(p, n) % Power[k] = 0
          BY <2>0, <2>1, LowBits, Split
      <3>2. q \in Below(n) /\ g[n][q][Rest(p, n)] = q + Rest(p, n)
          BY <1>2, <3>1
      <3>3. q \in Below(n + 1) /\ Top(q, n) = 0 /\ Rest(q, n) = q /\ q \in Nat
          BY <2>0, <3>2, PowerFacts DEF Below, Top, Rest
      <3>4. g[n + 1][q][p] = Weight(Joins[Top(q, n)][Top(p, n)], n) + g[n][Rest(q, n)][Rest(p, n)]
          BY <1>0, <3>3
      <3>5. Top(p, n) \in {0, 1}
          BY <2>0, Split
      <3>6. Joins[0][Top(p, n)] = Top(p, n)
          BY <3>5, TableFacts
      <3>7. g[n + 1][q][p] = Weight(Top(p, n), n) + (q + Rest(p, n))
          BY <3>2, <3>3, <3>4, <3>6
      <3>8. /\ Rest(p, n) \in Nat /\ Power[n] \in Nat
            /\ p = Rest(p, n) + (IF Top(p, n) = 0 THEN 0 ELSE Power[n])
          BY <2>0, Split, PowerFacts
      <3>9. g[n + 1][q][p] = q + p
          BY <3>3, <3>5, <3>7, <3>8 DEF Weight
      <3>. QED BY <3>3, <3>9
  <2>. QED BY <2>0, <2>1
<1>3. d \in T
  <2>. HIDE DEF T
  <2>. QED BY <1>1, <1>2, SetInduction
<1>. QED BY <1>3

(* The bits that a number shares with its low bits are the low bits.       *)
LEMMA ProductsLow ==
    ASSUME NEW g, Bitwise(g, Products), NEW k \in Nat, NEW d \in Nat
    PROVE  \A p \in Below(k + d) : g[k + d][p][p % Power[k]] = p % Power[k]
<1>0. \A n \in Nat : \A p, q \in Below(n + 1) :
          g[n + 1][p][q] = Weight(Products[Top(p, n)][Top(q, n)], n) + g[n][Rest(p, n)][Rest(q, n)]
  <2>1. Products \in Tables
      BY TableFacts
  <2>2. ASSUME NEW n \in Nat, NEW p \in Below(n + 1), NEW q \in Below(n + 1)
        PROVE  g[n + 1][p][q]
                   = Weight(Products[Top(p, n)][Top(q, n)], n) + g[n][Rest(p, n)][Rest(q, n)]
      BY <2>1, BitwiseStep
  <2>. QED BY <2>2
<1>. DEFINE T == {m \in Nat : \A p \in Below(k + m) :
                     g[k + m][p][p % Power[k]] = p % Power[k]}
<1>1. 0 \in T
  <2>1. ASSUME NEW p \in Below(k)
        PROVE  g[k][p][p % Power[k]] = p % Power[k]
      <3>1. p % Power[k] = p
          <4>1. p \in Nat /\ p < Power[k] /\ Power[k] \in Nat /\ Power[k] >= 1
              BY PowerFacts DEF Below
          <4>. QED BY <4>1, SmallRemainder
      <3>2. g[k][p][p] = p
          BY BitwiseSame, TableFacts
      <3>. QED BY <3>1, <3>2
  <2>2. k + 0 = k
      OBVIOUS
  <2>. QED BY <2>1, <2>2
<1>2. ASSUME NEW m \in Nat, m \in T
      PROVE  m + 1 \in T
  <2>. PICK n \in Nat : n = k + m
      OBVIOUS
  <2>0. k + (m + 1) = n + 1 /\ k <= n /\ m + 1 \in Nat
      OBVIOUS
  <2>1. ASSUME NEW p \in Below(n + 1)
        PROVE  g[n + 1][p][p % Power[k]] = p % Power[k]
      <3>. DEFINE q == p % Power[k]
      <3>1. Rest(p, n) \in Below(n) /\ Rest(p, n) % Power[k] = q
          BY <2>0, LowBits, Split
      <3>2. g[n][Rest(p, n)][q] = q
          BY <1>2, <3>1
      <3>3. q \in Below(k)
          BY <2>0, PowerFacts, Split DEF Below
      <3>4. Power[k] <= Power[n]
          <4>1. PICK c \in Nat : c >= 1 /\ Power[n] = c * Power[k]
              BY <2>0, PowerMultiple
          <4>2. Power[k] \in Nat
              BY PowerFacts
          <4>. QED BY <4>1, <4>2, Multiples, PowerFacts
      <3>. HIDE DEF q
      <3>5. q \in Below(n + 1) /\ Top(q, n) = 0 /\ Rest(q, n) = q /\ q \in Nat
          BY <2>0, <3>3, <3>4, PowerFacts DEF Below, Top, Rest
      <3>6. g[n + 1][p][q] = Weight(Products[Top(p, n)][Top(q, n)], n) + g[n][Rest(p, n)][Rest(q, n)]
          BY <1>0, <3>5
      <3>7. Top(p, n) \in {0, 1}
          BY <2>0, Split
      <3>8. Products[Top(p, n)][0] = 0
          BY <3>7, TableFacts
      <3>9. g[n + 1][p][q] = q
          BY <3>2, <3>5, <3>6, <3>8 DEF Weight
      <3>. QED BY <3>9 DEF q
  <2>. QED BY <2>0, <2>1
<1>3. d \in T
  <2>. HIDE DEF T
  <2>. QED BY <1>1, <1>2, SetInduction
<1>. QED BY <1>3

(* The laws that the sequences of scalar instructions rely on.             *)
LEMMA SameFacts ==
    ASSUME NEW p \in Number
    PROVE  And(p, p) = p /\ Or(p, p) = p /\ Xor(p, p) = 0
<1>1. And(p, p) = p
  <2>1. PICK g : Bitwise(g, Products) /\ Both = g[Bits]
      BY Operators
  <2>. QED BY <2>1, BitwiseSame, TableFacts, Frame DEF And
<1>2. Or(p, p) = p
  <2>1. PICK g : Bitwise(g, Joins) /\ Either = g[Bits]
      BY Operators
  <2>. QED BY <2>1, BitwiseSame, TableFacts, Frame DEF Or
<1>3. Xor(p, p) = 0
  <2>1. PICK g : Bitwise(g, Sums) /\ Different = g[Bits]
      BY Operators
  <2>. QED BY <2>1, BitwiseSame, TableFacts, Frame DEF Xor
<1>. QED BY <1>1, <1>2, <1>3

(* A mask applied twice is undone.                                         *)
LEMMA XorUndone ==
    ASSUME NEW p \in Number, NEW q \in Number
    PROVE  Xor(Xor(p, q), q) = p /\ (Xor(p, q) = 0 <=> p = q)
<1>1. Xor(Xor(p, q), q) = p
  <2>1. PICK g : Bitwise(g, Sums) /\ Different = g[Bits]
      BY Operators
  <2>. QED BY <2>1, BitwiseUndone, Frame DEF Xor
<1>2. Xor(0, q) = q /\ Xor(p, p) = 0
  BY XorFacts, SameFacts
<1>. QED BY <1>1, <1>2

(* A number with only high bits and one with only low bits are joined by   *)
(* OR.                                                                     *)
LEMMA OrDisjoint ==
    ASSUME NEW k \in 0 .. Bits, NEW p \in Number, NEW q \in Number,
           p % Power[k] = 0, q < Power[k]
    PROVE  Or(p, q) = p + q /\ Or(q, p) = p + q
<1>1. PICK g : Bitwise(g, Joins) /\ Either = g[Bits]
  BY Operators
<1>2. PICK d \in Nat : Bits = k + d
  <2>1. Bits - k \in Nat /\ Bits = k + (Bits - k) /\ k \in Nat
      BY BitsAssumption
  <2>. QED BY <2>1
<1>3. k \in Nat /\ q \in Below(k) /\ p \in Below(k + d)
  BY <1>2, Frame, PowerFacts DEF Below, Number
<1>4. g[k + d][q][p] = q + p
  BY <1>1, <1>3, JoinsDisjoint
<1>5. Or(q, p) = q + p /\ q \in Nat /\ p \in Nat
  BY <1>1, <1>2, <1>4 DEF Or, Number
<1>. QED BY <1>5, OrFacts

(* AND with the low bits of a number takes them out of it.                 *)
LEMMA AndLow ==
    ASSUME NEW k \in 0 .. Bits, NEW p \in Number
    PROVE  And(p, p % Power[k]) = p % Power[k]
<1>1. PICK g : Bitwise(g, Products) /\ Both = g[Bits]
  BY Operators
<1>2. PICK d \in Nat : Bits = k + d
  <2>1. Bits - k \in Nat /\ Bits = k + (Bits - k) /\ k \in Nat
      BY BitsAssumption
  <2>. QED BY <2>1
<1>3. k \in Nat /\ p \in Below(k + d)
  BY <1>2, Frame DEF Below, Number
<1>4. g[k + d][p][p % Power[k]] = p % Power[k]
  BY <1>1, <1>3, ProductsLow
<1>. QED BY <1>1, <1>2, <1>4 DEF And

(* A number of two words, by its words.                                    *)
LEMMA WideUnique ==
    ASSUME NEW k \in Int, NEW hi \in Number, NEW lo \in Number
    PROVE  ((k * W + hi) * W + lo) % (W * W) = hi * W + lo
<1>1. W \in Nat /\ W >= 4 /\ hi \in Nat /\ lo \in Nat /\ hi <= W - 1 /\ lo <= W - 1
  BY WidthFacts DEF Number
<1>. DEFINE d == W * W
            q == k * d
            m == hi * W
<1>2. (k * W + hi) * W = q + m /\ d \in Nat /\ q \in Int /\ m \in Nat
  BY SMT, <1>1
<1>3. m <= d - W /\ d >= 1
  <2>1. hi * W <= (W - 1) * W
      BY SMT, <1>1
  <2>2. (W - 1) * W = d - W
      BY SMT, <1>1
  <2>3. 4 * W <= d
      BY SMT, <1>1
  <2>. QED BY <1>1, <2>1, <2>2, <2>3
<1>. HIDE DEF m
<1>4. m + lo \in 0 .. d - 1
  <2>. HIDE DEF d
  <2>. QED BY <1>1, <1>2, <1>3
<1>5. (q + (m + lo)) % d = m + lo
  <2>1. q + (m + lo) \in Int /\ q + (m + lo) = k * d + (m + lo)
      <3>. HIDE DEF d
      <3>. QED BY <1>1, <1>2
  <2>. HIDE DEF d, q
  <2>. QED BY <1>2, <1>3, <1>4, <2>1, DivModUnique
<1>6. (k * W + hi) * W + lo = q + (m + lo)
  <2>1. q \in Int /\ m \in Int /\ lo \in Int /\ (k * W + hi) * W = q + m
      BY <1>1, <1>2
  <2>. HIDE DEF q, d
  <2>. QED BY <2>1
<1>. QED BY <1>5, <1>6 DEF d, m

(* The signed reading of a word differs from it by a multiple of W.        *)
LEMMA SignedMultiple ==
    ASSUME NEW n \in Number
    PROVE  \E i \in {0, 1} : S(n) = n - i * W
<1>1. n \in Nat /\ W \in Nat
  BY WidthFacts DEF Number
<1>2. CASE n < Lowest
  <2>1. S(n) = n - 0 * W
      BY <1>1, <1>2 DEF S
  <2>. QED BY <2>1
<1>3. CASE ~(n < Lowest)
  <2>1. S(n) = n - 1 * W
      BY <1>1, <1>3 DEF S
  <2>. QED BY <2>1
<1>. QED BY <1>2, <1>3

(* A sum of words, with the carry that their lower words leave.            *)
LEMMA SumIsJoined ==
    ASSUME NEW X \in Number, NEW x \in Number, NEW Y \in Number, NEW y \in Number,
           NEW c \in {0, 1}, c = 1 <=> U(x + y) < y
    PROVE  U(U(X + Y) + c) * W + U(x + y) = ((S(X) * W + x) + (S(Y) * W + y)) % (W * W)
<1>1. W \in Nat /\ W >= 4 /\ X \in Nat /\ x \in Nat /\ Y \in Nat /\ y \in Nat
      /\ X < W /\ x < W /\ Y < W /\ y < W
  BY WidthFacts DEF Number
<1>2. x + y = U(x + y) + c * W /\ U(x + y) \in Number
  <2>1. /\ U(x + y) = IF x + y < W THEN x + y ELSE x + y - W
        /\ U(x + y) \in Number
      BY <1>1, UCases
  <2>. QED BY <1>1, <2>1
<1>3. PICK i \in {0, 1} : S(X) = X - i * W
  BY SignedMultiple
<1>4. PICK j \in {0, 1} : S(Y) = Y - j * W
  BY SignedMultiple
<1>. DEFINE n == X + Y + c
            q == n \div W
            hi == n % W
<1>5. n \in Int /\ q \in Int /\ hi \in Number /\ n = q * W + hi
  <2>1. n \in Int /\ W \in Nat /\ W >= 1
      BY <1>1
  <2>. HIDE DEF n
  <2>2. q \in Int /\ hi \in 0 .. W - 1 /\ n = q * W + hi
      BY <2>1, DivMod, Zenon
  <2>. HIDE DEF q, hi
  <2>. QED BY <2>1, <2>2 DEF Number
<1>6. U(U(X + Y) + c) = hi
  <2>1. X + Y \in Int /\ c \in Int
      BY <1>1
  <2>2. U(U(X + Y) + c) = U(X + Y + c)
      BY <2>1, USum
  <2>. QED BY <2>2 DEF U
<1>. DEFINE k == q - i - j
            lo == U(x + y)
<1>7. k \in Int /\ ((k * W + hi) * W + lo) % (W * W) = hi * W + lo
  <2>1. k \in Int
      <3>. HIDE DEF q
      <3>. QED BY <1>5
  <2>. HIDE DEF k, hi, lo
  <2>. QED BY <1>2, <1>5, <2>1, WideUnique DEF lo
<1>8. S(X) + S(Y) = (k * W + hi) - c
  <2>. HIDE DEF q, hi
  <2>1. k * W = q * W - i * W - j * W
      BY SMT, <1>1, <1>5
  <2>. DEFINE qW == q * W
              iW == i * W
              jW == j * W
  <2>2. qW \in Int /\ iW \in Int /\ jW \in Int /\ hi \in Int
      BY <1>1, <1>5 DEF Number
  <2>3. X + Y + c = qW + hi /\ S(X) = X - iW /\ S(Y) = Y - jW /\ k * W = qW - iW - jW
      BY <1>3, <1>4, <1>5, <2>1
  <2>. HIDE DEF qW, iW, jW, k
  <2>. QED BY <1>1, <2>2, <2>3
<1>9. (S(X) * W + x) + (S(Y) * W + y) = (k * W + hi) * W + lo
  <2>1. k * W + hi \in Int
      <3>. HIDE DEF k, hi
      <3>. QED BY <1>1, <1>5, <1>7 DEF Number
  <2>2. PICK m \in Int : m = k * W + hi
      BY <2>1
  <2>3. S(X) \in Int /\ S(Y) \in Int /\ S(X) + S(Y) = m - c
      <3>1. S(X) \in Int /\ S(Y) \in Int
          BY SFacts
      <3>. HIDE DEF k, hi
      <3>2. S(X) + S(Y) = m - c
          BY <1>8, <2>2, Zenon
      <3>. QED BY <3>1, <3>2
  <2>. HIDE DEF k, hi
  <2>4. (S(X) + S(Y)) * W = S(X) * W + S(Y) * W /\ (m - c) * W = m * W - c * W
        /\ S(X) * W \in Int /\ S(Y) * W \in Int /\ m * W \in Int /\ c * W \in Int
      BY SMT, <1>1, <2>3
  <2>5. S(X) * W + S(Y) * W = m * W - c * W
      BY <2>3, <2>4
  <2>. DEFINE SX == S(X) * W
              SY == S(Y) * W
              mW == m * W
              cW == c * W
  <2>6. SX \in Int /\ SY \in Int /\ mW \in Int /\ cW \in Int /\ SX + SY = mW - cW
        /\ x + y = lo + cW /\ lo \in Int
      BY <1>1, <1>2, <2>4, <2>5 DEF Number
  <2>. HIDE DEF SX, SY, mW, cW, lo
  <2>7. (SX + x) + (SY + y) = mW + lo
      BY <1>1, <2>6
  <2>. QED BY <2>2, <2>7 DEF SX, SY, mW
<1>. QED BY <1>6, <1>7, <1>9

(* A difference of words, with the borrow of their lower words.            *)
LEMMA DifferenceIsJoined ==
    ASSUME NEW X \in Number, NEW x \in Number, NEW Y \in Number, NEW y \in Number,
           NEW c \in {0, 1}, c = 1 <=> x < y
    PROVE  U(U(X - Y) - c) * W + U(x - y) = ((S(X) * W + x) - (S(Y) * W + y)) % (W * W)
<1>1. W \in Nat /\ W >= 4 /\ X \in Nat /\ x \in Nat /\ Y \in Nat /\ y \in Nat
      /\ X < W /\ x < W /\ Y < W /\ y < W
  BY WidthFacts DEF Number
<1>2. x - y = U(x - y) - c * W /\ U(x - y) \in Number
  <2>1. /\ U(x - y) = IF x - y < 0 THEN (x - y) + W ELSE x - y
        /\ U(x - y) \in Number
      BY <1>1, UCases
  <2>. QED BY <1>1, <2>1
<1>3. PICK i \in {0, 1} : S(X) = X - i * W
  BY SignedMultiple
<1>4. PICK j \in {0, 1} : S(Y) = Y - j * W
  BY SignedMultiple
<1>. DEFINE n == (X - Y) - c
            q == n \div W
            hi == n % W
<1>5. n \in Int /\ q \in Int /\ hi \in Number /\ n = q * W + hi
  <2>1. n \in Int /\ W \in Nat /\ W >= 1
      BY <1>1
  <2>. HIDE DEF n
  <2>2. q \in Int /\ hi \in 0 .. W - 1 /\ n = q * W + hi
      BY <2>1, DivMod, Zenon
  <2>. HIDE DEF q, hi
  <2>. QED BY <2>1, <2>2 DEF Number
<1>6. U(U(X - Y) - c) = hi
  <2>1. X - Y \in Int /\ c \in Int
      BY <1>1
  <2>2. U(U(X - Y) - c) = U((X - Y) - c)
    <3>1. U(U(X - Y) + (-c)) = U((X - Y) + (-c))
        BY <2>1, USum
    <3>2. U(X - Y) \in Int /\ U(X - Y) + (-c) = U(X - Y) - c /\ (X - Y) + (-c) = (X - Y) - c
        BY <2>1, UFacts DEF Number
    <3>. QED BY <3>1, <3>2
  <2>. QED BY <2>2 DEF U
<1>. DEFINE k == (q - i) + j
            lo == U(x - y)
<1>7. k \in Int /\ ((k * W + hi) * W + lo) % (W * W) = hi * W + lo
  <2>1. k \in Int
      <3>. HIDE DEF q
      <3>. QED BY <1>5
  <2>. HIDE DEF k, hi, lo
  <2>. QED BY <1>2, <1>5, <2>1, WideUnique DEF lo
<1>8. S(X) - S(Y) = (k * W + hi) + c
  <2>. HIDE DEF q, hi
  <2>1. k * W = (q * W - i * W) + j * W
      BY SMT, <1>1, <1>5
  <2>. DEFINE qW == q * W
              iW == i * W
              jW == j * W
  <2>2. qW \in Int /\ iW \in Int /\ jW \in Int /\ hi \in Int
      BY <1>1, <1>5 DEF Number
  <2>3. (X - Y) - c = qW + hi /\ S(X) = X - iW /\ S(Y) = Y - jW /\ k * W = (qW - iW) + jW
      BY <1>3, <1>4, <1>5, <2>1
  <2>. HIDE DEF qW, iW, jW, k
  <2>. QED BY <1>1, <2>2, <2>3
<1>9. (S(X) * W + x) - (S(Y) * W + y) = (k * W + hi) * W + lo
  <2>1. k * W + hi \in Int
      <3>. HIDE DEF k, hi
      <3>. QED BY <1>1, <1>5, <1>7 DEF Number
  <2>2. PICK m \in Int : m = k * W + hi
      BY <2>1
  <2>3. S(X) \in Int /\ S(Y) \in Int /\ S(X) - S(Y) = m + c
      <3>1. S(X) \in Int /\ S(Y) \in Int
          BY SFacts
      <3>. HIDE DEF k, hi
      <3>2. S(X) - S(Y) = m + c
          BY <1>8, <2>2, Zenon
      <3>. QED BY <3>1, <3>2
  <2>. HIDE DEF k, hi
  <2>4. (S(X) - S(Y)) * W = S(X) * W - S(Y) * W /\ (m + c) * W = m * W + c * W
        /\ S(X) * W \in Int /\ S(Y) * W \in Int /\ m * W \in Int /\ c * W \in Int
      BY SMT, <1>1, <2>3
  <2>5. S(X) * W - S(Y) * W = m * W + c * W
      BY <2>3, <2>4
  <2>. DEFINE SX == S(X) * W
              SY == S(Y) * W
              mW == m * W
              cW == c * W
  <2>6. SX \in Int /\ SY \in Int /\ mW \in Int /\ cW \in Int /\ SX - SY = mW + cW
        /\ x - y = lo - cW /\ lo \in Int
      BY <1>1, <1>2, <2>4, <2>5 DEF Number
  <2>. HIDE DEF SX, SY, mW, cW, lo
  <2>7. (SX + x) - (SY + y) = mW + lo
      BY <1>1, <2>6
  <2>. QED BY <2>2, <2>7 DEF SX, SY, mW
<1>. QED BY <1>6, <1>7, <1>9

(* The definitions of Width, as the scalar unit uses them.                 *)
LEMMA ScalarPower == Scalar!Power = Power
  BY SMT DEF Scalar!Power, Power

(* The bitwise recursion of the scalar unit is the one of Width.           *)
LEMMA ScalarBits == \A table : Scalar!EachBit(table) = EachBit(table)
<1>. SUFFICES ASSUME NEW table
              PROVE  Scalar!EachBit(table) = EachBit(table)
  OBVIOUS
<1>. DEFINE Here(f, n, p, q) == IF n = 0 THEN 0
                ELSE Power[n - 1] * table[Top(p, n - 1)][Top(q, n - 1)]
                         + f[n - 1][Rest(p, n - 1)][Rest(q, n - 1)]
            There(f, n, p, q) == IF n = 0 THEN 0
                ELSE Scalar!Power[n - 1] * table[Scalar!Top(p, n - 1)][Scalar!Top(q, n - 1)]
                         + f[n - 1][Scalar!Rest(p, n - 1)][Scalar!Rest(q, n - 1)]
            HereIs(f) == f = [n \in Nat |-> [p \in Nat |-> [q \in Nat |-> Here(f, n, p, q)]]]
            ThereIs(f) == f = [n \in Nat |-> [p \in Nat |-> [q \in Nat |-> There(f, n, p, q)]]]
<1>1. \A f, n, p, q : Here(f, n, p, q) = There(f, n, p, q)
  <2>1. \A p, n : Scalar!Top(p, n) = Top(p, n) /\ Scalar!Rest(p, n) = Rest(p, n)
      BY ScalarPower DEF Scalar!Top, Top, Scalar!Rest, Rest
  <2>. QED BY <2>1, ScalarPower, Zenon
<1>2. EachBit(table) = (CHOOSE f : HereIs(f))[Bits]
  BY DEF EachBit
<1>3. Scalar!EachBit(table) = (CHOOSE f : ThereIs(f))[Bits]
  BY DEF Scalar!EachBit
<1>4. \A f : HereIs(f) <=> ThereIs(f)
  <2>. HIDE DEF Here, There
  <2>. QED BY <1>1
<1>. HIDE DEF HereIs, ThereIs
<1>5. (CHOOSE f : HereIs(f)) = (CHOOSE f : ThereIs(f))
  BY <1>4
<1>. QED BY <1>2, <1>3, <1>5

(* The definitions of Width, as the scalar unit uses them.                 *)
LEMMA ScalarWidth ==
    /\ Scalar!W = W /\ Scalar!Lowest = Lowest /\ Scalar!Ones = Ones /\ Scalar!Number = Number
    /\ \A n : Scalar!S(n) = S(n) /\ Scalar!U(n) = U(n) /\ Scalar!Invert(n) = Invert(n)
BY ScalarPower DEF Scalar!W, W, Scalar!Lowest, Lowest, Scalar!Ones, Ones, Scalar!Number, Number,
                   Scalar!S, S, Scalar!U, U, Scalar!Invert, Invert

(* So are its operators.                                                   *)
LEMMA ScalarOperators ==
    \A p, q : Scalar!And(p, q) = And(p, q) /\ Scalar!Or(p, q) = Or(p, q) /\ Scalar!Xor(p, q) = Xor(p, q)
BY ScalarBits, Zenon DEF Scalar!And, And, Scalar!Or, Or, Scalar!Xor, Xor, Scalar!Both, Both,
      Scalar!Either, Either, Scalar!Different, Different

(* A half of a register: an immediate.                                     *)
LEMMA HalfFacts ==
    ASSUME Bits % 2 = 0, Bits >= 4
    PROVE  \E e \in Nat :
              /\ e >= 2 /\ Power[Scalar!Half - 1] = e /\ Power[Scalar!Half] = 2 * e
              /\ Scalar!Half \in 0 .. Bits /\ Scalar!Half - 1 \in Nat
              /\ W = (2 * e) * (2 * e) /\ Lowest = e * (2 * e)
              /\ \A imm : Scalar!Extend(imm) = IF imm < e THEN imm ELSE imm - 2 * e
<1>1. PICK k \in Nat : Scalar!Half = (k + 1) + 1 /\ Bits = ((k + 1) + 1) + ((k + 1) + 1)
  <2>. DEFINE k == (Bits \div 2) - 2
  <2>1. k \in Nat /\ Bits \div 2 = (k + 1) + 1 /\ Bits = ((k + 1) + 1) + ((k + 1) + 1)
      BY BitsAssumption
  <2>. HIDE DEF k
  <2>. QED BY <2>1 DEF Scalar!Half
<1>. DEFINE e == Power[k + 1]
<1>2. k + 1 \in Nat /\ (k + 1) + 1 \in Nat
  OBVIOUS
<1>3. Power[k] \in Nat /\ Power[k] >= 1 /\ Power[k + 1] = 2 * Power[k]
  BY PowerFacts
<1>4. Power[(k + 1) + 1] = 2 * Power[k + 1]
  BY <1>2, PowerFacts
<1>5. e \in Nat /\ e >= 2 /\ Power[Scalar!Half] = 2 * e
  BY <1>1, <1>3, <1>4
<1>6. Scalar!Half - 1 = k + 1 /\ Scalar!Half \in 0 .. Bits /\ Scalar!Half - 1 \in Nat
  BY <1>1
<1>7. W = (2 * e) * (2 * e)
  <2>1. Power[((k + 1) + 1) + ((k + 1) + 1)] = Power[(k + 1) + 1] * Power[(k + 1) + 1]
      BY <1>2, PowerSum
  <2>. QED BY <1>1, <1>4, <2>1 DEF W
<1>. HIDE DEF e
<1>8. Lowest = e * (2 * e)
  <2>. DEFINE d == e * (2 * e)
  <2>1. (2 * e) * (2 * e) = 2 * d /\ d \in Nat
      BY SMT, <1>5
  <2>. HIDE DEF d
  <2>2. Lowest = d
      BY <1>7, <2>1, WidthFacts
  <2>. QED BY <2>2 DEF d
<1>9. \A imm : Scalar!Extend(imm) = IF imm < e THEN imm ELSE imm - 2 * e
  BY <1>5, <1>6, ScalarPower DEF Scalar!Extend, e
<1>. QED BY <1>5, <1>6, <1>7, <1>8, <1>9 DEF e

(* Zero and one as results of a comparison.                                *)
LEMMA BoolFacts ==
    /\ \A v : Scalar!Bool(v) = (IF v THEN 1 ELSE 0) /\ Scalar!Bool(v) \in Number
    /\ 0 \in Number /\ 1 \in Number
    /\ And(0, 0) = 0 /\ And(0, 1) = 0 /\ And(1, 0) = 0 /\ And(1, 1) = 1
    /\ Or(0, 0) = 0 /\ Or(0, 1) = 1 /\ Or(1, 0) = 1 /\ Or(1, 1) = 1
<1>1. 0 \in Number /\ 1 \in Number
  BY WidthFacts DEF Number
<1>2. And(0, 0) = 0 /\ And(0, 1) = 0 /\ And(1, 0) = 0 /\ And(1, 1) = 1
  BY <1>1, AndFacts, SameFacts
<1>3. Or(0, 0) = 0 /\ Or(0, 1) = 1 /\ Or(1, 0) = 1 /\ Or(1, 1) = 1
  BY <1>1, OrFacts, SameFacts
<1>. QED BY <1>1, <1>2, <1>3 DEF Scalar!Bool

(* The immediate 1, extended.                                              *)
LEMMA OneExtends ==
    ASSUME Bits % 2 = 0, Bits >= 4
    PROVE  U(Scalar!Extend(1)) = 1
<1>1. PICK e \in Nat : e >= 2 /\ \A imm : Scalar!Extend(imm) = IF imm < e THEN imm ELSE imm - 2 * e
  BY HalfFacts
<1>2. Scalar!Extend(1) = 1
  BY <1>1
<1>. QED BY <1>2, BoolFacts, UFacts

(* A comparison of numbers of two words.                                   *)
LEMMA ComparisonIsJoined ==
    ASSUME NEW X \in Number, NEW x \in Number, NEW Y \in Number, NEW y \in Number
    PROVE  Or(Scalar!Bool(S(X) < S(Y)),
              And(Scalar!Bool(Xor(X, Y) < 1), Scalar!Bool(x < y)))
               = Scalar!Bool(S(X) * W + x < S(Y) * W + y)
<1>1. W \in Nat /\ W >= 4 /\ x \in Nat /\ y \in Nat /\ x < W /\ y < W
      /\ S(X) \in Int /\ S(Y) \in Int
  BY WidthFacts, SFacts DEF Number
<1>2. Xor(X, Y) < 1 <=> S(X) = S(Y)
  <2>1. Xor(X, Y) \in Nat /\ (Xor(X, Y) = 0 <=> X = Y)
      BY XorFacts, XorUndone DEF Number
  <2>. QED BY <2>1, SignedEqual
<1>. DEFINE p == S(X)
            q == S(Y)
<1>3. p * W + x < q * W + y <=> p < q \/ (p = q /\ x < y)
  <2>. HIDE DEF p, q
  <2>1. p \in Int /\ q \in Int
      BY <1>1 DEF p, q
  <2>2. ASSUME NEW m \in Int, NEW n \in Int, m < n
        PROVE  m * W + W <= n * W /\ m * W \in Int /\ n * W \in Int
      <3>1. (m + 1) * W <= n * W
          BY SMT, <1>1, <2>2
      <3>2. (m + 1) * W = m * W + W /\ m * W \in Int /\ n * W \in Int
          BY SMT, <1>1
      <3>. QED BY <3>1, <3>2
  <2>3. CASE p < q
      <3>1. p * W + W <= q * W /\ p * W \in Int /\ q * W \in Int
          BY <2>1, <2>2, <2>3
      <3>. DEFINE pW == p * W
                  qW == q * W
      <3>. HIDE DEF pW, qW
      <3>2. pW + x < qW + y
          BY <1>1, <3>1 DEF pW, qW
      <3>. QED BY <2>1, <2>3, <3>2 DEF pW, qW
  <2>4. CASE q < p
      <3>1. q * W + W <= p * W /\ p * W \in Int /\ q * W \in Int
          BY <2>1, <2>2, <2>4
      <3>. DEFINE pW == p * W
                  qW == q * W
      <3>. HIDE DEF pW, qW
      <3>2. ~(pW + x < qW + y)
          BY <1>1, <3>1 DEF pW, qW
      <3>. QED BY <2>1, <2>4, <3>2 DEF pW, qW
  <2>5. CASE p = q
      <3>. DEFINE pW == p * W
      <3>1. pW \in Int
          BY SMT, <1>1, <2>1
      <3>. HIDE DEF pW
      <3>2. pW + x < pW + y <=> x < y
          BY <1>1, <3>1
      <3>. QED BY <2>1, <2>5, <3>2 DEF pW
  <2>. QED BY <2>1, <2>3, <2>4, <2>5
<1>4. CASE S(X) < S(Y)
  <2>1. ~(Xor(X, Y) < 1) /\ p * W + x < q * W + y
      BY <1>1, <1>2, <1>3, <1>4
  <2>2. Scalar!Bool(S(X) < S(Y)) = 1 /\ Scalar!Bool(Xor(X, Y) < 1) = 0
        /\ Scalar!Bool(S(X) * W + x < S(Y) * W + y) = 1
      BY <1>4, <2>1 DEF Scalar!Bool
  <2>3. Scalar!Bool(x < y) \in {0, 1}
      BY DEF Scalar!Bool
  <2>. QED BY <2>2, <2>3, BoolFacts
<1>5. CASE ~(S(X) < S(Y)) /\ S(X) = S(Y)
  <2>1. Xor(X, Y) < 1 /\ (p * W + x < q * W + y <=> x < y)
      BY <1>1, <1>2, <1>3, <1>5
  <2>2. Scalar!Bool(S(X) < S(Y)) = 0 /\ Scalar!Bool(Xor(X, Y) < 1) = 1
        /\ Scalar!Bool(S(X) * W + x < S(Y) * W + y) = Scalar!Bool(x < y)
      BY <1>5, <2>1 DEF Scalar!Bool
  <2>3. Scalar!Bool(x < y) \in {0, 1}
      BY DEF Scalar!Bool
  <2>. QED BY <2>2, <2>3, BoolFacts
<1>6. CASE ~(S(X) < S(Y)) /\ S(X) # S(Y)
  <2>1. ~(Xor(X, Y) < 1) /\ ~(p * W + x < q * W + y)
      BY <1>1, <1>2, <1>3, <1>6
  <2>2. Scalar!Bool(S(X) < S(Y)) = 0 /\ Scalar!Bool(Xor(X, Y) < 1) = 0
        /\ Scalar!Bool(S(X) * W + x < S(Y) * W + y) = 0
      BY <1>6, <2>1 DEF Scalar!Bool
  <2>3. Scalar!Bool(x < y) \in {0, 1}
      BY DEF Scalar!Bool
  <2>. QED BY <2>2, <2>3, BoolFacts
<1>. QED BY <1>4, <1>5, <1>6

(* A signed shift rounds down, stays in the word and keeps the sign.       *)
LEMMA ShiftFacts ==
    ASSUME NEW s \in Int, -Lowest <= s, s < Lowest, NEW P \in Nat, P >= 1
    PROVE  /\ s \div P \in Int /\ S(U(s \div P)) = s \div P /\ U(s \div P) \in Number
           /\ -Lowest <= s \div P /\ s \div P < Lowest
           /\ (s \div P) * P \in s - P + 1 .. s
           /\ s \div P < 0 <=> s < 0
<1>1. Lowest \in Nat
  BY WidthFacts
<1>2. PICK q \in Int : q = s \div P
  BY QuotientIn
<1>3. q * P <= s /\ s < (q + 1) * P
  BY <1>2, QuotientIn
<1>4. q * P \in Int /\ (q + 1) * P = q * P + P
  BY SMT
<1>5. q >= 0 => q * P >= q
  BY SMT
<1>6. q + 1 <= 0 => (q + 1) * P <= q + 1
  <2>. SUFFICES ASSUME NEW m \in Nat, q + 1 = -m
                PROVE  (-m) * P <= -m
    <3>1. ASSUME q + 1 <= 0
          PROVE  \E m \in Nat : q + 1 = -m
        <4>1. -(q + 1) \in Nat /\ q + 1 = -(-(q + 1))
            BY <3>1
        <4>. QED BY <4>1
    <3>. QED BY <3>1
  <2>1. m * P >= m /\ (-m) * P = -(m * P) /\ m * P \in Int
      BY SMT
  <2>. QED BY <2>1
<1>. DEFINE qP == q * P
<1>7. qP \in Int /\ qP <= s /\ s < qP + P /\ (q >= 0 => qP >= q)
      /\ (q + 1 <= 0 => qP + P <= q + 1)
  BY <1>3, <1>4, <1>5, <1>6
<1>. HIDE DEF qP
<1>8. -Lowest <= q /\ q < Lowest /\ (q < 0 <=> s < 0) /\ qP \in s - P + 1 .. s
  BY <1>1, <1>7
<1>9. S(U(q)) = q /\ U(q) \in Number
  BY <1>8, USigned
<1>. QED BY <1>2, <1>8, <1>9 DEF qP

(* The sign of a word, as its highest bit and spread over all of them.     *)
LEMMA SignFacts ==
    ASSUME NEW x \in Number
    PROVE  /\ U(S(x) \div Lowest) = (IF S(x) < 0 THEN Ones ELSE 0)
           /\ x \div Lowest = Scalar!Bool(S(x) < 0)
<1>1. /\ Lowest \in Nat /\ Lowest >= 2 /\ W = 2 * Lowest /\ x \in Nat /\ x < W
      /\ S(x) \in Int /\ -Lowest <= S(x) /\ S(x) < Lowest
      /\ S(x) = IF x < Lowest THEN x ELSE x - W
  BY WidthFacts, SFacts
<1>2. CASE x < Lowest
  <2>1. S(x) = x
      BY <1>1, <1>2
  <2>2. x \div Lowest = 0
      BY <1>1, <1>2, SmallRemainder
  <2>3. U(0) = 0
      BY BoolFacts, UFacts
  <2>. QED BY <1>1, <2>1, <2>2, <2>3 DEF Scalar!Bool
<1>3. CASE ~(x < Lowest)
  <2>1. S(x) = x - W /\ S(x) < 0
      BY <1>1, <1>3
  <2>2. x \div Lowest = 1
      <3>1. x - Lowest \in 0 .. Lowest - 1 /\ x = 1 * Lowest + (x - Lowest)
          BY <1>1, <1>3
      <3>. QED BY <1>1, <3>1, DivModUnique
  <2>3. S(x) \div Lowest = -1
      <3>1. S(x) + Lowest \in 0 .. Lowest - 1 /\ S(x) = (-1) * Lowest + (S(x) + Lowest)
          BY <1>1, <2>1
      <3>. QED BY <1>1, <3>1, DivModUnique
  <2>4. U(-1) = Ones
      <3>1. -1 + W \in Number /\ -1 + W = W - 1
          BY <1>1 DEF Number
      <3>. QED BY <3>1, UFacts DEF Ones
  <2>. QED BY <2>1, <2>2, <2>3, <2>4 DEF Scalar!Bool
<1>. QED BY <1>2, <1>3

(* The magnitude, by the sign spread over a mask.                          *)
LEMMA MagnitudeIsKept ==
    ASSUME NEW x \in Number, NEW t, t = U(S(x) \div Lowest)
    PROVE  /\ t \in Number /\ Xor(x, t) \in Number
           /\ U(Xor(x, t) - t) = U(IF S(x) < 0 THEN -S(x) ELSE S(x))
<1>1. CASE S(x) < 0
  <2>1. t = Ones /\ Ones \in Number
      BY <1>1, SignFacts, SetFacts
  <2>2. Xor(x, Ones) = Invert(x) /\ Invert(x) \in Number /\ sub(Invert(x), Ones) = U(-S(x))
      BY XorFacts, InvertFacts
  <2>. QED BY <1>1, <2>1, <2>2 DEF sub
<1>2. CASE ~(S(x) < 0)
  <2>1. t = 0 /\ 0 \in Number
      BY <1>2, SignFacts, SetFacts
  <2>2. Xor(x, 0) = x /\ x - 0 = x /\ U(x) = x /\ U(S(x)) = x
      BY XorFacts, SFacts DEF Number
  <2>. QED BY <1>2, <2>1, <2>2
<1>. QED BY <1>1, <1>2

(* The negative, as the complement of the number before.                   *)
LEMMA NegativeIsComplement ==
    ASSUME NEW x \in Number, Bits % 2 = 0, Bits >= 4
    PROVE  Invert(Or(0, U(x + Scalar!Extend(Power[Scalar!Half] - 1)))) = U(-S(x))
<1>1. PICK e \in Nat : /\ e >= 2 /\ Power[Scalar!Half] = 2 * e
                       /\ \A imm : Scalar!Extend(imm) = IF imm < e THEN imm ELSE imm - 2 * e
  BY HalfFacts
<1>2. Scalar!Extend(2 * e - 1) = -1
  <2>1. ~(2 * e - 1 < e) /\ (2 * e - 1) - 2 * e = -1
      BY <1>1
  <2>. QED BY <1>1, <2>1
<1>3. x \in Nat /\ x < W /\ W \in Nat /\ x + (-1) = x - 1
  BY WidthFacts DEF Number
<1>4. U(x - 1) = (IF x = 0 THEN W - 1 ELSE x - 1) /\ U(x - 1) \in Number
  <2>1. /\ U(x - 1) = IF x - 1 < 0 THEN (x - 1) + W ELSE IF x - 1 < W THEN x - 1 ELSE (x - 1) - W
        /\ U(x - 1) \in Number
      BY <1>3, UCases
  <2>. QED BY <1>3, <2>1
<1>5. Or(0, U(x - 1)) = U(x - 1)
  BY <1>4, OrFacts
<1>6. U(-S(x)) = IF x = 0 THEN 0 ELSE W - x
  BY InvertFacts
<1>7. Invert(U(x - 1)) = IF x = 0 THEN 0 ELSE W - x
  BY <1>3, <1>4 DEF Invert, Ones
<1>. QED BY <1>1, <1>2, <1>3, <1>5, <1>6, <1>7

(* The lesser of two words, chosen by a mask.                              *)
LEMMA LeastIsChosen ==
    ASSUME NEW x \in Number, NEW y \in Number, NEW t, t = U(0 - Scalar!Bool(S(x) < S(y)))
    PROVE  S(Xor(And(Xor(x, y), t), y)) = IF S(x) < S(y) THEN S(x) ELSE S(y)
<1>1. Xor(x, y) \in Number /\ Xor(Xor(x, y), y) = x /\ Xor(0, y) = y
  BY XorFacts, XorUndone
<1>2. CASE S(x) < S(y)
  <2>1. Scalar!Bool(S(x) < S(y)) = 1
      BY <1>2 DEF Scalar!Bool
  <2>2. U(0 - 1) = Ones
      <3>1. 0 - 1 \in Int /\ (0 - 1) + W \in Number /\ (0 - 1) + W = W - 1
          BY WidthFacts DEF Number
      <3>. QED BY <3>1, UFacts DEF Ones
  <2>. QED BY <1>1, <1>2, <2>1, <2>2, AndFacts
<1>3. CASE ~(S(x) < S(y))
  <2>1. Scalar!Bool(S(x) < S(y)) = 0
      BY <1>3 DEF Scalar!Bool
  <2>2. U(0 - 0) = 0
      BY BoolFacts, UFacts
  <2>. QED BY <1>1, <1>3, <2>1, <2>2, AndFacts
<1>. QED BY <1>2, <1>3

(* The halves of a word.                                                   *)
LEMMA HalvesOf ==
    ASSUME NEW x \in Number, Bits % 2 = 0, Bits >= 4
    PROVE  \E e \in Nat, upper \in Nat, lower \in Nat :
              /\ e >= 2 /\ Power[Scalar!Half - 1] = e /\ Power[Scalar!Half] = 2 * e
              /\ W = (2 * e) * (2 * e) /\ Lowest = e * (2 * e)
              /\ \A imm : Scalar!Extend(imm) = IF imm < e THEN imm ELSE imm - 2 * e
              /\ upper = x \div Power[Scalar!Half] /\ lower = x % Power[Scalar!Half]
              /\ x = upper * (2 * e) + lower /\ upper < 2 * e /\ lower < 2 * e
              /\ lower \in Number /\ upper * (2 * e) \in Number
<1>1. PICK e \in Nat : /\ e >= 2 /\ Power[Scalar!Half - 1] = e /\ Power[Scalar!Half] = 2 * e
                       /\ W = (2 * e) * (2 * e) /\ Lowest = e * (2 * e)
                       /\ \A imm : Scalar!Extend(imm) = IF imm < e THEN imm ELSE imm - 2 * e
  BY HalfFacts
<1>2. PICK h \in Nat : h = 2 * e /\ h >= 4
  BY <1>1
<1>3. x \in Nat /\ x < W /\ W = h * h
  BY <1>1, <1>2 DEF Number
<1>4. PICK upper \in Nat, lower \in Nat : /\ upper = x \div h /\ lower = x % h
                                          /\ x = upper * h + lower /\ lower < h
  <2>0. x \in Int /\ h \in Nat /\ h >= 1
      BY <1>2, <1>3
  <2>1. x \div h \in Int /\ x % h \in 0 .. h - 1 /\ x = (x \div h) * h + (x % h)
      BY <2>0, DivMod, Zenon
  <2>2. x \div h >= 0
      BY <1>2, <1>3, QuotientIn
  <2>. DEFINE u == x \div h
              l == x % h
  <2>. HIDE DEF u, l
  <2>3. u \in Nat /\ l \in Nat /\ l < h /\ x = u * h + l
      BY <1>2, <2>1, <2>2 DEF u, l
  <2>. QED BY <2>3 DEF u, l
<1>. DEFINE uh == upper * h
            hh == h * h
<1>5. uh \in Nat /\ hh \in Nat /\ (upper >= h => uh >= hh)
  BY SMT, <1>2
<1>6. x = uh + lower /\ x < hh /\ W = hh
  BY <1>3, <1>4
<1>. HIDE DEF uh, hh
<1>7. upper < h /\ uh \in Number /\ lower \in Number
  BY <1>4, <1>5, <1>6 DEF Number
<1>. QED BY <1>1, <1>2, <1>4, <1>7 DEF uh

(* A sign-extended half, by shifts.                                        *)
LEMMA HalfIsExtended ==
    ASSUME NEW x \in Number, Bits % 2 = 0, Bits >= 4
    PROVE  S(U(S(U(x * Power[Scalar!Half])) \div Power[Scalar!Half]))
               = Scalar!Extend(x % Power[Scalar!Half])
<1>1. PICK e \in Nat, upper \in Nat, lower \in Nat :
              /\ e >= 2 /\ Power[Scalar!Half] = 2 * e
              /\ W = (2 * e) * (2 * e) /\ Lowest = e * (2 * e)
              /\ \A imm : Scalar!Extend(imm) = IF imm < e THEN imm ELSE imm - 2 * e
              /\ lower = x % Power[Scalar!Half]
              /\ x = upper * (2 * e) + lower /\ lower < 2 * e
  BY HalvesOf
<1>2. PICK h \in Nat : h = 2 * e /\ h >= 4
  BY <1>1
<1>. DEFINE t == Scalar!Extend(lower)
<1>3. t = (IF lower < e THEN lower ELSE lower - h) /\ t \in Int /\ -e <= t /\ t < e
  BY <1>1, <1>2
<1>. HIDE DEF t
<1>4. PICK c \in {0, 1} : lower = t + c * h
  <2>1. lower = t + 0 * h \/ lower = t + 1 * h
      BY <1>2, <1>3
  <2>. QED BY <2>1
<1>5. x * h = t * h + (upper + c) * W
  <2>1. x = upper * h + (t + c * h) /\ W = h * h
      BY <1>1, <1>2, <1>4
  <2>2. (upper * h + (t + c * h)) * h = t * h + (upper + c) * (h * h)
      BY SMT, <1>3
  <2>. QED BY <2>1, <2>2
<1>6. t * h \in Int /\ -Lowest <= t * h /\ t * h < Lowest
  <2>1. e * h \in Int /\ t * h \in Int /\ (-e) * h <= t * h /\ (t + 1) * h <= e * h
      BY SMT, <1>2, <1>3
  <2>2. (-e) * h = -(e * h) /\ (t + 1) * h = t * h + h
      BY SMT, <1>3
  <2>. DEFINE eh == e * h
              th == t * h
  <2>3. eh \in Int /\ th \in Int /\ -eh <= th /\ th + h <= eh /\ Lowest = eh
      BY <1>1, <1>2, <2>1, <2>2
  <2>. HIDE DEF eh, th
  <2>4. -Lowest <= th /\ th < Lowest
      BY <1>2, <2>3
  <2>. QED BY <2>1, <2>4 DEF th
<1>7. U(x * h) = U(t * h) /\ S(U(t * h)) = t * h
  <2>1. upper + c \in Int
      OBVIOUS
  <2>2. U(t * h + (upper + c) * W) = U(t * h)
      BY <1>6, <2>1, UShift
  <2>. QED BY <1>5, <1>6, <2>2, USigned
<1>8. (t * h) \div h = t
  <2>. DEFINE th == t * h
  <2>1. th \in Int /\ th = t * h + 0 /\ 0 \in 0 .. h - 1
      BY <1>2, <1>6
  <2>. HIDE DEF th
  <2>2. th \div h = t
      BY <1>2, <1>3, <2>1, DivModUnique
  <2>. QED BY <2>2 DEF th
<1>9. S(U(t)) = t
  <2>1. e <= Lowest
      <3>1. e * h >= e
          BY SMT, <1>2
      <3>. QED BY <1>1, <1>2, <3>1
  <2>2. -Lowest <= t /\ t < Lowest
      BY <1>3, <2>1, WidthFacts
  <2>. QED BY <1>3, <2>2, USigned
<1>. QED BY <1>1, <1>2, <1>7, <1>8, <1>9 DEF t

(* A constant, by its halves.                                              *)
LEMMA ConstantIsJoined ==
    ASSUME NEW x \in Number, Bits % 2 = 0, Bits >= 4
    PROVE  /\ U((x \div Power[Scalar!Half]) * Power[Scalar!Half]) \in Number
           /\ Or(U((x \div Power[Scalar!Half]) * Power[Scalar!Half]), x % Power[Scalar!Half]) = x
<1>1. PICK e \in Nat, upper \in Nat, lower \in Nat :
              /\ e >= 2 /\ Power[Scalar!Half] = 2 * e
              /\ upper = x \div Power[Scalar!Half] /\ lower = x % Power[Scalar!Half]
              /\ x = upper * (2 * e) + lower /\ lower < 2 * e
              /\ lower \in Number /\ upper * (2 * e) \in Number
  BY HalvesOf
<1>2. PICK h \in Nat : h = 2 * e /\ h >= 4
  BY <1>1
<1>3. PICK n \in Number : n = upper * h
  BY <1>1, <1>2
<1>4. n \in Int /\ n % h = 0
  <2>1. n \in Int /\ n = upper * h + 0 /\ 0 \in 0 .. h - 1 /\ upper \in Int /\ h >= 1
    <3>1. upper * h \in Int
        BY SMT
    <3>2. n \in Int
        BY DEF Number
    <3>. QED BY <1>2, <1>3, <3>1, <3>2
  <2>. QED BY <2>1, DivModUnique, Zenon
<1>5. U(n) = n
  BY <1>4, UFacts
<1>6. Scalar!Half \in 0 .. Bits
  BY HalfFacts
<1>7. Or(n, lower) = n + lower
  BY <1>1, <1>2, <1>4, <1>6, OrDisjoint
<1>. QED BY <1>1, <1>2, <1>3, <1>5, <1>7

(* An address, whose lower half is extended by its sign: the upper half is *)
(* rounded.                                                                *)
LEMMA AddressIsJoined ==
    ASSUME NEW x \in Number, Bits % 2 = 0, Bits >= 4
    PROVE  U(U((((x + Power[Scalar!Half - 1]) \div Power[Scalar!Half]) % Power[Scalar!Half])
                   * Power[Scalar!Half])
             + Scalar!Extend(x % Power[Scalar!Half])) = x
<1>1. PICK e \in Nat, upper \in Nat, lower \in Nat :
              /\ e >= 2 /\ Power[Scalar!Half - 1] = e /\ Power[Scalar!Half] = 2 * e
              /\ W = (2 * e) * (2 * e)
              /\ \A imm : Scalar!Extend(imm) = IF imm < e THEN imm ELSE imm - 2 * e
              /\ upper = x \div Power[Scalar!Half] /\ lower = x % Power[Scalar!Half]
              /\ x = upper * (2 * e) + lower /\ lower < 2 * e
  BY HalvesOf
<1>2. PICK h \in Nat : h = 2 * e /\ h >= 4
  BY <1>1
<1>. DEFINE t == Scalar!Extend(lower)
<1>3. t = (IF lower < e THEN lower ELSE lower - h) /\ t \in Int
  BY <1>1, <1>2
<1>. HIDE DEF t
<1>4. PICK c \in {0, 1} : lower = t + c * h /\ (c = 1 <=> ~(lower < e))
  <2>1. \/ lower = t + 0 * h /\ lower < e
        \/ lower = t + 1 * h /\ ~(lower < e)
      BY <1>2, <1>3
  <2>. QED BY <2>1
<1>5. (x + e) \div h = upper + c
  <2>. DEFINE uh == upper * h
  <2>0. x = uh + lower
      BY <1>1, <1>2
  <2>1. uh \in Int /\ (upper + 0) * h = uh /\ (upper + 1) * h = uh + h /\ x = uh + lower
    <3>1. uh \in Int /\ (upper + 0) * h = uh /\ (upper + 1) * h = uh + h
        BY SMT
    <3>. QED BY <2>0, <3>1
  <2>. HIDE DEF uh
  <2>2. CASE lower < e
      <3>1. c = 0 /\ x + e \in Int /\ lower + e \in 0 .. h - 1
          BY <1>1, <1>2, <1>4, <2>1, <2>2
      <3>2. x + e = (upper + 0) * h + (lower + e)
          BY <2>1
      <3>3. (x + e) \div h = upper + 0
          <4>1. upper + 0 \in Int
              OBVIOUS
          <4>. QED BY <1>2, <3>1, <3>2, <4>1, DivModUnique
      <3>. QED BY <3>1, <3>3
  <2>3. CASE ~(lower < e)
      <3>1. c = 1 /\ x + e \in Int /\ lower - e \in 0 .. h - 1
          BY <1>1, <1>2, <1>4, <2>1, <2>3
      <3>2. x + e = (upper + 1) * h + (lower - e)
          BY <1>2, <2>1
      <3>3. (x + e) \div h = upper + 1
          <4>1. upper + 1 \in Int
              OBVIOUS
          <4>. QED BY <1>2, <3>1, <3>2, <4>1, DivModUnique
      <3>. QED BY <3>1, <3>3
  <2>. QED BY <2>2, <2>3
<1>6. PICK k \in Int, u \in Int : u = (upper + c) % h /\ upper + c = k * h + u
  <2>1. PICK n \in Int : n = upper + c
      OBVIOUS
  <2>2. h >= 1
      BY <1>2
  <2>3. n \div h \in Int /\ n % h \in 0 .. h - 1 /\ n = (n \div h) * h + (n % h)
      BY <2>2, DivMod, Zenon
  <2>4. n % h \in Int
      BY <2>3
  <2>. QED BY <2>1, <2>3, <2>4, Zenon
<1>7. u * h + t = x + (-k) * W
  <2>1. (k * h + u) * h = k * (h * h) + u * h /\ (upper + c) * h = upper * h + c * h
        /\ (-k) * (h * h) = -(k * (h * h))
      BY SMT
  <2>. DEFINE kW == k * (h * h)
              uh == u * h
              ph == upper * h
              ch == c * h
  <2>2. kW \in Int /\ uh \in Int /\ ph \in Int /\ ch \in Int
      BY SMT
  <2>3. kW + uh = ph + ch /\ (-k) * W = -kW /\ x = ph + lower /\ lower = t + ch
      BY <1>1, <1>2, <1>4, <1>6, <2>1
  <2>. HIDE DEF kW, uh, ph, ch
  <2>4. uh + t = x + (-kW)
      BY <1>3, <2>2, <2>3
  <2>. QED BY <2>3, <2>4 DEF uh
<1>8. U(U(u * h) + t) = x
  <2>1. u * h \in Int /\ -k \in Int /\ x \in Int /\ U(x) = x
      BY SMT, UFacts DEF Number
  <2>2. U(U(u * h) + t) = U(u * h + t)
      BY <1>3, <2>1, USum
  <2>3. U(x + (-k) * W) = U(x)
      BY <2>1, UShift
  <2>. QED BY <1>7, <2>1, <2>2, <2>3
<1>. QED BY <1>1, <1>2, <1>5, <1>6, <1>8 DEF t

(* The low bits of a word, taken and removed again.                        *)
LEMMA LowBitsAreRemoved ==
    ASSUME NEW x \in Number, Bits % 2 = 0, Bits >= 4
    PROVE  Xor(And(x, x % Power[Scalar!Half]), x % Power[Scalar!Half]) = 0
<1>1. x % Power[Scalar!Half] \in Number
  BY HalvesOf
<1>2. Scalar!Half \in 0 .. Bits
  BY HalfFacts
<1>. QED BY <1>1, <1>2, AndLow, SameFacts

(* Quotient and remainder, by name.                                        *)
LEMMA Divided ==
    ASSUME NEW n \in Int, NEW d \in Nat, d >= 1
    PROVE  \E q \in Int, r \in Nat : /\ q = n \div d /\ r = n % d /\ n = q * d + r
                                    /\ r < d /\ r + 1 <= d /\ (n >= 0 => q >= 0)
<1>1. n \div d \in Int /\ n % d \in 0 .. d - 1 /\ n = (n \div d) * d + (n % d)
  BY DivMod
<1>2. n \div d \in Int /\ (n >= 0 => n \div d >= 0)
  BY QuotientIn
<1>3. n % d \in Nat /\ n % d < d /\ (n % d) + 1 <= d
  BY <1>1
<1>. QED BY <1>1, <1>2, <1>3, Zenon

(* A bit of a number of two parts is a bit of the part that holds it.      *)
LEMMA BitBelow ==
    ASSUME NEW p \in Nat, NEW q \in Nat, NEW k \in Nat, NEW j \in Nat, j < k
    PROVE  ((p * Power[k] + q) \div Power[j]) % 2 = (q \div Power[j]) % 2
<1>1. PICK c \in Nat : k = (j + c) + 1
  <2>1. k - j - 1 \in Nat /\ k = (j + (k - j - 1)) + 1
      OBVIOUS
  <2>. QED BY <2>1
<1>2. Power[(j + c) + 1] = 2 * Power[j + c] /\ Power[j + c] = Power[j] * Power[c]
  <2>1. j + c \in Nat
      OBVIOUS
  <2>. QED BY <2>1, PowerFacts, PowerSum
<1>3. PICK P \in Nat : P = Power[j] /\ P >= 1
  BY PowerFacts
<1>4. PICK C \in Nat : C = Power[c]
  BY PowerFacts
<1>5. PICK t \in Int : t = p * C
  <2>1. p * C \in Int
      BY SMT
  <2>. QED BY <2>1
<1>6. p * Power[k] + q = q + (2 * t) * P
  <2>1. Power[k] = 2 * (P * C)
      BY <1>1, <1>2, <1>3, <1>4
  <2>2. p * (2 * (P * C)) = (2 * (p * C)) * P
      BY SMT
  <2>3. (2 * t) * P \in Int
      BY SMT
  <2>. QED BY <1>5, <2>1, <2>2, <2>3
<1>7. (q + (2 * t) * P) \div P = q \div P + 2 * t
  <2>1. q \in Int /\ 2 * t \in Int
      OBVIOUS
  <2>. QED BY <1>3, <2>1, RemainderShift, Zenon
<1>8. (q \div P + t * 2) % 2 = (q \div P) % 2
  <2>1. q \div P \in Int
      BY <1>3, QuotientIn
  <2>. QED BY <2>1
<1>9. 2 * t = t * 2
  OBVIOUS
<1>. QED BY <1>3, <1>6, <1>7, <1>8, <1>9

(* A bit above the lower part is one of the upper part.                    *)
LEMMA BitAbove ==
    ASSUME NEW p \in Nat, NEW q \in Nat, NEW k \in Nat, NEW j \in Nat, q < Power[k]
    PROVE  (p * Power[k] + q) \div Power[k + j] = p \div Power[j]
<1>1. PICK K \in Nat : K = Power[k] /\ K >= 1
  BY PowerFacts
<1>2. PICK J \in Nat : J = Power[j] /\ J >= 1
  BY PowerFacts
<1>3. Power[k + j] = K * J
  BY <1>1, <1>2, PowerSum
<1>4. PICK a \in Int, b \in Nat : a = p \div J /\ b + 1 <= J /\ p = a * J + b
  <2>1. p \in Int /\ J >= 1
      BY <1>2
  <2>. QED BY <2>1, Divided, ZenonT(60)
<1>. DEFINE d == K * J
            aJK == (a * J) * K
            bK == b * K
            s == bK + q
<1>5. d \in Nat /\ d >= 1 /\ aJK \in Int /\ bK \in Int /\ bK >= 0 /\ bK + K <= d
  <2>1. d \in Nat /\ aJK \in Int /\ bK \in Int /\ bK >= 0
      BY SMT, <1>4
  <2>2. d >= 1
      BY SMT, <1>1, <1>2
  <2>3. (b + 1) * K <= J * K /\ (b + 1) * K = bK + K /\ J * K = d
      BY SMT, <1>4
  <2>. QED BY <2>1, <2>2, <2>3
<1>6. p * K + q = aJK + s /\ aJK = a * d
  <2>1. (a * J + b) * K = aJK + bK /\ aJK = a * d
      BY SMT
  <2>2. p * K = aJK + bK
      BY <1>4, <2>1
  <2>. HIDE DEF aJK, bK, d
  <2>3. aJK \in Int /\ bK \in Int
      BY <1>5
  <2>. QED BY <2>1, <2>2, <2>3
<1>7. s \in 0 .. d - 1
  <2>. HIDE DEF d, bK
  <2>. QED BY <1>1, <1>5
<1>8. p * K + q \in Int
  BY SMT
<1>. HIDE DEF d, aJK, s
<1>9. (p * K + q) \div d = a
  <2>1. PICK n \in Int : n = p * K + q
      BY <1>8
  <2>2. n = a * d + s
      BY <1>6, <2>1
  <2>3. n \div d = a
      BY <1>5, <1>7, <2>2, DivModUnique
  <2>. QED BY <2>1, <2>3
<1>. QED BY <1>1, <1>2, <1>3, <1>4, <1>9 DEF d

(* The amount of a shift to the right that completes one to the left.      *)
LEMMA OppositeAmount ==
    ASSUME NEW y \in Number, W % Bits = 0
    PROVE  /\ y % Bits \in 0 .. Bits - 1
           /\ U(0 - y) % Bits = IF y % Bits = 0 THEN 0 ELSE Bits - (y % Bits)
           /\ \A i \in 0 .. Bits - 1 :
                 (i + y) % Bits = IF i + (y % Bits) < Bits THEN i + (y % Bits)
                                  ELSE (i + (y % Bits)) - Bits
<1>1. PICK B \in Nat : B = Bits /\ B >= 1
  BY BitsAssumption
<1>2. y \in Nat /\ y < W /\ W \in Nat
  BY WidthFacts DEF Number
<1>3. PICK q \in Int, n \in Nat : n = y % B /\ y = q * B + n /\ n < B
  <2>1. y \in Int /\ B >= 1
      BY <1>1, <1>2
  <2>. QED BY <2>1, Divided, Zenon
<1>4. PICK w \in Int : W = w * B
  <2>0. W \in Int /\ B >= 1
      BY <1>1, <1>2
  <2>1. PICK w \in Int, m \in Nat : m = W % B /\ W = w * B + m
      BY <2>0, Divided, Zenon
  <2>2. m = 0 /\ w * B \in Int
      BY SMT, <1>1, <2>1
  <2>3. W = w * B
      BY <2>1, <2>2
  <2>. QED BY <2>3
<1>5. ASSUME NEW i \in 0 .. B - 1
      PROVE  (i + y) % B = IF i + n < B THEN i + n ELSE (i + n) - B
  <2>0. i \in Nat /\ i < B
      BY <1>1
  <2>1. i + n \in Int /\ (i + n) + q * B = i + y
    <3>1. q * B \in Int
        BY SMT
    <3>. QED BY <1>2, <1>3, <2>0, <3>1
  <2>2. ((i + n) + q * B) % B = (i + n) % B
      BY <1>1, <2>1, RemainderShift, Zenon
  <2>3. CASE i + n < B
      <3>1. (i + n) % B = i + n
        <4>1. i + n \in Nat
            BY <2>0
        <4>. QED BY <2>3, <4>1, SmallRemainder, Zenon
      <3>. QED BY <2>1, <2>2, <2>3, <3>1
  <2>4. CASE ~(i + n < B)
      <3>1. (i + n) - B \in Nat /\ (i + n) - B < B
          BY <1>1, <1>3, <2>0, <2>4
      <3>2. ((i + n) - B) % B = (i + n) - B
          BY <3>1, SmallRemainder
      <3>3. (((i + n) - B) + 1 * B) % B = ((i + n) - B) % B
        <4>1. (i + n) - B \in Int /\ 1 \in Int
            BY <3>1
        <4>. QED BY <1>1, <4>1, RemainderShift, Zenon
      <3>4. ((i + n) - B) + 1 * B = i + n
          BY <2>0
      <3>. QED BY <2>1, <2>2, <2>4, <3>2, <3>3, <3>4
  <2>. QED BY <2>3, <2>4
<1>6. U(0 - y) = IF y = 0 THEN 0 ELSE W - y
  <2>1. /\ U(0 - y) = IF 0 - y < 0 THEN (0 - y) + W ELSE IF 0 - y < W THEN 0 - y ELSE (0 - y) - W
      BY <1>2, UCases
  <2>. QED BY <1>2, <2>1
<1>7. U(0 - y) % B = IF n = 0 THEN 0 ELSE B - n
  <2>1. 0 % B = 0
      BY <1>1, SmallRemainder
  <2>2. CASE y = 0
      <3>1. n = 0
          BY <1>3, <2>1, <2>2
      <3>. QED BY <1>6, <2>1, <2>2, <3>1
  <2>3. CASE y # 0 /\ n = 0
      <3>1. W - y = 0 + (w - q) * B /\ w - q \in Int
        <4>1. (w - q) * B = w * B - q * B /\ w * B \in Int /\ q * B \in Int
            BY SMT
        <4>. DEFINE wB == w * B
                    qB == q * B
        <4>2. wB \in Int /\ qB \in Int /\ W = wB /\ y = qB /\ (w - q) * B = wB - qB
            BY <1>3, <1>4, <2>3, <4>1
        <4>. HIDE DEF wB, qB
        <4>. QED BY <4>2
      <3>2. (0 + (w - q) * B) % B = 0 % B
        <4>1. 0 \in Int
            OBVIOUS
        <4>. QED BY <1>1, <3>1, <4>1, RemainderShift, Zenon
      <3>. QED BY <1>6, <2>1, <2>3, <3>1, <3>2
  <2>4. CASE y # 0 /\ n # 0
      <3>1. W - y = (B - n) + ((w - q) - 1) * B /\ (w - q) - 1 \in Int
        <4>1. ((w - q) - 1) * B = (w * B - q * B) - B /\ w * B \in Int /\ q * B \in Int
            BY SMT
        <4>. DEFINE wB == w * B
                    qB == q * B
        <4>2. wB \in Int /\ qB \in Int /\ W = wB /\ y = qB + n /\ ((w - q) - 1) * B = (wB - qB) - B
            BY <1>3, <1>4, <4>1
        <4>. HIDE DEF wB, qB
        <4>. QED BY <4>2
      <3>2. ((B - n) + ((w - q) - 1) * B) % B = (B - n) % B
        <4>1. B - n \in Int
            OBVIOUS
        <4>. QED BY <1>1, <3>1, <4>1, RemainderShift, Zenon
      <3>3. (B - n) % B = B - n
        <4>1. B - n \in Nat /\ B - n < B
            BY <1>3, <2>4
        <4>. QED BY <4>1, SmallRemainder, Zenon
      <3>. QED BY <1>6, <2>4, <3>1, <3>2, <3>3
  <2>. QED BY <2>2, <2>3, <2>4
<1>8. n \in 0 .. B - 1
  BY <1>1, <1>3
<1>9. \A i \in 0 .. B - 1 : (i + y) % B = IF i + n < B THEN i + n ELSE (i + n) - B
  BY <1>5
<1>. QED BY <1>1, <1>3, <1>7, <1>8, <1>9, Zenon

(* A rotation moves every bit.                                             *)
LEMMA RotationMovesBits ==
    ASSUME NEW x \in Number, NEW y \in Number, W % Bits = 0, NEW i \in 0 .. Bits - 1
    PROVE  /\ U(x * Power[y % Bits]) \in Number
           /\ x \div Power[U(0 - y) % Bits] \in Number
           /\ (x \div Power[i]) % 2
                  = (Or(U(x * Power[y % Bits]), x \div Power[U(0 - y) % Bits])
                       \div Power[(i + y) % Bits]) % 2
<1>1. Bits \in Nat /\ Bits >= 2
  BY BitsAssumption
<1>2. x \in Nat /\ x < W /\ W \in Nat /\ U(x) = x
  BY WidthFacts, UFacts DEF Number
<1>3. PICK n \in 0 .. Bits - 1 :
         /\ n = y % Bits
         /\ U(0 - y) % Bits = IF n = 0 THEN 0 ELSE Bits - n
         /\ (i + y) % Bits = IF i + n < Bits THEN i + n ELSE (i + n) - Bits
  BY OppositeAmount, Zenon
<1>4. CASE n = 0
  <2>0. y % Bits = 0 /\ U(0 - y) % Bits = 0
      BY <1>3, <1>4, Zenon
  <2>1. y % Bits = 0 /\ U(0 - y) % Bits = 0 /\ (i + y) % Bits = i
    <3>1. i + n < Bits /\ i + n = i
        BY <1>1, <1>4
    <3>. QED BY <1>3, <2>0, <3>1, Zenon
  <2>2. x * Power[0] = x /\ x \div Power[0] = x
      <3>1. Power[0] = 1
          BY PowerFacts
      <3>. QED BY <1>2, <3>1
  <2>. QED BY <1>2, <2>1, <2>2, SameFacts
<1>5. CASE n # 0
  <2>1. PICK m \in Nat : m = Bits - n /\ n + m = Bits /\ n \in Nat
      BY <1>1, <1>5
  <2>2. y % Bits = n /\ U(0 - y) % Bits = m
      BY <1>3, <1>5, <2>1
  <2>3. PICK P \in Nat : P = Power[n] /\ P >= 1
      BY <2>1, PowerFacts
  <2>4. PICK M \in Nat : M = Power[m] /\ M >= 1
      BY PowerFacts
  <2>5. W = P * M
      BY <2>1, <2>3, <2>4, PowerSum DEF W
  <2>6. PICK hi \in Nat, lo \in Nat : /\ hi = x \div M /\ lo < M /\ lo + 1 <= M
                                      /\ x = hi * M + lo
    <3>1. x \in Int /\ x >= 0
        BY <1>2
    <3>2. PICK q \in Int, r \in Nat : /\ q = x \div M /\ x = q * M + r
                                      /\ r < M /\ r + 1 <= M /\ (x >= 0 => q >= 0)
        BY <2>4, <3>1, Divided, Zenon
    <3>3. q \in Nat
        BY <3>1, <3>2
    <3>. QED BY <3>2, <3>3, Zenon
  <2>. DEFINE hM == hi * M
              lP == lo * P
              PM == P * M
  <2>7. hM \in Nat /\ lP \in Nat /\ PM \in Nat /\ (hi >= P => hM >= PM) /\ lP + P <= PM
    <3>1. hM \in Nat /\ lP \in Nat /\ PM \in Nat /\ (hi >= P => hM >= PM)
        BY SMT
    <3>2. (lo + 1) * P <= M * P /\ (lo + 1) * P = lP + P /\ M * P = PM
        BY SMT, <2>6
    <3>. QED BY <3>1, <3>2
  <2>8. hi < P
    <3>1. x = hM + lo /\ x < PM
        BY <1>2, <2>5, <2>6
    <3>. HIDE DEF hM, PM
    <3>. QED BY <2>7, <3>1
  <2>9. x * P = lP + hi * W
    <3>1. (hi * M + lo) * P = lP + hi * (P * M)
        BY SMT
    <3>. QED BY <2>5, <2>6, <3>1
  <2>10. lP \in Number /\ hi \in Number
    <3>1. W = PM
        BY <2>5
    <3>. HIDE DEF lP, PM
    <3>2. P <= PM
        BY <2>3, <2>7
    <3>. QED BY <2>3, <2>7, <2>8, <3>1, <3>2 DEF Number
  <2>11. U(x * P) = lP
    <3>1. U(lP + hi * W) = U(lP)
        BY <2>7, UShift
    <3>2. U(lP) = lP
        BY <2>7, <2>10, UFacts
    <3>. QED BY <2>9, <3>1, <3>2
  <2>12. Or(lP, hi) = lo * P + hi
    <3>1. lP % P = 0
      <4>1. lP = lo * P + 0 /\ lP \in Int /\ 0 \in 0 .. P - 1
          BY <2>3, <2>7
      <4>. HIDE DEF lP
      <4>. QED BY <2>3, <4>1, DivModUnique
    <3>2. n \in 0 .. Bits
        BY <1>1
    <3>. HIDE DEF lP
    <3>3. Or(lP, hi) = lP + hi
        BY <2>3, <2>8, <2>10, <3>1, <3>2, OrDisjoint
    <3>. QED BY <3>3 DEF lP
  <2>13. (x \div Power[i]) % 2 = ((lo * P + hi) \div Power[(i + y) % Bits]) % 2
    <3>1. CASE i < m
      <4>1. i \in Nat
          BY <1>1
      <4>2. (i + y) % Bits = n + i
          BY <1>1, <1>3, <2>1, <3>1
      <4>3. ASSUME NEW p \in Nat, NEW q \in Nat
            PROVE  ((p * Power[m] + q) \div Power[i]) % 2 = (q \div Power[i]) % 2
          BY <3>1, <4>1, BitBelow
      <4>4. ((hi * M + lo) \div Power[i]) % 2 = (lo \div Power[i]) % 2
          BY <2>4, <4>3
      <4>5. (lo * P + hi) \div Power[n + i] = lo \div Power[i]
          BY <2>1, <2>3, <2>8, <4>1, BitAbove
      <4>. QED BY <2>6, <4>2, <4>4, <4>5
    <3>2. CASE ~(i < m)
      <4>1. PICK j \in Nat : i = m + j /\ j < n /\ (i + y) % Bits = j
        <5>1. i - m \in Nat /\ i = m + (i - m) /\ i - m < n /\ (i + y) % Bits = i - m
            BY <1>1, <1>3, <2>1, <3>2
        <5>. QED BY <5>1
      <4>2. j < n /\ n \in Nat
          BY <2>1, <4>1
      <4>3. ASSUME NEW p \in Nat, NEW q \in Nat
            PROVE  ((p * Power[n] + q) \div Power[j]) % 2 = (q \div Power[j]) % 2
          BY <4>2, BitBelow
      <4>4. ((lo * P + hi) \div Power[j]) % 2 = (hi \div Power[j]) % 2
          BY <2>3, <4>3
      <4>5. (hi * M + lo) \div Power[m + j] = hi \div Power[j]
          BY <2>4, <2>6, BitAbove
      <4>. QED BY <2>6, <4>1, <4>4, <4>5
    <3>. QED BY <3>1, <3>2
  <2>. QED BY <2>2, <2>3, <2>4, <2>6, <2>10, <2>11, <2>12, <2>13
<1>. QED BY <1>4, <1>5

(* The sequences of scalar instructions.                                   *)
BinaryOps == {"ADDU", "SUBU", "AND", "OR", "XOR", "NOR", "SLT", "SLTU", "SLLV", "SRLV", "SRAV"}
ImmediateOps == {"ADDIU", "ANDI", "ORI", "XORI", "LUI", "SLTI", "SLTIU", "SLL", "SRL", "SRA"}

(* What the instructions compute, in the terms of Width.                   *)
LEMMA BinaryResults ==
    ASSUME NEW s, NEW t
    PROVE  /\ Scalar!Binary("ADDU", s, t) = U(s + t)
           /\ Scalar!Binary("SUBU", s, t) = U(s - t)
           /\ Scalar!Binary("AND", s, t) = And(s, t)
           /\ Scalar!Binary("OR", s, t) = Or(s, t)
           /\ Scalar!Binary("XOR", s, t) = Xor(s, t)
           /\ Scalar!Binary("NOR", s, t) = Invert(Or(s, t))
           /\ Scalar!Binary("SLT", s, t) = Scalar!Bool(S(s) < S(t))
           /\ Scalar!Binary("SLTU", s, t) = Scalar!Bool(s < t)
           /\ Scalar!Binary("SLLV", s, t) = U(s * Power[t % Bits])
           /\ Scalar!Binary("SRLV", s, t) = s \div Power[t % Bits]
           /\ Scalar!Binary("SRAV", s, t) = U(S(s) \div Power[t % Bits])
BY ScalarPower, ScalarWidth, ScalarOperators
   DEF Scalar!Binary, Scalar!Below, Scalar!Amount, Scalar!ShiftSigned

(* The same for the instructions with an immediate.                        *)
LEMMA ImmediateResults ==
    ASSUME NEW s, NEW imm
    PROVE  /\ Scalar!Immediate("ADDIU", s, imm) = U(s + Scalar!Extend(imm))
           /\ Scalar!Immediate("ANDI", s, imm) = And(s, imm)
           /\ Scalar!Immediate("ORI", s, imm) = Or(s, imm)
           /\ Scalar!Immediate("XORI", s, imm) = Xor(s, imm)
           /\ Scalar!Immediate("LUI", s, imm) = U(imm * Power[Scalar!Half])
           /\ Scalar!Immediate("SLTI", s, imm) = Scalar!Bool(S(s) < Scalar!Extend(imm))
           /\ Scalar!Immediate("SLTIU", s, imm) = Scalar!Bool(s < U(Scalar!Extend(imm)))
           /\ Scalar!Immediate("SLL", s, imm) = U(s * Power[imm])
           /\ Scalar!Immediate("SRL", s, imm) = s \div Power[imm]
           /\ Scalar!Immediate("SRA", s, imm) = U(S(s) \div Power[imm])
BY ScalarPower, ScalarWidth, ScalarOperators
   DEF Scalar!Immediate, Scalar!Below, Scalar!ShiftSigned

(* Shifts keep the width of a register.                                    *)
LEMMA ShiftsIn ==
    ASSUME NEW s \in Number, NEW n \in Nat
    PROVE  /\ U(s * Power[n]) \in Number
           /\ s \div Power[n] \in Number
           /\ U(S(s) \div Power[n]) \in Number
<1>1. PICK P \in Nat : P = Power[n] /\ P >= 1
  BY PowerFacts
<1>2. s \in Nat /\ s < W /\ W \in Nat /\ S(s) \in Int /\ -Lowest <= S(s) /\ S(s) < Lowest
  BY WidthFacts, SFacts
<1>3. U(s * P) \in Number
  <2>1. s * P \in Int
      BY SMT, <1>2
  <2>. QED BY <2>1, UFacts
<1>4. U(S(s) \div P) \in Number
  BY <1>1, <1>2, ShiftFacts
<1>5. s \div P \in Number
  <2>1. s \in Int /\ s >= 0
      BY <1>2
  <2>2. PICK q \in Int, m \in Nat : /\ q = s \div P /\ m = s % P /\ s = q * P + m
                                    /\ m < P /\ m + 1 <= P /\ (s >= 0 => q >= 0)
      BY <1>1, <2>1, Divided, Zenon
  <2>3. q \in Nat
      BY <2>1, <2>2
  <2>4. q * P >= q /\ q * P \in Nat
      BY SMT, <1>1, <2>3
  <2>. DEFINE qP == q * P
  <2>5. qP \in Nat /\ qP >= q /\ s = qP + m
      BY <2>2, <2>4
  <2>. HIDE DEF qP
  <2>6. q \in Number
      BY <1>2, <2>3, <2>5 DEF Number
  <2>. QED BY <2>2, <2>6
<1>. QED BY <1>1, <1>3, <1>4, <1>5

(* An amount counts modulo the width.                                      *)
LEMMA AmountIn == \A t \in Number : t % Bits \in Nat
<1>. SUFFICES ASSUME NEW t \in Number
              PROVE  t % Bits \in Nat
  OBVIOUS
<1>1. t \in Int /\ Bits \in Nat /\ Bits >= 1
  BY BitsAssumption DEF Number
<1>2. PICK q \in Int, m \in Nat : m = t % Bits
  BY <1>1, Divided, Zenon
<1>. QED BY <1>2

(* A result is a number of the width.                                      *)
LEMMA BinaryIn ==
    ASSUME NEW op \in BinaryOps, NEW s \in Number, NEW t \in Number
    PROVE  Scalar!Binary(op, s, t) \in Number
<1>1. s \in Int /\ t \in Int /\ s + t \in Int /\ s - t \in Int
  BY DEF Number
<1>2. U(s + t) \in Number /\ U(s - t) \in Number
  BY <1>1, UFacts
<1>3. And(s, t) \in Number /\ Or(s, t) \in Number /\ Xor(s, t) \in Number
  BY AndFacts, OrFacts, XorFacts
<1>4. Invert(Or(s, t)) \in Number
  BY <1>3, InvertFacts
<1>5. \A v : Scalar!Bool(v) \in Number
  BY BoolFacts
<1>6. /\ U(s * Power[t % Bits]) \in Number /\ s \div Power[t % Bits] \in Number
      /\ U(S(s) \div Power[t % Bits]) \in Number
  BY AmountIn, ShiftsIn
<1>7. /\ Scalar!Binary("ADDU", s, t) \in Number /\ Scalar!Binary("SUBU", s, t) \in Number
      /\ Scalar!Binary("AND", s, t) \in Number /\ Scalar!Binary("OR", s, t) \in Number
      /\ Scalar!Binary("XOR", s, t) \in Number /\ Scalar!Binary("NOR", s, t) \in Number
      /\ Scalar!Binary("SLT", s, t) \in Number /\ Scalar!Binary("SLTU", s, t) \in Number
      /\ Scalar!Binary("SLLV", s, t) \in Number /\ Scalar!Binary("SRLV", s, t) \in Number
      /\ Scalar!Binary("SRAV", s, t) \in Number
  BY <1>2, <1>3, <1>4, <1>5, <1>6, BinaryResults
<1>. QED BY <1>7, Zenon DEF BinaryOps

(* The same for the instructions with an immediate.                        *)
LEMMA ImmediateIn ==
    ASSUME NEW op \in ImmediateOps, NEW s \in Number, NEW imm \in Number, Bits % 2 = 0, Bits >= 4
    PROVE  Scalar!Immediate(op, s, imm) \in Number
<1>1. PICK e \in Nat : /\ e >= 2 /\ Power[Scalar!Half] = 2 * e
                       /\ \A n : Scalar!Extend(n) = IF n < e THEN n ELSE n - 2 * e
  BY HalfFacts
<1>2. s \in Int /\ s + Scalar!Extend(imm) \in Int /\ imm * Power[Scalar!Half] \in Int
      /\ Scalar!Extend(imm) \in Int
  <2>1. s \in Int /\ imm \in Int /\ Scalar!Extend(imm) \in Int
      BY <1>1 DEF Number
  <2>2. imm * Power[Scalar!Half] \in Int
      BY SMT, <1>1, <2>1
  <2>. QED BY <2>1, <2>2
<1>3. imm \in Nat
  BY DEF Number
<1>4. U(s + Scalar!Extend(imm)) \in Number /\ U(imm * Power[Scalar!Half]) \in Number
  BY <1>2, UFacts
<1>5. And(s, imm) \in Number /\ Or(s, imm) \in Number /\ Xor(s, imm) \in Number
  BY AndFacts, OrFacts, XorFacts
<1>6. \A v : Scalar!Bool(v) \in Number
  BY BoolFacts
<1>7. /\ U(s * Power[imm]) \in Number /\ s \div Power[imm] \in Number
      /\ U(S(s) \div Power[imm]) \in Number
  BY <1>3, ShiftsIn
<1>8. /\ Scalar!Immediate("ADDIU", s, imm) \in Number /\ Scalar!Immediate("ANDI", s, imm) \in Number
      /\ Scalar!Immediate("ORI", s, imm) \in Number /\ Scalar!Immediate("XORI", s, imm) \in Number
      /\ Scalar!Immediate("LUI", s, imm) \in Number /\ Scalar!Immediate("SLTI", s, imm) \in Number
      /\ Scalar!Immediate("SLTIU", s, imm) \in Number /\ Scalar!Immediate("SLL", s, imm) \in Number
      /\ Scalar!Immediate("SRL", s, imm) \in Number /\ Scalar!Immediate("SRA", s, imm) \in Number
  BY <1>4, <1>5, <1>6, <1>7, ImmediateResults
<1>. QED BY <1>8, Zenon DEF ImmediateOps

(* The registers between two instructions: the operands stay where they    *)
(* are, and $0 is zero after the first.                                    *)
RegistersKept ==
    /\ registers \in [0 .. 7 -> Number]
    /\ firstWords \in [hi : Number, lo : Number] /\ secondWords \in [hi : Number, lo : Number]
    /\ registers[1] = firstWords.lo /\ registers[2] = firstWords.hi
    /\ registers[3] = secondWords.lo /\ registers[4] = secondWords.hi
    /\ reached \in Nat /\ (reached > 0 => registers[0] = 0)

(* What an instruction does.                                               *)
Assigns(d, v) ==
    /\ registers' \in [0 .. 7 -> Number] /\ registers'[0] = 0 /\ registers'[d] = v
    /\ \A k \in 1 .. 7 : k # d => registers'[k] = registers[k]
    /\ reached' = reached + 1 /\ UNCHANGED <<firstWords, secondWords, sequence>>

(* An instruction whose result is a number keeps the registers and the     *)
(* operands.                                                               *)
LEMMA KeptAssigns ==
    ASSUME RegistersKept, NEW d \in 5 .. 7, NEW v, Assigns(d, v)
    PROVE  RegistersKept'
BY DEF RegistersKept, Assigns

(* An instruction with two source registers assigns its result.            *)
LEMMA RunsRegister ==
    ASSUME RegistersKept, Scalar!Step,
           NEW op \in BinaryOps, NEW d \in 5 .. 7, NEW s \in 0 .. 7, NEW t \in 0 .. 7,
           Scalar!Program[reached + 1] = Scalar!R(op, d, s, t)
    PROVE  Assigns(d, Scalar!Binary(op, registers[s], registers[t]))
<1>. DEFINE v == Scalar!Binary(op, registers[s], registers[t])
            i == Scalar!R(op, d, s, t)
<1>1. v \in Number
  BY BinaryIn DEF RegistersKept
<1>2. Scalar!Result(i) = v /\ i.d = d
  BY DEF Scalar!Result, Scalar!R
<1>. HIDE DEF v, i
<1>3. /\ registers' = [registers EXCEPT ![d] = v, ![0] = 0]
      /\ reached' = reached + 1 /\ UNCHANGED <<firstWords, secondWords, sequence>>
  BY <1>2 DEF Scalar!Step, i
<1>4. 0 \in Number
  BY BoolFacts
<1>5. Assigns(d, v)
  BY <1>1, <1>3, <1>4 DEF Assigns, RegistersKept
<1>. QED BY <1>5 DEF v

(* An instruction with an immediate assigns its result.                    *)
LEMMA RunsImmediate ==
    ASSUME RegistersKept, Scalar!Step,
           NEW op \in ImmediateOps, NEW d \in 5 .. 7, NEW s \in 0 .. 7, NEW imm \in Number,
           Bits % 2 = 0, Bits >= 4,
           Scalar!Program[reached + 1] = Scalar!N(op, d, s, imm)
    PROVE  Assigns(d, Scalar!Immediate(op, registers[s], imm))
<1>. DEFINE v == Scalar!Immediate(op, registers[s], imm)
            i == Scalar!N(op, d, s, imm)
<1>1. v \in Number
  BY ImmediateIn DEF RegistersKept
<1>2. Scalar!Result(i) = v /\ i.d = d
  BY DEF Scalar!Result, Scalar!N
<1>. HIDE DEF v, i
<1>3. /\ registers' = [registers EXCEPT ![d] = v, ![0] = 0]
      /\ reached' = reached + 1 /\ UNCHANGED <<firstWords, secondWords, sequence>>
  BY <1>2 DEF Scalar!Step, i
<1>4. 0 \in Number
  BY BoolFacts
<1>5. Assigns(d, v)
  BY <1>1, <1>3, <1>4 DEF Assigns, RegistersKept
<1>. QED BY <1>5 DEF v

(* A number is below its power of two.                                     *)
LEMMA PowerAbove == \A n \in Nat : n < Power[n]
<1>. DEFINE T == {n \in Nat : n < Power[n]}
<1>1. 0 \in T
  BY PowerFacts
<1>2. ASSUME NEW n \in Nat, n \in T
      PROVE  n + 1 \in T
  BY <1>2, PowerFacts
<1>. HIDE DEF T
<1>3. \A n \in Nat : n \in T
  BY <1>1, <1>2, SetInduction
<1>. QED BY <1>3 DEF T

(* The immediates of the sequences fit into a register.                    *)
LEMMA ImmediatesIn ==
    ASSUME Bits % 2 = 0, Bits >= 4, NEW x \in Number
    PROVE  /\ 1 \in Number /\ Bits - 1 \in Number /\ Scalar!Half \in Number
           /\ Power[Scalar!Half] - 1 \in Number
           /\ (x \div Power[Scalar!Half]) \in Number /\ (x % Power[Scalar!Half]) \in Number
           /\ (((x + Power[Scalar!Half - 1]) \div Power[Scalar!Half]) % Power[Scalar!Half]) \in Number
<1>1. PICK e \in Nat, upper \in Nat, lower \in Nat :
              /\ e >= 2 /\ Power[Scalar!Half - 1] = e /\ Power[Scalar!Half] = 2 * e
              /\ W = (2 * e) * (2 * e)
              /\ upper = x \div Power[Scalar!Half] /\ lower = x % Power[Scalar!Half]
              /\ upper < 2 * e /\ lower < 2 * e
  BY HalvesOf
<1>2. PICK h \in Nat : h = 2 * e /\ h >= 4
  BY <1>1
<1>3. W \in Nat /\ h <= W
  <2>1. h * h >= h /\ h * h \in Nat
      BY SMT, <1>2
  <2>. QED BY <1>1, <1>2, <2>1
<1>4. upper \in Number /\ lower \in Number /\ 1 \in Number /\ Power[Scalar!Half] - 1 \in Number
  BY <1>1, <1>2, <1>3 DEF Number
<1>5. Bits - 1 \in Number /\ Scalar!Half \in Number
  <2>1. Bits \in Nat /\ Bits < W
      BY BitsAssumption, PowerAbove DEF W
  <2>2. Scalar!Half \in 0 .. Bits
      BY HalfFacts
  <2>. QED BY <1>3, <2>1, <2>2 DEF Number
<1>6. ((x + e) \div h) % h \in Number
  <2>1. x + e \in Int /\ h >= 1
      BY <1>2 DEF Number
  <2>2. (x + e) \div h \in Int
      BY <2>1, QuotientIn, Zenon
  <2>3. ((x + e) \div h) % h \in 0 .. h - 1
      BY <2>1, <2>2, DivMod, Zenon
  <2>. QED BY <1>2, <1>3, <2>3 DEF Number
<1>. QED BY <1>1, <1>2, <1>4, <1>5, <1>6

(* A sum of two words.                                                     *)
SumRun ==
    sequence = "sum" =>
        /\ reached <= 4
        /\ reached >= 1 => registers[5] = U(registers[1] + registers[3])
        /\ reached >= 2 => registers[7] = Scalar!Bool(registers[5] < registers[3])
        /\ reached = 3 => registers[6] = U(registers[2] + registers[4])
        /\ reached >= 4 => registers[6] = U(U(registers[2] + registers[4]) + registers[7])

(* Every instruction of the sum keeps what is known of it; so below for    *)
(* each sequence.                                                          *)
LEMMA SumRuns ==
    ASSUME RegistersKept, Scalar!Step, Bits % 2 = 0, Bits >= 4, sequence = "sum", SumRun
    PROVE  RegistersKept' /\ SumRun'
<1>1. /\ Scalar!Program[1] = Scalar!R("ADDU", 5, 1, 3)
      /\ Scalar!Program[2] = Scalar!R("SLTU", 7, 5, 3)
      /\ Scalar!Program[3] = Scalar!R("ADDU", 6, 2, 4)
      /\ Scalar!Program[4] = Scalar!R("ADDU", 6, 6, 7)
      /\ Len(Scalar!Program) = 4
  BY DEF Scalar!Program
<1>2. reached \in 0 .. 3
  BY <1>1 DEF Scalar!Step, RegistersKept
<1>3. CASE reached = 0
  <2>1. Scalar!Program[reached + 1] = Scalar!R("ADDU", 5, 1, 3) /\ "ADDU" \in BinaryOps
      BY <1>1, <1>3 DEF BinaryOps
  <2>2. Assigns(5, Scalar!Binary("ADDU", registers[1], registers[3]))
      BY <2>1, RunsRegister
  <2>3. Scalar!Binary("ADDU", registers[1], registers[3]) = U(registers[1] + registers[3])
      BY <1>3, BinaryResults DEF SumRun, RegistersKept
  <2>4. RegistersKept'
      BY <2>2, KeptAssigns
  <2>5. SumRun'
      BY <1>3, <2>2, <2>3 DEF SumRun, Assigns
  <2>. QED BY <2>4, <2>5
<1>4. CASE reached = 1
  <2>1. Scalar!Program[reached + 1] = Scalar!R("SLTU", 7, 5, 3) /\ "SLTU" \in BinaryOps
      BY <1>1, <1>4 DEF BinaryOps
  <2>2. Assigns(7, Scalar!Binary("SLTU", registers[5], registers[3]))
      BY <2>1, RunsRegister
  <2>3. Scalar!Binary("SLTU", registers[5], registers[3]) = Scalar!Bool(registers[5] < registers[3])
      BY <1>4, BinaryResults DEF SumRun, RegistersKept
  <2>4. RegistersKept'
      BY <2>2, KeptAssigns
  <2>5. SumRun'
      BY <1>4, <2>2, <2>3 DEF SumRun, Assigns
  <2>. QED BY <2>4, <2>5
<1>5. CASE reached = 2
  <2>1. Scalar!Program[reached + 1] = Scalar!R("ADDU", 6, 2, 4) /\ "ADDU" \in BinaryOps
      BY <1>1, <1>5 DEF BinaryOps
  <2>2. Assigns(6, Scalar!Binary("ADDU", registers[2], registers[4]))
      BY <2>1, RunsRegister
  <2>3. Scalar!Binary("ADDU", registers[2], registers[4]) = U(registers[2] + registers[4])
      BY <1>5, BinaryResults DEF SumRun, RegistersKept
  <2>4. RegistersKept'
      BY <2>2, KeptAssigns
  <2>5. SumRun'
      BY <1>5, <2>2, <2>3 DEF SumRun, Assigns
  <2>. QED BY <2>4, <2>5
<1>6. CASE reached = 3
  <2>1. Scalar!Program[reached + 1] = Scalar!R("ADDU", 6, 6, 7) /\ "ADDU" \in BinaryOps
      BY <1>1, <1>6 DEF BinaryOps
  <2>2. Assigns(6, Scalar!Binary("ADDU", registers[6], registers[7]))
      BY <2>1, RunsRegister
  <2>3. Scalar!Binary("ADDU", registers[6], registers[7]) = U(U(registers[2] + registers[4]) + registers[7])
      BY <1>6, BinaryResults DEF SumRun, RegistersKept
  <2>4. RegistersKept'
      BY <2>2, KeptAssigns
  <2>5. SumRun'
      BY <1>6, <2>2, <2>3 DEF SumRun, Assigns
  <2>. QED BY <2>4, <2>5
<1>. QED BY <1>2, <1>3, <1>4, <1>5, <1>6

(* A difference of two words.                                              *)
DifferenceRun ==
    sequence = "difference" =>
        /\ reached <= 4
        /\ reached >= 1 => registers[7] = Scalar!Bool(registers[1] < registers[3])
        /\ reached >= 2 => registers[5] = U(registers[1] - registers[3])
        /\ reached = 3 => registers[6] = U(registers[2] - registers[4])
        /\ reached >= 4 => registers[6] = U(U(registers[2] - registers[4]) - registers[7])

(* Every instruction of the difference keeps what is known of it.          *)
LEMMA DifferenceRuns ==
    ASSUME RegistersKept, Scalar!Step, Bits % 2 = 0, Bits >= 4, sequence = "difference", DifferenceRun
    PROVE  RegistersKept' /\ DifferenceRun'
<1>1. /\ Scalar!Program[1] = Scalar!R("SLTU", 7, 1, 3)
      /\ Scalar!Program[2] = Scalar!R("SUBU", 5, 1, 3)
      /\ Scalar!Program[3] = Scalar!R("SUBU", 6, 2, 4)
      /\ Scalar!Program[4] = Scalar!R("SUBU", 6, 6, 7)
      /\ Len(Scalar!Program) = 4
  BY DEF Scalar!Program
<1>2. reached \in 0 .. 3
  BY <1>1 DEF Scalar!Step, RegistersKept
<1>3. CASE reached = 0
  <2>1. Scalar!Program[reached + 1] = Scalar!R("SLTU", 7, 1, 3) /\ "SLTU" \in BinaryOps
      BY <1>1, <1>3 DEF BinaryOps
  <2>2. Assigns(7, Scalar!Binary("SLTU", registers[1], registers[3]))
      BY <2>1, RunsRegister
  <2>3. Scalar!Binary("SLTU", registers[1], registers[3]) = Scalar!Bool(registers[1] < registers[3])
      BY <1>3, BinaryResults DEF DifferenceRun, RegistersKept
  <2>4. RegistersKept'
      BY <2>2, KeptAssigns
  <2>5. DifferenceRun'
      BY <1>3, <2>2, <2>3 DEF DifferenceRun, Assigns
  <2>. QED BY <2>4, <2>5
<1>4. CASE reached = 1
  <2>1. Scalar!Program[reached + 1] = Scalar!R("SUBU", 5, 1, 3) /\ "SUBU" \in BinaryOps
      BY <1>1, <1>4 DEF BinaryOps
  <2>2. Assigns(5, Scalar!Binary("SUBU", registers[1], registers[3]))
      BY <2>1, RunsRegister
  <2>3. Scalar!Binary("SUBU", registers[1], registers[3]) = U(registers[1] - registers[3])
      BY <1>4, BinaryResults DEF DifferenceRun, RegistersKept
  <2>4. RegistersKept'
      BY <2>2, KeptAssigns
  <2>5. DifferenceRun'
      BY <1>4, <2>2, <2>3 DEF DifferenceRun, Assigns
  <2>. QED BY <2>4, <2>5
<1>5. CASE reached = 2
  <2>1. Scalar!Program[reached + 1] = Scalar!R("SUBU", 6, 2, 4) /\ "SUBU" \in BinaryOps
      BY <1>1, <1>5 DEF BinaryOps
  <2>2. Assigns(6, Scalar!Binary("SUBU", registers[2], registers[4]))
      BY <2>1, RunsRegister
  <2>3. Scalar!Binary("SUBU", registers[2], registers[4]) = U(registers[2] - registers[4])
      BY <1>5, BinaryResults DEF DifferenceRun, RegistersKept
  <2>4. RegistersKept'
      BY <2>2, KeptAssigns
  <2>5. DifferenceRun'
      BY <1>5, <2>2, <2>3 DEF DifferenceRun, Assigns
  <2>. QED BY <2>4, <2>5
<1>6. CASE reached = 3
  <2>1. Scalar!Program[reached + 1] = Scalar!R("SUBU", 6, 6, 7) /\ "SUBU" \in BinaryOps
      BY <1>1, <1>6 DEF BinaryOps
  <2>2. Assigns(6, Scalar!Binary("SUBU", registers[6], registers[7]))
      BY <2>1, RunsRegister
  <2>3. Scalar!Binary("SUBU", registers[6], registers[7]) = U(U(registers[2] - registers[4]) - registers[7])
      BY <1>6, BinaryResults DEF DifferenceRun, RegistersKept
  <2>4. RegistersKept'
      BY <2>2, KeptAssigns
  <2>5. DifferenceRun'
      BY <1>6, <2>2, <2>3 DEF DifferenceRun, Assigns
  <2>. QED BY <2>4, <2>5
<1>. QED BY <1>2, <1>3, <1>4, <1>5, <1>6

(* A comparison of two words.                                              *)
LessRun ==
    sequence = "less" =>
        /\ reached <= 6
        /\ reached = 1 => registers[7] = Xor(registers[2], registers[4])
        /\ reached \in 2 .. 3 => registers[7]
                = Scalar!Bool(Xor(registers[2], registers[4]) < U(Scalar!Extend(1)))
        /\ reached \in 3 .. 5 => registers[5] = Scalar!Bool(registers[1] < registers[3])
        /\ reached >= 4 => registers[7]
                = And(Scalar!Bool(Xor(registers[2], registers[4]) < U(Scalar!Extend(1))),
                    Scalar!Bool(registers[1] < registers[3]))
        /\ reached >= 5 => registers[6] = Scalar!Bool(S(registers[2]) < S(registers[4]))
        /\ reached >= 6 => registers[5] = Or(registers[6], registers[7])

(* Every instruction of the comparison keeps what is known of it.          *)
LEMMA LessRuns ==
    ASSUME RegistersKept, Scalar!Step, Bits % 2 = 0, Bits >= 4, sequence = "less", LessRun
    PROVE  RegistersKept' /\ LessRun'
<1>1. /\ Scalar!Program[1] = Scalar!R("XOR", 7, 2, 4)
      /\ Scalar!Program[2] = Scalar!N("SLTIU", 7, 7, 1)
      /\ Scalar!Program[3] = Scalar!R("SLTU", 5, 1, 3)
      /\ Scalar!Program[4] = Scalar!R("AND", 7, 7, 5)
      /\ Scalar!Program[5] = Scalar!R("SLT", 6, 2, 4)
      /\ Scalar!Program[6] = Scalar!R("OR", 5, 6, 7)
      /\ Len(Scalar!Program) = 6
  BY ScalarPower DEF Scalar!Program, Scalar!Upper, Scalar!Lower, RegistersKept
<1>2. reached \in 0 .. 5
  BY <1>1 DEF Scalar!Step, RegistersKept
<1>3. /\ 1 \in Number
  BY ImmediatesIn DEF RegistersKept
<1>4. CASE reached = 0
  <2>1. Scalar!Program[reached + 1] = Scalar!R("XOR", 7, 2, 4) /\ "XOR" \in BinaryOps
      BY <1>1, <1>4 DEF BinaryOps
  <2>2. Assigns(7, Scalar!Binary("XOR", registers[2], registers[4]))
      BY <2>1, RunsRegister
  <2>3. Scalar!Binary("XOR", registers[2], registers[4]) = Xor(registers[2], registers[4])
      BY <1>4, BinaryResults DEF LessRun, RegistersKept
  <2>4. RegistersKept'
      BY <2>2, KeptAssigns
  <2>5. LessRun'
      BY <1>4, <2>2, <2>3 DEF LessRun, Assigns
  <2>. QED BY <2>4, <2>5
<1>5. CASE reached = 1
  <2>1. Scalar!Program[reached + 1] = Scalar!N("SLTIU", 7, 7, 1) /\ "SLTIU" \in ImmediateOps
      BY <1>1, <1>5 DEF ImmediateOps
  <2>2. Assigns(7, Scalar!Immediate("SLTIU", registers[7], 1))
      BY <2>1, <1>3, RunsImmediate
  <2>3. Scalar!Immediate("SLTIU", registers[7], 1)
           = Scalar!Bool(Xor(registers[2], registers[4]) < U(Scalar!Extend(1)))
      BY <1>5, ImmediateResults DEF LessRun, RegistersKept
  <2>4. RegistersKept'
      BY <2>2, KeptAssigns
  <2>5. LessRun'
      BY <1>5, <2>2, <2>3 DEF LessRun, Assigns
  <2>. QED BY <2>4, <2>5
<1>6. CASE reached = 2
  <2>1. Scalar!Program[reached + 1] = Scalar!R("SLTU", 5, 1, 3) /\ "SLTU" \in BinaryOps
      BY <1>1, <1>6 DEF BinaryOps
  <2>2. Assigns(5, Scalar!Binary("SLTU", registers[1], registers[3]))
      BY <2>1, RunsRegister
  <2>3. Scalar!Binary("SLTU", registers[1], registers[3]) = Scalar!Bool(registers[1] < registers[3])
      BY <1>6, BinaryResults DEF LessRun, RegistersKept
  <2>4. RegistersKept'
      BY <2>2, KeptAssigns
  <2>5. LessRun'
      BY <1>6, <2>2, <2>3 DEF LessRun, Assigns
  <2>. QED BY <2>4, <2>5
<1>7. CASE reached = 3
  <2>1. Scalar!Program[reached + 1] = Scalar!R("AND", 7, 7, 5) /\ "AND" \in BinaryOps
      BY <1>1, <1>7 DEF BinaryOps
  <2>2. Assigns(7, Scalar!Binary("AND", registers[7], registers[5]))
      BY <2>1, RunsRegister
  <2>3. Scalar!Binary("AND", registers[7], registers[5])
           = And(Scalar!Bool(Xor(registers[2], registers[4]) < U(Scalar!Extend(1))),
               Scalar!Bool(registers[1] < registers[3]))
      BY <1>7, BinaryResults DEF LessRun, RegistersKept
  <2>4. RegistersKept'
      BY <2>2, KeptAssigns
  <2>5. LessRun'
      BY <1>7, <2>2, <2>3 DEF LessRun, Assigns
  <2>. QED BY <2>4, <2>5
<1>8. CASE reached = 4
  <2>1. Scalar!Program[reached + 1] = Scalar!R("SLT", 6, 2, 4) /\ "SLT" \in BinaryOps
      BY <1>1, <1>8 DEF BinaryOps
  <2>2. Assigns(6, Scalar!Binary("SLT", registers[2], registers[4]))
      BY <2>1, RunsRegister
  <2>3. Scalar!Binary("SLT", registers[2], registers[4]) = Scalar!Bool(S(registers[2]) < S(registers[4]))
      BY <1>8, BinaryResults DEF LessRun, RegistersKept
  <2>4. RegistersKept'
      BY <2>2, KeptAssigns
  <2>5. LessRun'
      BY <1>8, <2>2, <2>3 DEF LessRun, Assigns
  <2>. QED BY <2>4, <2>5
<1>9. CASE reached = 5
  <2>1. Scalar!Program[reached + 1] = Scalar!R("OR", 5, 6, 7) /\ "OR" \in BinaryOps
      BY <1>1, <1>9 DEF BinaryOps
  <2>2. Assigns(5, Scalar!Binary("OR", registers[6], registers[7]))
      BY <2>1, RunsRegister
  <2>3. Scalar!Binary("OR", registers[6], registers[7]) = Or(registers[6], registers[7])
      BY <1>9, BinaryResults DEF LessRun, RegistersKept
  <2>4. RegistersKept'
      BY <2>2, KeptAssigns
  <2>5. LessRun'
      BY <1>9, <2>2, <2>3 DEF LessRun, Assigns
  <2>. QED BY <2>4, <2>5
<1>. QED BY <1>2, <1>4, <1>5, <1>6, <1>7, <1>8, <1>9

(* A rotation.                                                             *)
RotateRun ==
    sequence = "rotate" =>
        /\ reached <= 4
        /\ reached \in 1 .. 3 => registers[5] = U(registers[1] * Power[registers[3] % Bits])
        /\ reached = 2 => registers[7] = U(0 - registers[3])
        /\ reached >= 3 => registers[7] = registers[1] \div Power[U(0 - registers[3]) % Bits]
        /\ reached >= 4 => registers[5] = Or(U(registers[1] * Power[registers[3] % Bits]), registers[7])

(* Every instruction of the rotation keeps what is known of it.            *)
LEMMA RotateRuns ==
    ASSUME RegistersKept, Scalar!Step, Bits % 2 = 0, Bits >= 4, sequence = "rotate", RotateRun
    PROVE  RegistersKept' /\ RotateRun'
<1>1. /\ Scalar!Program[1] = Scalar!R("SLLV", 5, 1, 3)
      /\ Scalar!Program[2] = Scalar!R("SUBU", 7, 0, 3)
      /\ Scalar!Program[3] = Scalar!R("SRLV", 7, 1, 7)
      /\ Scalar!Program[4] = Scalar!R("OR", 5, 5, 7)
      /\ Len(Scalar!Program) = 4
  BY DEF Scalar!Program
<1>2. reached \in 0 .. 3
  BY <1>1 DEF Scalar!Step, RegistersKept
<1>3. CASE reached = 0
  <2>1. Scalar!Program[reached + 1] = Scalar!R("SLLV", 5, 1, 3) /\ "SLLV" \in BinaryOps
      BY <1>1, <1>3 DEF BinaryOps
  <2>2. Assigns(5, Scalar!Binary("SLLV", registers[1], registers[3]))
      BY <2>1, RunsRegister
  <2>3. Scalar!Binary("SLLV", registers[1], registers[3]) = U(registers[1] * Power[registers[3] % Bits])
      BY <1>3, BinaryResults DEF RotateRun, RegistersKept
  <2>4. RegistersKept'
      BY <2>2, KeptAssigns
  <2>5. RotateRun'
      BY <1>3, <2>2, <2>3 DEF RotateRun, Assigns
  <2>. QED BY <2>4, <2>5
<1>4. CASE reached = 1
  <2>1. Scalar!Program[reached + 1] = Scalar!R("SUBU", 7, 0, 3) /\ "SUBU" \in BinaryOps
      BY <1>1, <1>4 DEF BinaryOps
  <2>2. Assigns(7, Scalar!Binary("SUBU", registers[0], registers[3]))
      BY <2>1, RunsRegister
  <2>3. Scalar!Binary("SUBU", registers[0], registers[3]) = U(0 - registers[3])
      BY <1>4, BinaryResults DEF RotateRun, RegistersKept
  <2>4. RegistersKept'
      BY <2>2, KeptAssigns
  <2>5. RotateRun'
      BY <1>4, <2>2, <2>3 DEF RotateRun, Assigns
  <2>. QED BY <2>4, <2>5
<1>5. CASE reached = 2
  <2>1. Scalar!Program[reached + 1] = Scalar!R("SRLV", 7, 1, 7) /\ "SRLV" \in BinaryOps
      BY <1>1, <1>5 DEF BinaryOps
  <2>2. Assigns(7, Scalar!Binary("SRLV", registers[1], registers[7]))
      BY <2>1, RunsRegister
  <2>3. Scalar!Binary("SRLV", registers[1], registers[7])
           = registers[1] \div Power[U(0 - registers[3]) % Bits]
      BY <1>5, BinaryResults DEF RotateRun, RegistersKept
  <2>4. RegistersKept'
      BY <2>2, KeptAssigns
  <2>5. RotateRun'
      BY <1>5, <2>2, <2>3 DEF RotateRun, Assigns
  <2>. QED BY <2>4, <2>5
<1>6. CASE reached = 3
  <2>1. Scalar!Program[reached + 1] = Scalar!R("OR", 5, 5, 7) /\ "OR" \in BinaryOps
      BY <1>1, <1>6 DEF BinaryOps
  <2>2. Assigns(5, Scalar!Binary("OR", registers[5], registers[7]))
      BY <2>1, RunsRegister
  <2>3. Scalar!Binary("OR", registers[5], registers[7])
           = Or(U(registers[1] * Power[registers[3] % Bits]), registers[7])
      BY <1>6, BinaryResults DEF RotateRun, RegistersKept
  <2>4. RegistersKept'
      BY <2>2, KeptAssigns
  <2>5. RotateRun'
      BY <1>6, <2>2, <2>3 DEF RotateRun, Assigns
  <2>. QED BY <2>4, <2>5
<1>. QED BY <1>2, <1>3, <1>4, <1>5, <1>6

(* A magnitude.                                                            *)
MagnitudeRun ==
    sequence = "magnitude" =>
        /\ reached <= 3
        /\ reached >= 1 => registers[7] = U(S(registers[1]) \div Power[Bits - 1])
        /\ reached = 2 => registers[5] = Xor(registers[1], registers[7])
        /\ reached >= 3 => registers[5] = U(Xor(registers[1], registers[7]) - registers[7])

(* Every instruction of the magnitude keeps what is known of it.           *)
LEMMA MagnitudeRuns ==
    ASSUME RegistersKept, Scalar!Step, Bits % 2 = 0, Bits >= 4, sequence = "magnitude", MagnitudeRun
    PROVE  RegistersKept' /\ MagnitudeRun'
<1>1. /\ Scalar!Program[1] = Scalar!N("SRA", 7, 1, Bits - 1)
      /\ Scalar!Program[2] = Scalar!R("XOR", 5, 1, 7)
      /\ Scalar!Program[3] = Scalar!R("SUBU", 5, 5, 7)
      /\ Len(Scalar!Program) = 3
  BY ScalarPower DEF Scalar!Program, Scalar!Upper, Scalar!Lower, RegistersKept
<1>2. reached \in 0 .. 2
  BY <1>1 DEF Scalar!Step, RegistersKept
<1>3. /\ Bits - 1 \in Number
  BY ImmediatesIn DEF RegistersKept
<1>4. CASE reached = 0
  <2>1. Scalar!Program[reached + 1] = Scalar!N("SRA", 7, 1, Bits - 1) /\ "SRA" \in ImmediateOps
      BY <1>1, <1>4 DEF ImmediateOps
  <2>2. Assigns(7, Scalar!Immediate("SRA", registers[1], Bits - 1))
      BY <2>1, <1>3, RunsImmediate
  <2>3. Scalar!Immediate("SRA", registers[1], Bits - 1) = U(S(registers[1]) \div Power[Bits - 1])
      BY <1>4, ImmediateResults DEF MagnitudeRun, RegistersKept
  <2>4. RegistersKept'
      BY <2>2, KeptAssigns
  <2>5. MagnitudeRun'
      BY <1>4, <2>2, <2>3 DEF MagnitudeRun, Assigns
  <2>. QED BY <2>4, <2>5
<1>5. CASE reached = 1
  <2>1. Scalar!Program[reached + 1] = Scalar!R("XOR", 5, 1, 7) /\ "XOR" \in BinaryOps
      BY <1>1, <1>5 DEF BinaryOps
  <2>2. Assigns(5, Scalar!Binary("XOR", registers[1], registers[7]))
      BY <2>1, RunsRegister
  <2>3. Scalar!Binary("XOR", registers[1], registers[7]) = Xor(registers[1], registers[7])
      BY <1>5, BinaryResults DEF MagnitudeRun, RegistersKept
  <2>4. RegistersKept'
      BY <2>2, KeptAssigns
  <2>5. MagnitudeRun'
      BY <1>5, <2>2, <2>3 DEF MagnitudeRun, Assigns
  <2>. QED BY <2>4, <2>5
<1>6. CASE reached = 2
  <2>1. Scalar!Program[reached + 1] = Scalar!R("SUBU", 5, 5, 7) /\ "SUBU" \in BinaryOps
      BY <1>1, <1>6 DEF BinaryOps
  <2>2. Assigns(5, Scalar!Binary("SUBU", registers[5], registers[7]))
      BY <2>1, RunsRegister
  <2>3. Scalar!Binary("SUBU", registers[5], registers[7]) = U(Xor(registers[1], registers[7]) - registers[7])
      BY <1>6, BinaryResults DEF MagnitudeRun, RegistersKept
  <2>4. RegistersKept'
      BY <2>2, KeptAssigns
  <2>5. MagnitudeRun'
      BY <1>6, <2>2, <2>3 DEF MagnitudeRun, Assigns
  <2>. QED BY <2>4, <2>5
<1>. QED BY <1>2, <1>4, <1>5, <1>6

(* A negative.                                                             *)
NegateRun ==
    sequence = "negate" =>
        /\ reached <= 2
        /\ reached >= 1 => registers[7] = U(registers[1] + Scalar!Extend(Power[Scalar!Half] - 1))
        /\ reached >= 2 => registers[5] = Invert(Or(0, registers[7]))

(* Every instruction of the negation keeps what is known of it.            *)
LEMMA NegateRuns ==
    ASSUME RegistersKept, Scalar!Step, Bits % 2 = 0, Bits >= 4, sequence = "negate", NegateRun
    PROVE  RegistersKept' /\ NegateRun'
<1>1. /\ Scalar!Program[1] = Scalar!N("ADDIU", 7, 1, Power[Scalar!Half] - 1)
      /\ Scalar!Program[2] = Scalar!R("NOR", 5, 0, 7)
      /\ Len(Scalar!Program) = 2
  BY ScalarPower DEF Scalar!Program, Scalar!Upper, Scalar!Lower, RegistersKept
<1>2. reached \in 0 .. 1
  BY <1>1 DEF Scalar!Step, RegistersKept
<1>3. /\ Power[Scalar!Half] - 1 \in Number
  BY ImmediatesIn DEF RegistersKept
<1>4. CASE reached = 0
  <2>1. Scalar!Program[reached + 1] = Scalar!N("ADDIU", 7, 1, Power[Scalar!Half] - 1) /\ "ADDIU" \in ImmediateOps
      BY <1>1, <1>4 DEF ImmediateOps
  <2>2. Assigns(7, Scalar!Immediate("ADDIU", registers[1], Power[Scalar!Half] - 1))
      BY <2>1, <1>3, RunsImmediate
  <2>3. Scalar!Immediate("ADDIU", registers[1], Power[Scalar!Half] - 1)
           = U(registers[1] + Scalar!Extend(Power[Scalar!Half] - 1))
      BY <1>4, ImmediateResults DEF NegateRun, RegistersKept
  <2>4. RegistersKept'
      BY <2>2, KeptAssigns
  <2>5. NegateRun'
      BY <1>4, <2>2, <2>3 DEF NegateRun, Assigns
  <2>. QED BY <2>4, <2>5
<1>5. CASE reached = 1
  <2>1. Scalar!Program[reached + 1] = Scalar!R("NOR", 5, 0, 7) /\ "NOR" \in BinaryOps
      BY <1>1, <1>5 DEF BinaryOps
  <2>2. Assigns(5, Scalar!Binary("NOR", registers[0], registers[7]))
      BY <2>1, RunsRegister
  <2>3. Scalar!Binary("NOR", registers[0], registers[7]) = Invert(Or(0, registers[7]))
      BY <1>5, BinaryResults DEF NegateRun, RegistersKept
  <2>4. RegistersKept'
      BY <2>2, KeptAssigns
  <2>5. NegateRun'
      BY <1>5, <2>2, <2>3 DEF NegateRun, Assigns
  <2>. QED BY <2>4, <2>5
<1>. QED BY <1>2, <1>4, <1>5

(* A minimum.                                                              *)
LeastRun ==
    sequence = "least" =>
        /\ reached <= 5
        /\ reached = 1 => registers[7] = Scalar!Bool(S(registers[1]) < S(registers[3]))
        /\ reached >= 2 => registers[7] = U(0 - Scalar!Bool(S(registers[1]) < S(registers[3])))
        /\ reached = 3 => registers[5] = Xor(registers[1], registers[3])
        /\ reached = 4 => registers[5] = And(Xor(registers[1], registers[3]), registers[7])
        /\ reached >= 5 => registers[5] = Xor(And(Xor(registers[1], registers[3]), registers[7]), registers[3])

(* Every instruction of the minimum keeps what is known of it.             *)
LEMMA LeastRuns ==
    ASSUME RegistersKept, Scalar!Step, Bits % 2 = 0, Bits >= 4, sequence = "least", LeastRun
    PROVE  RegistersKept' /\ LeastRun'
<1>1. /\ Scalar!Program[1] = Scalar!R("SLT", 7, 1, 3)
      /\ Scalar!Program[2] = Scalar!R("SUBU", 7, 0, 7)
      /\ Scalar!Program[3] = Scalar!R("XOR", 5, 1, 3)
      /\ Scalar!Program[4] = Scalar!R("AND", 5, 5, 7)
      /\ Scalar!Program[5] = Scalar!R("XOR", 5, 5, 3)
      /\ Len(Scalar!Program) = 5
  BY DEF Scalar!Program
<1>2. reached \in 0 .. 4
  BY <1>1 DEF Scalar!Step, RegistersKept
<1>3. CASE reached = 0
  <2>1. Scalar!Program[reached + 1] = Scalar!R("SLT", 7, 1, 3) /\ "SLT" \in BinaryOps
      BY <1>1, <1>3 DEF BinaryOps
  <2>2. Assigns(7, Scalar!Binary("SLT", registers[1], registers[3]))
      BY <2>1, RunsRegister
  <2>3. Scalar!Binary("SLT", registers[1], registers[3]) = Scalar!Bool(S(registers[1]) < S(registers[3]))
      BY <1>3, BinaryResults DEF LeastRun, RegistersKept
  <2>4. RegistersKept'
      BY <2>2, KeptAssigns
  <2>5. LeastRun'
      BY <1>3, <2>2, <2>3 DEF LeastRun, Assigns
  <2>. QED BY <2>4, <2>5
<1>4. CASE reached = 1
  <2>1. Scalar!Program[reached + 1] = Scalar!R("SUBU", 7, 0, 7) /\ "SUBU" \in BinaryOps
      BY <1>1, <1>4 DEF BinaryOps
  <2>2. Assigns(7, Scalar!Binary("SUBU", registers[0], registers[7]))
      BY <2>1, RunsRegister
  <2>3. Scalar!Binary("SUBU", registers[0], registers[7])
           = U(0 - Scalar!Bool(S(registers[1]) < S(registers[3])))
      BY <1>4, BinaryResults DEF LeastRun, RegistersKept
  <2>4. RegistersKept'
      BY <2>2, KeptAssigns
  <2>5. LeastRun'
      BY <1>4, <2>2, <2>3 DEF LeastRun, Assigns
  <2>. QED BY <2>4, <2>5
<1>5. CASE reached = 2
  <2>1. Scalar!Program[reached + 1] = Scalar!R("XOR", 5, 1, 3) /\ "XOR" \in BinaryOps
      BY <1>1, <1>5 DEF BinaryOps
  <2>2. Assigns(5, Scalar!Binary("XOR", registers[1], registers[3]))
      BY <2>1, RunsRegister
  <2>3. Scalar!Binary("XOR", registers[1], registers[3]) = Xor(registers[1], registers[3])
      BY <1>5, BinaryResults DEF LeastRun, RegistersKept
  <2>4. RegistersKept'
      BY <2>2, KeptAssigns
  <2>5. LeastRun'
      BY <1>5, <2>2, <2>3 DEF LeastRun, Assigns
  <2>. QED BY <2>4, <2>5
<1>6. CASE reached = 3
  <2>1. Scalar!Program[reached + 1] = Scalar!R("AND", 5, 5, 7) /\ "AND" \in BinaryOps
      BY <1>1, <1>6 DEF BinaryOps
  <2>2. Assigns(5, Scalar!Binary("AND", registers[5], registers[7]))
      BY <2>1, RunsRegister
  <2>3. Scalar!Binary("AND", registers[5], registers[7]) = And(Xor(registers[1], registers[3]), registers[7])
      BY <1>6, BinaryResults DEF LeastRun, RegistersKept
  <2>4. RegistersKept'
      BY <2>2, KeptAssigns
  <2>5. LeastRun'
      BY <1>6, <2>2, <2>3 DEF LeastRun, Assigns
  <2>. QED BY <2>4, <2>5
<1>7. CASE reached = 4
  <2>1. Scalar!Program[reached + 1] = Scalar!R("XOR", 5, 5, 3) /\ "XOR" \in BinaryOps
      BY <1>1, <1>7 DEF BinaryOps
  <2>2. Assigns(5, Scalar!Binary("XOR", registers[5], registers[3]))
      BY <2>1, RunsRegister
  <2>3. Scalar!Binary("XOR", registers[5], registers[3])
           = Xor(And(Xor(registers[1], registers[3]), registers[7]), registers[3])
      BY <1>7, BinaryResults DEF LeastRun, RegistersKept
  <2>4. RegistersKept'
      BY <2>2, KeptAssigns
  <2>5. LeastRun'
      BY <1>7, <2>2, <2>3 DEF LeastRun, Assigns
  <2>. QED BY <2>4, <2>5
<1>. QED BY <1>2, <1>3, <1>4, <1>5, <1>6, <1>7

(* A sign extension.                                                       *)
SignRun ==
    sequence = "sign" =>
        /\ reached <= 2
        /\ reached = 1 => registers[5] = U(registers[1] * Power[Scalar!Half])
        /\ reached >= 2 => registers[5] = U(S(U(registers[1] * Power[Scalar!Half])) \div Power[Scalar!Half])

(* Every instruction of the sign extension keeps what is known of it.      *)
LEMMA SignRuns ==
    ASSUME RegistersKept, Scalar!Step, Bits % 2 = 0, Bits >= 4, sequence = "sign", SignRun
    PROVE  RegistersKept' /\ SignRun'
<1>1. /\ Scalar!Program[1] = Scalar!N("SLL", 5, 1, Scalar!Half)
      /\ Scalar!Program[2] = Scalar!N("SRA", 5, 5, Scalar!Half)
      /\ Len(Scalar!Program) = 2
  BY ScalarPower DEF Scalar!Program, Scalar!Upper, Scalar!Lower, RegistersKept
<1>2. reached \in 0 .. 1
  BY <1>1 DEF Scalar!Step, RegistersKept
<1>3. /\ Scalar!Half \in Number
  BY ImmediatesIn DEF RegistersKept
<1>4. CASE reached = 0
  <2>1. Scalar!Program[reached + 1] = Scalar!N("SLL", 5, 1, Scalar!Half) /\ "SLL" \in ImmediateOps
      BY <1>1, <1>4 DEF ImmediateOps
  <2>2. Assigns(5, Scalar!Immediate("SLL", registers[1], Scalar!Half))
      BY <2>1, <1>3, RunsImmediate
  <2>3. Scalar!Immediate("SLL", registers[1], Scalar!Half) = U(registers[1] * Power[Scalar!Half])
      BY <1>4, ImmediateResults DEF SignRun, RegistersKept
  <2>4. RegistersKept'
      BY <2>2, KeptAssigns
  <2>5. SignRun'
      BY <1>4, <2>2, <2>3 DEF SignRun, Assigns
  <2>. QED BY <2>4, <2>5
<1>5. CASE reached = 1
  <2>1. Scalar!Program[reached + 1] = Scalar!N("SRA", 5, 5, Scalar!Half) /\ "SRA" \in ImmediateOps
      BY <1>1, <1>5 DEF ImmediateOps
  <2>2. Assigns(5, Scalar!Immediate("SRA", registers[5], Scalar!Half))
      BY <2>1, <1>3, RunsImmediate
  <2>3. Scalar!Immediate("SRA", registers[5], Scalar!Half)
           = U(S(U(registers[1] * Power[Scalar!Half])) \div Power[Scalar!Half])
      BY <1>5, ImmediateResults DEF SignRun, RegistersKept
  <2>4. RegistersKept'
      BY <2>2, KeptAssigns
  <2>5. SignRun'
      BY <1>5, <2>2, <2>3 DEF SignRun, Assigns
  <2>. QED BY <2>4, <2>5
<1>. QED BY <1>2, <1>4, <1>5

(* Signed shifts.                                                          *)
ShiftRun ==
    sequence = "shift" =>
        /\ reached <= 3
        /\ reached >= 1 => registers[5] = U(S(registers[1]) \div Power[registers[3] % Bits])
        /\ reached >= 2 => registers[6] = registers[1] \div Power[Bits - 1]
        /\ reached >= 3 => registers[7] = U(S(registers[5]) \div Power[registers[3] % Bits])

(* Every shift keeps what is known of the sequence.                        *)
LEMMA ShiftRuns ==
    ASSUME RegistersKept, Scalar!Step, Bits % 2 = 0, Bits >= 4, sequence = "shift", ShiftRun
    PROVE  RegistersKept' /\ ShiftRun'
<1>1. /\ Scalar!Program[1] = Scalar!R("SRAV", 5, 1, 3)
      /\ Scalar!Program[2] = Scalar!N("SRL", 6, 1, Bits - 1)
      /\ Scalar!Program[3] = Scalar!R("SRAV", 7, 5, 3)
      /\ Len(Scalar!Program) = 3
  BY ScalarPower DEF Scalar!Program, Scalar!Upper, Scalar!Lower, RegistersKept
<1>2. reached \in 0 .. 2
  BY <1>1 DEF Scalar!Step, RegistersKept
<1>3. /\ Bits - 1 \in Number
  BY ImmediatesIn DEF RegistersKept
<1>4. CASE reached = 0
  <2>1. Scalar!Program[reached + 1] = Scalar!R("SRAV", 5, 1, 3) /\ "SRAV" \in BinaryOps
      BY <1>1, <1>4 DEF BinaryOps
  <2>2. Assigns(5, Scalar!Binary("SRAV", registers[1], registers[3]))
      BY <2>1, RunsRegister
  <2>3. Scalar!Binary("SRAV", registers[1], registers[3]) = U(S(registers[1]) \div Power[registers[3] % Bits])
      BY <1>4, BinaryResults DEF ShiftRun, RegistersKept
  <2>4. RegistersKept'
      BY <2>2, KeptAssigns
  <2>5. ShiftRun'
      BY <1>4, <2>2, <2>3 DEF ShiftRun, Assigns
  <2>. QED BY <2>4, <2>5
<1>5. CASE reached = 1
  <2>1. Scalar!Program[reached + 1] = Scalar!N("SRL", 6, 1, Bits - 1) /\ "SRL" \in ImmediateOps
      BY <1>1, <1>5 DEF ImmediateOps
  <2>2. Assigns(6, Scalar!Immediate("SRL", registers[1], Bits - 1))
      BY <2>1, <1>3, RunsImmediate
  <2>3. Scalar!Immediate("SRL", registers[1], Bits - 1) = registers[1] \div Power[Bits - 1]
      BY <1>5, ImmediateResults DEF ShiftRun, RegistersKept
  <2>4. RegistersKept'
      BY <2>2, KeptAssigns
  <2>5. ShiftRun'
      BY <1>5, <2>2, <2>3 DEF ShiftRun, Assigns
  <2>. QED BY <2>4, <2>5
<1>6. CASE reached = 2
  <2>1. Scalar!Program[reached + 1] = Scalar!R("SRAV", 7, 5, 3) /\ "SRAV" \in BinaryOps
      BY <1>1, <1>6 DEF BinaryOps
  <2>2. Assigns(7, Scalar!Binary("SRAV", registers[5], registers[3]))
      BY <2>1, RunsRegister
  <2>3. Scalar!Binary("SRAV", registers[5], registers[3]) = U(S(registers[5]) \div Power[registers[3] % Bits])
      BY <1>6, BinaryResults DEF ShiftRun, RegistersKept
  <2>4. RegistersKept'
      BY <2>2, KeptAssigns
  <2>5. ShiftRun'
      BY <1>6, <2>2, <2>3 DEF ShiftRun, Assigns
  <2>. QED BY <2>4, <2>5
<1>. QED BY <1>2, <1>4, <1>5, <1>6

(* A constant.                                                             *)
ConstantRun ==
    sequence = "constant" =>
        /\ reached <= 2
        /\ reached = 1 => registers[5] = U((registers[1] \div Power[Scalar!Half]) * Power[Scalar!Half])
        /\ reached >= 2 => registers[5]
                = Or(U((registers[1] \div Power[Scalar!Half]) * Power[Scalar!Half]), (registers[1]
                    % Power[Scalar!Half]))

(* Both instructions of the constant keep what is known of it.             *)
LEMMA ConstantRuns ==
    ASSUME RegistersKept, Scalar!Step, Bits % 2 = 0, Bits >= 4, sequence = "constant", ConstantRun
    PROVE  RegistersKept' /\ ConstantRun'
<1>1. /\ Scalar!Program[1] = Scalar!N("LUI", 5, 0, (registers[1] \div Power[Scalar!Half]))
      /\ Scalar!Program[2] = Scalar!N("ORI", 5, 5, (registers[1] % Power[Scalar!Half]))
      /\ Len(Scalar!Program) = 2
  BY ScalarPower DEF Scalar!Program, Scalar!Upper, Scalar!Lower, RegistersKept
<1>2. reached \in 0 .. 1
  BY <1>1 DEF Scalar!Step, RegistersKept
<1>3. /\ (registers[1] % Power[Scalar!Half]) \in Number
      /\ (registers[1] \div Power[Scalar!Half]) \in Number
  BY ImmediatesIn DEF RegistersKept
<1>4. CASE reached = 0
  <2>1. Scalar!Program[reached + 1] = Scalar!N("LUI", 5, 0, (registers[1]
      \div Power[Scalar!Half])) /\ "LUI" \in ImmediateOps
      BY <1>1, <1>4 DEF ImmediateOps
  <2>2. Assigns(5, Scalar!Immediate("LUI", registers[0], (registers[1] \div Power[Scalar!Half])))
      BY <2>1, <1>3, RunsImmediate
  <2>3. Scalar!Immediate("LUI", registers[0], (registers[1] \div Power[Scalar!Half]))
           = U((registers[1] \div Power[Scalar!Half]) * Power[Scalar!Half])
      BY <1>4, ImmediateResults DEF ConstantRun, RegistersKept
  <2>4. RegistersKept'
      BY <2>2, KeptAssigns
  <2>5. ConstantRun'
      BY <1>4, <2>2, <2>3 DEF ConstantRun, Assigns
  <2>. QED BY <2>4, <2>5
<1>5. CASE reached = 1
  <2>1. Scalar!Program[reached + 1] = Scalar!N("ORI", 5, 5, (registers[1]
      % Power[Scalar!Half])) /\ "ORI" \in ImmediateOps
      BY <1>1, <1>5 DEF ImmediateOps
  <2>2. Assigns(5, Scalar!Immediate("ORI", registers[5], (registers[1] % Power[Scalar!Half])))
      BY <2>1, <1>3, RunsImmediate
  <2>3. Scalar!Immediate("ORI", registers[5], (registers[1] % Power[Scalar!Half]))
           = Or(U((registers[1] \div Power[Scalar!Half]) * Power[Scalar!Half]), (registers[1]
               % Power[Scalar!Half]))
      BY <1>5, ImmediateResults DEF ConstantRun, RegistersKept
  <2>4. RegistersKept'
      BY <2>2, KeptAssigns
  <2>5. ConstantRun'
      BY <1>5, <2>2, <2>3 DEF ConstantRun, Assigns
  <2>. QED BY <2>4, <2>5
<1>. QED BY <1>2, <1>4, <1>5

(* An address.                                                             *)
AddressRun ==
    sequence = "address" =>
        /\ reached <= 2
        /\ reached = 1 => registers[5]
                = U((((registers[1] + Power[Scalar!Half - 1]) \div Power[Scalar!Half])
                    % Power[Scalar!Half]) * Power[Scalar!Half])
        /\ reached >= 2 => registers[5]
                = U(U((((registers[1] + Power[Scalar!Half - 1]) \div Power[Scalar!Half])
                    % Power[Scalar!Half]) * Power[Scalar!Half]) + Scalar!Extend((registers[1]
                    % Power[Scalar!Half])))

(* Both instructions of the address keep what is known of it.              *)
LEMMA AddressRuns ==
    ASSUME RegistersKept, Scalar!Step, Bits % 2 = 0, Bits >= 4, sequence = "address", AddressRun
    PROVE  RegistersKept' /\ AddressRun'
<1>1. /\ Scalar!Program[1] = Scalar!N("LUI", 5, 0, (((registers[1] + Power[Scalar!Half - 1])
          \div Power[Scalar!Half]) % Power[Scalar!Half]))
      /\ Scalar!Program[2] = Scalar!N("ADDIU", 5, 5, (registers[1] % Power[Scalar!Half]))
      /\ Len(Scalar!Program) = 2
  BY ScalarPower DEF Scalar!Program, Scalar!Upper, Scalar!Lower, RegistersKept
<1>2. reached \in 0 .. 1
  BY <1>1 DEF Scalar!Step, RegistersKept
<1>3. /\ (((registers[1] + Power[Scalar!Half - 1]) \div Power[Scalar!Half]) % Power[Scalar!Half]) \in Number
      /\ (registers[1] % Power[Scalar!Half]) \in Number
  BY ImmediatesIn DEF RegistersKept
<1>4. CASE reached = 0
  <2>1. Scalar!Program[reached + 1] = Scalar!N("LUI", 5, 0, (((registers[1] + Power[Scalar!Half - 1])
      \div Power[Scalar!Half]) % Power[Scalar!Half])) /\ "LUI" \in ImmediateOps
      BY <1>1, <1>4 DEF ImmediateOps
  <2>2. Assigns(5, Scalar!Immediate("LUI", registers[0], (((registers[1] + Power[Scalar!Half - 1])
      \div Power[Scalar!Half]) % Power[Scalar!Half])))
      BY <2>1, <1>3, RunsImmediate
  <2>3. Scalar!Immediate("LUI", registers[0], (((registers[1] + Power[Scalar!Half - 1])
      \div Power[Scalar!Half]) % Power[Scalar!Half]))
           = U((((registers[1] + Power[Scalar!Half - 1]) \div Power[Scalar!Half]) % Power[Scalar!Half])
               * Power[Scalar!Half])
      BY <1>4, ImmediateResults DEF AddressRun, RegistersKept
  <2>4. RegistersKept'
      BY <2>2, KeptAssigns
  <2>5. AddressRun'
      BY <1>4, <2>2, <2>3 DEF AddressRun, Assigns
  <2>. QED BY <2>4, <2>5
<1>5. CASE reached = 1
  <2>1. Scalar!Program[reached + 1] = Scalar!N("ADDIU", 5, 5, (registers[1]
      % Power[Scalar!Half])) /\ "ADDIU" \in ImmediateOps
      BY <1>1, <1>5 DEF ImmediateOps
  <2>2. Assigns(5, Scalar!Immediate("ADDIU", registers[5], (registers[1] % Power[Scalar!Half])))
      BY <2>1, <1>3, RunsImmediate
  <2>3. Scalar!Immediate("ADDIU", registers[5], (registers[1] % Power[Scalar!Half]))
           = U(U((((registers[1] + Power[Scalar!Half - 1]) \div Power[Scalar!Half])
               % Power[Scalar!Half]) * Power[Scalar!Half]) + Scalar!Extend((registers[1]
               % Power[Scalar!Half])))
      BY <1>5, ImmediateResults DEF AddressRun, RegistersKept
  <2>4. RegistersKept'
      BY <2>2, KeptAssigns
  <2>5. AddressRun'
      BY <1>5, <2>2, <2>3 DEF AddressRun, Assigns
  <2>. QED BY <2>4, <2>5
<1>. QED BY <1>2, <1>4, <1>5

(* Extended immediates.                                                    *)
SaturatedRun ==
    sequence = "saturated" =>
        /\ reached <= 4
        /\ reached >= 1 => registers[5]
                = Scalar!Bool(S(registers[1]) < Scalar!Extend((registers[1] % Power[Scalar!Half])))
        /\ reached >= 2 => registers[6]
                = Scalar!Bool(registers[1] < U(Scalar!Extend((registers[1] % Power[Scalar!Half]))))
        /\ reached = 3 => registers[7] = And(registers[1], (registers[1] % Power[Scalar!Half]))
        /\ reached >= 4 => registers[7]
                = Xor(And(registers[1], (registers[1] % Power[Scalar!Half])), (registers[1]
                    % Power[Scalar!Half]))

(* Every comparison with an immediate keeps what is known of the sequence. *)
LEMMA SaturatedRuns ==
    ASSUME RegistersKept, Scalar!Step, Bits % 2 = 0, Bits >= 4, sequence = "saturated", SaturatedRun
    PROVE  RegistersKept' /\ SaturatedRun'
<1>1. /\ Scalar!Program[1] = Scalar!N("SLTI", 5, 1, (registers[1] % Power[Scalar!Half]))
      /\ Scalar!Program[2] = Scalar!N("SLTIU", 6, 1, (registers[1] % Power[Scalar!Half]))
      /\ Scalar!Program[3] = Scalar!N("ANDI", 7, 1, (registers[1] % Power[Scalar!Half]))
      /\ Scalar!Program[4] = Scalar!N("XORI", 7, 7, (registers[1] % Power[Scalar!Half]))
      /\ Len(Scalar!Program) = 4
  BY ScalarPower DEF Scalar!Program, Scalar!Upper, Scalar!Lower, RegistersKept
<1>2. reached \in 0 .. 3
  BY <1>1 DEF Scalar!Step, RegistersKept
<1>3. /\ (registers[1] % Power[Scalar!Half]) \in Number
  BY ImmediatesIn DEF RegistersKept
<1>4. CASE reached = 0
  <2>1. Scalar!Program[reached + 1] = Scalar!N("SLTI", 5, 1, (registers[1]
      % Power[Scalar!Half])) /\ "SLTI" \in ImmediateOps
      BY <1>1, <1>4 DEF ImmediateOps
  <2>2. Assigns(5, Scalar!Immediate("SLTI", registers[1], (registers[1] % Power[Scalar!Half])))
      BY <2>1, <1>3, RunsImmediate
  <2>3. Scalar!Immediate("SLTI", registers[1], (registers[1] % Power[Scalar!Half]))
           = Scalar!Bool(S(registers[1]) < Scalar!Extend((registers[1] % Power[Scalar!Half])))
      BY <1>4, ImmediateResults DEF SaturatedRun, RegistersKept
  <2>4. RegistersKept'
      BY <2>2, KeptAssigns
  <2>5. SaturatedRun'
      BY <1>4, <2>2, <2>3 DEF SaturatedRun, Assigns
  <2>. QED BY <2>4, <2>5
<1>5. CASE reached = 1
  <2>1. Scalar!Program[reached + 1] = Scalar!N("SLTIU", 6, 1, (registers[1]
      % Power[Scalar!Half])) /\ "SLTIU" \in ImmediateOps
      BY <1>1, <1>5 DEF ImmediateOps
  <2>2. Assigns(6, Scalar!Immediate("SLTIU", registers[1], (registers[1] % Power[Scalar!Half])))
      BY <2>1, <1>3, RunsImmediate
  <2>3. Scalar!Immediate("SLTIU", registers[1], (registers[1] % Power[Scalar!Half]))
           = Scalar!Bool(registers[1] < U(Scalar!Extend((registers[1] % Power[Scalar!Half]))))
      BY <1>5, ImmediateResults DEF SaturatedRun, RegistersKept
  <2>4. RegistersKept'
      BY <2>2, KeptAssigns
  <2>5. SaturatedRun'
      BY <1>5, <2>2, <2>3 DEF SaturatedRun, Assigns
  <2>. QED BY <2>4, <2>5
<1>6. CASE reached = 2
  <2>1. Scalar!Program[reached + 1] = Scalar!N("ANDI", 7, 1, (registers[1]
      % Power[Scalar!Half])) /\ "ANDI" \in ImmediateOps
      BY <1>1, <1>6 DEF ImmediateOps
  <2>2. Assigns(7, Scalar!Immediate("ANDI", registers[1], (registers[1] % Power[Scalar!Half])))
      BY <2>1, <1>3, RunsImmediate
  <2>3. Scalar!Immediate("ANDI", registers[1], (registers[1] % Power[Scalar!Half]))
           = And(registers[1], (registers[1] % Power[Scalar!Half]))
      BY <1>6, ImmediateResults DEF SaturatedRun, RegistersKept
  <2>4. RegistersKept'
      BY <2>2, KeptAssigns
  <2>5. SaturatedRun'
      BY <1>6, <2>2, <2>3 DEF SaturatedRun, Assigns
  <2>. QED BY <2>4, <2>5
<1>7. CASE reached = 3
  <2>1. Scalar!Program[reached + 1] = Scalar!N("XORI", 7, 7, (registers[1]
      % Power[Scalar!Half])) /\ "XORI" \in ImmediateOps
      BY <1>1, <1>7 DEF ImmediateOps
  <2>2. Assigns(7, Scalar!Immediate("XORI", registers[7], (registers[1] % Power[Scalar!Half])))
      BY <2>1, <1>3, RunsImmediate
  <2>3. Scalar!Immediate("XORI", registers[7], (registers[1] % Power[Scalar!Half]))
           = Xor(And(registers[1], (registers[1] % Power[Scalar!Half])), (registers[1]
               % Power[Scalar!Half]))
      BY <1>7, ImmediateResults DEF SaturatedRun, RegistersKept
  <2>4. RegistersKept'
      BY <2>2, KeptAssigns
  <2>5. SaturatedRun'
      BY <1>7, <2>2, <2>3 DEF SaturatedRun, Assigns
  <2>. QED BY <2>4, <2>5
<1>. QED BY <1>2, <1>4, <1>5, <1>6, <1>7

SequenceNames == {"sum", "difference", "less", "rotate", "magnitude", "negate", "least",
                  "sign", "shift", "constant", "address", "saturated"}

SequenceRuns ==
    /\ SumRun /\ DifferenceRun /\ LessRun /\ RotateRun /\ MagnitudeRun /\ NegateRun
    /\ LeastRun /\ SignRun /\ ShiftRun /\ ConstantRun /\ AddressRun /\ SaturatedRun

(* The inductive invariant: what the registers hold after each instruction *)
(* of the sequence that runs.                                              *)
SequenceInv == RegistersKept /\ sequence \in SequenceNames /\ SequenceRuns

(* How many instructions each sequence has.                                *)
LEMMA SequenceLengths ==
    /\ sequence = "sum" => Len(Scalar!Program) = 4
    /\ sequence = "difference" => Len(Scalar!Program) = 4
    /\ sequence = "less" => Len(Scalar!Program) = 6
    /\ sequence = "rotate" => Len(Scalar!Program) = 4
    /\ sequence = "magnitude" => Len(Scalar!Program) = 3
    /\ sequence = "negate" => Len(Scalar!Program) = 2
    /\ sequence = "least" => Len(Scalar!Program) = 5
    /\ sequence = "sign" => Len(Scalar!Program) = 2
    /\ sequence = "shift" => Len(Scalar!Program) = 3
    /\ sequence = "constant" => Len(Scalar!Program) = 2
    /\ sequence = "address" => Len(Scalar!Program) = 2
    /\ sequence = "saturated" => Len(Scalar!Program) = 4
BY DEF Scalar!Program

(* The invariant holds before the first instruction.                       *)
LEMMA SequenceStarts ==
    ASSUME ScalarIdioms \subseteq SequenceNames, ScalarHighs \subseteq Number, Scalar!Init
    PROVE  SequenceInv
<1>1. /\ firstWords \in [hi : Number, lo : Number] /\ secondWords \in [hi : Number, lo : Number]
      /\ sequence \in SequenceNames /\ reached = 0
  BY ScalarWidth DEF Scalar!Init, Scalar!Wide
<1>2. /\ registers[1] = firstWords.lo /\ registers[2] = firstWords.hi
      /\ registers[3] = secondWords.lo /\ registers[4] = secondWords.hi
      /\ registers[0] = 0 /\ registers[5] = 0 /\ registers[6] = 0 /\ registers[7] = 0
      /\ registers = [k \in 0 .. 7 |-> registers[k]]
  BY DEF Scalar!Init
<1>3. registers \in [0 .. 7 -> Number]
  <2>1. /\ registers[0] \in Number /\ registers[1] \in Number /\ registers[2] \in Number
        /\ registers[3] \in Number /\ registers[4] \in Number /\ registers[5] \in Number
        /\ registers[6] \in Number /\ registers[7] \in Number
      BY <1>1, <1>2, BoolFacts
  <2>2. \A k \in 0 .. 7 : registers[k] \in Number
      BY <2>1
  <2>. QED BY <1>2, <2>2
<1>4. RegistersKept
  BY <1>1, <1>2, <1>3 DEF RegistersKept
<1>5. SequenceRuns
  BY <1>1 DEF SequenceRuns, SumRun, DifferenceRun, LessRun, RotateRun, MagnitudeRun, NegateRun,
              LeastRun, SignRun, ShiftRun, ConstantRun, AddressRun, SaturatedRun
<1>. QED BY <1>1, <1>4, <1>5 DEF SequenceInv

(* Every instruction, and every write of the host to $0, keeps the         *)
(* invariant.                                                              *)
LEMMA SequenceStep ==
    ASSUME Bits % 2 = 0, Bits >= 4, ScalarZeros \subseteq Number,
           SequenceInv, [Scalar!Next]_(Scalar!vars)
    PROVE  SequenceInv'
<1>. USE DEF SequenceInv
<1>1. CASE Scalar!Step
  <2>1. sequence' = sequence
      BY <1>1 DEF Scalar!Step
  <2>. DEFINE Waiting == /\ sequence # "sum" => SumRun'
                         /\ sequence # "difference" => DifferenceRun'
                         /\ sequence # "less" => LessRun'
                         /\ sequence # "rotate" => RotateRun'
                         /\ sequence # "magnitude" => MagnitudeRun'
                         /\ sequence # "negate" => NegateRun'
                         /\ sequence # "least" => LeastRun'
                         /\ sequence # "sign" => SignRun'
                         /\ sequence # "shift" => ShiftRun'
                         /\ sequence # "constant" => ConstantRun'
                         /\ sequence # "address" => AddressRun'
                         /\ sequence # "saturated" => SaturatedRun'
  <2>2. Waiting
      BY <2>1 DEF SumRun, DifferenceRun, LessRun, RotateRun, MagnitudeRun, NegateRun,
                  LeastRun, SignRun, ShiftRun, ConstantRun, AddressRun, SaturatedRun
  <2>3. SequenceRuns
      OBVIOUS
  <2>4. RegistersKept' /\ SequenceRuns'
      <3>1. CASE sequence = "sum"
          BY <1>1, <2>2, <2>3, <3>1, SumRuns DEF SequenceRuns
      <3>2. CASE sequence = "difference"
          BY <1>1, <2>2, <2>3, <3>2, DifferenceRuns DEF SequenceRuns
      <3>3. CASE sequence = "less"
          BY <1>1, <2>2, <2>3, <3>3, LessRuns DEF SequenceRuns
      <3>4. CASE sequence = "rotate"
          BY <1>1, <2>2, <2>3, <3>4, RotateRuns DEF SequenceRuns
      <3>5. CASE sequence = "magnitude"
          BY <1>1, <2>2, <2>3, <3>5, MagnitudeRuns DEF SequenceRuns
      <3>6. CASE sequence = "negate"
          BY <1>1, <2>2, <2>3, <3>6, NegateRuns DEF SequenceRuns
      <3>7. CASE sequence = "least"
          BY <1>1, <2>2, <2>3, <3>7, LeastRuns DEF SequenceRuns
      <3>8. CASE sequence = "sign"
          BY <1>1, <2>2, <2>3, <3>8, SignRuns DEF SequenceRuns
      <3>9. CASE sequence = "shift"
          BY <1>1, <2>2, <2>3, <3>9, ShiftRuns DEF SequenceRuns
      <3>10. CASE sequence = "constant"
          BY <1>1, <2>2, <2>3, <3>10, ConstantRuns DEF SequenceRuns
      <3>11. CASE sequence = "address"
          BY <1>1, <2>2, <2>3, <3>11, AddressRuns DEF SequenceRuns
      <3>12. CASE sequence = "saturated"
          BY <1>1, <2>2, <2>3, <3>12, SaturatedRuns DEF SequenceRuns
      <3>. QED BY <3>1, <3>2, <3>3, <3>4, <3>5, <3>6, <3>7, <3>8, <3>9, <3>10, <3>11, <3>12
                  DEF SequenceNames
  <2>. QED BY <2>1, <2>4
<1>2. ASSUME NEW zero \in ScalarZeros, Scalar!SetZero(zero)
      PROVE  SequenceInv'
  <2>1. /\ reached = 0 /\ reached' = 0 /\ sequence' = sequence
        /\ UNCHANGED <<firstWords, secondWords>>
        /\ registers' = [registers EXCEPT ![0] = zero]
      BY <1>2 DEF Scalar!SetZero
  <2>2. RegistersKept'
      BY <2>1 DEF RegistersKept
  <2>3. SequenceRuns'
      BY <2>1 DEF SequenceRuns, SumRun, DifferenceRun, LessRun, RotateRun, MagnitudeRun, NegateRun,
                  LeastRun, SignRun, ShiftRun, ConstantRun, AddressRun, SaturatedRun
  <2>. QED BY <2>1, <2>2, <2>3
<1>3. CASE UNCHANGED Scalar!vars
  <2>1. UNCHANGED <<registers, firstWords, secondWords, sequence, reached>>
      BY <1>3 DEF Scalar!vars
  <2>2. RegistersKept'
      BY <2>1 DEF RegistersKept
  <2>3. SequenceRuns'
      BY <2>1 DEF SequenceRuns, SumRun, DifferenceRun, LessRun, RotateRun, MagnitudeRun, NegateRun,
                  LeastRun, SignRun, ShiftRun, ConstantRun, AddressRun, SaturatedRun
  <2>. QED BY <2>1, <2>2, <2>3
<1>. QED BY <1>1, <1>2, <1>3 DEF Scalar!Next

(* What each sequence has computed when it ends.                           *)
LEMMA WordsDone ==
    ASSUME SequenceInv, Bits % 2 = 0, Bits >= 4
    PROVE  Scalar!WordsAreJoined
<1>. USE DEF SequenceInv
<1>1. /\ registers[1] \in Number /\ registers[2] \in Number
      /\ registers[3] \in Number /\ registers[4] \in Number
      /\ registers[1] = firstWords.lo /\ registers[2] = firstWords.hi
      /\ registers[3] = secondWords.lo /\ registers[4] = secondWords.hi
  BY DEF RegistersKept
<1>2. /\ Scalar!Signed(firstWords) = S(registers[2]) * W + registers[1]
      /\ Scalar!Signed(secondWords) = S(registers[4]) * W + registers[3]
      /\ Scalar!Pair = registers[6] * W + registers[5]
  BY <1>1, ScalarWidth DEF Scalar!Signed, Scalar!Pair
<1>3. ASSUME Scalar!Done("sum")
      PROVE  Scalar!Pair = (Scalar!Signed(firstWords) + Scalar!Signed(secondWords)) % (W * W)
  <2>1. reached = 4 /\ sequence = "sum"
      BY <1>3, SequenceLengths DEF Scalar!Done
  <2>2. /\ registers[5] = U(registers[1] + registers[3])
        /\ registers[7] = Scalar!Bool(registers[5] < registers[3])
        /\ registers[6] = U(U(registers[2] + registers[4]) + registers[7])
      BY <2>1 DEF SequenceRuns, SumRun
  <2>3. registers[7] \in {0, 1} /\ (registers[7] = 1 <=> U(registers[1] + registers[3]) < registers[3])
      BY <2>2 DEF Scalar!Bool
  <2>4. U(U(registers[2] + registers[4]) + registers[7]) * W + U(registers[1] + registers[3])
            = ((S(registers[2]) * W + registers[1]) + (S(registers[4]) * W + registers[3])) % (W * W)
      BY <1>1, <2>3, SumIsJoined
  <2>. QED BY <1>2, <2>2, <2>4
<1>4. ASSUME Scalar!Done("difference")
      PROVE  Scalar!Pair = (Scalar!Signed(firstWords) - Scalar!Signed(secondWords)) % (W * W)
  <2>1. reached = 4 /\ sequence = "difference"
      BY <1>4, SequenceLengths DEF Scalar!Done
  <2>2. /\ registers[5] = U(registers[1] - registers[3])
        /\ registers[7] = Scalar!Bool(registers[1] < registers[3])
        /\ registers[6] = U(U(registers[2] - registers[4]) - registers[7])
      BY <2>1 DEF SequenceRuns, DifferenceRun
  <2>3. registers[7] \in {0, 1} /\ (registers[7] = 1 <=> registers[1] < registers[3])
      BY <2>2 DEF Scalar!Bool
  <2>4. U(U(registers[2] - registers[4]) - registers[7]) * W + U(registers[1] - registers[3])
            = ((S(registers[2]) * W + registers[1]) - (S(registers[4]) * W + registers[3])) % (W * W)
      BY <1>1, <2>3, DifferenceIsJoined
  <2>. QED BY <1>2, <2>2, <2>4
<1>5. ASSUME Scalar!Done("less")
      PROVE  registers[5] = Scalar!Bool(Scalar!Signed(firstWords) < Scalar!Signed(secondWords))
  <2>1. reached = 6 /\ sequence = "less"
      BY <1>5, SequenceLengths DEF Scalar!Done
  <2>2. /\ registers[7] = And(Scalar!Bool(Xor(registers[2], registers[4]) < 1),
                              Scalar!Bool(registers[1] < registers[3]))
        /\ registers[6] = Scalar!Bool(S(registers[2]) < S(registers[4]))
        /\ registers[5] = Or(registers[6], registers[7])
      BY <2>1, OneExtends DEF SequenceRuns, LessRun
  <2>. QED BY <1>1, <1>2, <2>2, ComparisonIsJoined
<1>. QED BY <1>3, <1>4, <1>5, ScalarWidth DEF Scalar!WordsAreJoined

(* The rotation has moved every bit when it ends.                          *)
LEMMA RotationDone ==
    ASSUME SequenceInv, W % Bits = 0
    PROVE  Scalar!RotationKeepsBits
<1>. USE DEF SequenceInv
<1>. SUFFICES ASSUME Scalar!Done("rotate"), NEW i \in 0 .. Bits - 1
              PROVE  (firstWords.lo \div Power[i]) % 2
                         = (registers[5] \div Power[(i + secondWords.lo) % Bits]) % 2
  BY ScalarPower DEF Scalar!RotationKeepsBits
<1>1. reached = 4 /\ sequence = "rotate"
  BY SequenceLengths DEF Scalar!Done
<1>2. /\ registers[7] = registers[1] \div Power[U(0 - registers[3]) % Bits]
      /\ registers[5] = Or(U(registers[1] * Power[registers[3] % Bits]), registers[7])
  BY <1>1 DEF SequenceRuns, RotateRun
<1>3. /\ registers[1] \in Number /\ registers[3] \in Number
      /\ registers[1] = firstWords.lo /\ registers[3] = secondWords.lo
  BY DEF RegistersKept
<1>4. ASSUME NEW x \in Number, NEW y \in Number
      PROVE  (x \div Power[i]) % 2
                = (Or(U(x * Power[y % Bits]), x \div Power[U(0 - y) % Bits])
                     \div Power[(i + y) % Bits]) % 2
  BY RotationMovesBits
<1>5. (registers[1] \div Power[i]) % 2
         = (Or(U(registers[1] * Power[registers[3] % Bits]),
               registers[1] \div Power[U(0 - registers[3]) % Bits])
              \div Power[(i + registers[3]) % Bits]) % 2
  BY <1>3, <1>4, Zenon
<1>. QED BY <1>2, <1>3, <1>5, Zenon

(* Negation, magnitude, minimum, sign extension and shifts have kept the   *)
(* sign.                                                                   *)
LEMMA SignsDone ==
    ASSUME SequenceInv, Bits % 2 = 0, Bits >= 4
    PROVE  Scalar!SignsAreKept
<1>. USE DEF SequenceInv
<1>. DEFINE x == registers[1]
            y == registers[3]
<1>1. x \in Number /\ y \in Number /\ x = firstWords.lo /\ y = secondWords.lo
  BY DEF RegistersKept
<1>2. Power[Bits - 1] = Lowest
  BY DEF Lowest
<1>3. ASSUME Scalar!Done("negate")
      PROVE  registers[5] = U(-S(x))
  <2>1. reached = 2 /\ sequence = "negate"
      BY <1>3, SequenceLengths DEF Scalar!Done
  <2>2. registers[5] = Invert(Or(0, U(x + Scalar!Extend(Power[Scalar!Half] - 1))))
      BY <2>1 DEF SequenceRuns, NegateRun
  <2>. QED BY <1>1, <2>2, NegativeIsComplement
<1>4. ASSUME Scalar!Done("magnitude")
      PROVE  registers[5] = U(IF S(x) < 0 THEN -S(x) ELSE S(x))
  <2>1. reached = 3 /\ sequence = "magnitude"
      BY <1>4, SequenceLengths DEF Scalar!Done
  <2>2. /\ registers[7] = U(S(x) \div Lowest)
        /\ registers[5] = U(Xor(x, registers[7]) - registers[7])
      BY <1>2, <2>1 DEF SequenceRuns, MagnitudeRun
  <2>. QED BY <1>1, <2>2, MagnitudeIsKept
<1>5. ASSUME Scalar!Done("least")
      PROVE  S(registers[5]) = IF S(x) < S(y) THEN S(x) ELSE S(y)
  <2>1. reached = 5 /\ sequence = "least"
      BY <1>5, SequenceLengths DEF Scalar!Done
  <2>2. /\ registers[7] = U(0 - Scalar!Bool(S(x) < S(y)))
        /\ registers[5] = Xor(And(Xor(x, y), registers[7]), y)
      BY <2>1 DEF SequenceRuns, LeastRun
  <2>. QED BY <1>1, <2>2, LeastIsChosen
<1>6. ASSUME Scalar!Done("sign")
      PROVE  S(registers[5]) = Scalar!Extend(x % Power[Scalar!Half])
  <2>1. reached = 2 /\ sequence = "sign"
      BY <1>6, SequenceLengths DEF Scalar!Done
  <2>2. registers[5] = U(S(U(x * Power[Scalar!Half])) \div Power[Scalar!Half])
      BY <2>1 DEF SequenceRuns, SignRun
  <2>. QED BY <1>1, <2>2, HalfIsExtended
<1>7. ASSUME Scalar!Done("shift")
      PROVE  /\ registers[6] = Scalar!Bool(S(x) < 0)
             /\ S(registers[5]) * Power[y % Bits] \in S(x) - Power[y % Bits] + 1 .. S(x)
             /\ (S(registers[7]) < 0) = (S(x) < 0)
  <2>1. reached = 3 /\ sequence = "shift"
      BY <1>7, SequenceLengths DEF Scalar!Done
  <2>2. /\ registers[5] = U(S(x) \div Power[y % Bits])
        /\ registers[6] = x \div Lowest
        /\ registers[7] = U(S(registers[5]) \div Power[y % Bits])
      BY <1>2, <2>1 DEF SequenceRuns, ShiftRun
  <2>3. PICK P \in Nat : P = Power[y % Bits] /\ P >= 1
      BY <1>1, AmountIn, PowerFacts
  <2>4. S(x) \in Int /\ -Lowest <= S(x) /\ S(x) < Lowest
      BY <1>1, SFacts
  <2>5. PICK q \in Int : q = S(x) \div P /\ -Lowest <= q /\ q < Lowest
                         /\ S(registers[5]) = q /\ q * P \in S(x) - P + 1 .. S(x)
                         /\ (q < 0 <=> S(x) < 0)
    <3>1. /\ S(x) \div P \in Int /\ S(U(S(x) \div P)) = S(x) \div P
          /\ -Lowest <= S(x) \div P /\ S(x) \div P < Lowest
          /\ (S(x) \div P) * P \in S(x) - P + 1 .. S(x)
          /\ (S(x) \div P < 0 <=> S(x) < 0)
        BY <2>3, <2>4, ShiftFacts
    <3>. QED BY <2>2, <2>3, <3>1, Zenon
  <2>6. S(U(q \div P)) = q \div P /\ (q \div P < 0 <=> q < 0)
      BY <2>3, <2>5, ShiftFacts
  <2>7. S(registers[7]) < 0 <=> S(x) < 0
    <3>1. registers[7] = U(q \div P)
        BY <2>2, <2>3, <2>5, Zenon
    <3>2. S(registers[7]) < 0 <=> q < 0
        BY <2>6, <3>1, Zenon
    <3>. QED BY <2>5, <3>2
  <2>8. S(registers[5]) * Power[y % Bits] \in S(x) - Power[y % Bits] + 1 .. S(x)
      BY <2>3, <2>5, Zenon
  <2>9. registers[6] = Scalar!Bool(S(x) < 0)
      BY <1>1, <2>2, SignFacts
  <2>. QED BY <2>7, <2>8, <2>9
<1>. HIDE DEF x, y
<1>8. /\ \A n : Scalar!S(n) = S(n) /\ Scalar!U(n) = U(n)
      /\ Scalar!Lower = x % Power[Scalar!Half] /\ Scalar!Power = Power
  BY <1>1, ScalarPower, ScalarWidth DEF Scalar!Lower
<1>. QED BY <1>1, <1>3, <1>4, <1>5, <1>6, <1>7, <1>8 DEF Scalar!SignsAreKept

(* The sequences with immediates have extended them as they should.        *)
LEMMA ImmediatesDone ==
    ASSUME SequenceInv, Bits % 2 = 0, Bits >= 4
    PROVE  Scalar!ImmediatesAreExtended
<1>. USE DEF SequenceInv
<1>. DEFINE x == registers[1]
            lower == x % Power[Scalar!Half]
<1>1. x \in Number /\ x = firstWords.lo
  BY DEF RegistersKept
<1>2. ASSUME Scalar!Done("constant")
      PROVE  registers[5] = x
  <2>1. reached = 2 /\ sequence = "constant"
      BY <1>2, SequenceLengths DEF Scalar!Done
  <2>2. registers[5] = Or(U((x \div Power[Scalar!Half]) * Power[Scalar!Half]), lower)
      BY <2>1 DEF SequenceRuns, ConstantRun
  <2>. QED BY <1>1, <2>2, ConstantIsJoined
<1>3. ASSUME Scalar!Done("address")
      PROVE  registers[5] = x
  <2>1. reached = 2 /\ sequence = "address"
      BY <1>3, SequenceLengths DEF Scalar!Done
  <2>2. registers[5] = U(U((((x + Power[Scalar!Half - 1]) \div Power[Scalar!Half]) % Power[Scalar!Half])
                              * Power[Scalar!Half]) + Scalar!Extend(lower))
      BY <2>1 DEF SequenceRuns, AddressRun
  <2>. QED BY <1>1, <2>2, AddressIsJoined
<1>4. ASSUME Scalar!Done("saturated")
      PROVE  /\ registers[5] = Scalar!Bool(S(x) < Scalar!Extend(lower))
             /\ registers[6] = Scalar!Bool(x < U(Scalar!Extend(lower)))
             /\ registers[7] = 0
  <2>1. reached = 4 /\ sequence = "saturated"
      BY <1>4, SequenceLengths DEF Scalar!Done
  <2>2. /\ registers[5] = Scalar!Bool(S(x) < Scalar!Extend(lower))
        /\ registers[6] = Scalar!Bool(x < U(Scalar!Extend(lower)))
        /\ registers[7] = Xor(And(x, lower), lower)
      BY <2>1 DEF SequenceRuns, SaturatedRun
  <2>. QED BY <1>1, <2>2, LowBitsAreRemoved
<1>. HIDE DEF x
<1>5. /\ \A n : Scalar!S(n) = S(n) /\ Scalar!U(n) = U(n)
      /\ Scalar!Lower = lower
  BY <1>1, ScalarPower, ScalarWidth DEF Scalar!Lower
<1>. QED BY <1>1, <1>2, <1>3, <1>4, <1>5 DEF Scalar!ImmediatesAreExtended

(* Every sequence of scalar instructions computes what it is for, for      *)
(* every width whose half has bits of its own and that its shift amounts   *)
(* divide, every operand and whatever the host wrote to $0                 *)
(* (interpreter-ipu.cpp, ADDU .. XORI).                                    *)
THEOREM SequencesComputed ==
    ASSUME Bits % 2 = 0, Bits >= 4, W % Bits = 0,
           ScalarIdioms \subseteq SequenceNames,
           ScalarHighs \subseteq Number, ScalarZeros \subseteq Number
    PROVE  Scalar!Spec => []SequencesCompute
<1>1. SequenceInv => SequencesCompute
  <2>. SUFFICES ASSUME SequenceInv
                PROVE  SequencesCompute
    OBVIOUS
  <2>1. reached \in 0 .. 6
    BY DEF SequenceInv, RegistersKept, SequenceNames, SequenceRuns, SumRun, DifferenceRun, LessRun,
           RotateRun, MagnitudeRun, NegateRun, LeastRun, SignRun, ShiftRun, ConstantRun, AddressRun,
           SaturatedRun
  <2>2. Scalar!TypeOK
    BY <2>1, ScalarWidth DEF SequenceInv, RegistersKept, Scalar!TypeOK
  <2>. QED BY <2>2, WordsDone, RotationDone, SignsDone, ImmediatesDone
       DEF SequencesCompute, Scalar!SequencesCompute
<1>2. Scalar!Init => SequenceInv
  BY SequenceStarts
<1>3. SequenceInv /\ [Scalar!Next]_(Scalar!vars) => SequenceInv'
  BY SequenceStep
<1>. QED BY <1>1, <1>2, <1>3, PTL DEF Scalar!Spec
=============================================================================
