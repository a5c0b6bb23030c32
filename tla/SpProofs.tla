------------------------------ MODULE SpProofs ------------------------------
(***************************************************************************)
(* The invariants of SpUnit, for every program and host.                   *)
(***************************************************************************)
EXTENDS SpUnit, RspLemmas

(* Inductive: the engine, with its clock never past 0 (which               *)
(* RunningTransferFrozen needs), the types, and the lock.                  *)
IInv ==
    /\ Engine(dma)
    /\ status \in Status
    /\ held \in BOOLEAN
    /\ held => status.semaphore

LEMMA InitIInv == Init => IInv
<1>1. Engine(InitDma)
  BY OneDirectionFacts DEF InitDma, ZeroRegs, Engine, Dma, Regs, Aligned
<1>2. InitStatus \in Status
  BY DEF InitStatus, Status
<1>3. QED
  BY <1>1, <1>2 DEF Init, IInv

(* What one exec() does to the engine.                                     *)
LEMMA ExecEngine ==
    ASSUME IInv, Exec
    PROVE  /\ Engine(dma')
           /\ any(dma.busy) => /\ dma'.busy = dma.busy
                               /\ dma'.current = dma.current
                               /\ dma'.clock >= dma.clock
<1>1. Engine(dma)
  BY DEF IInv
<1>2. ASSUME NEW clocks \in Nat, dma' = dmaStep(dma, clocks)
      PROVE  /\ Engine(dma')
             /\ any(dma.busy) => /\ dma'.busy = dma.busy
                                 /\ dma'.current = dma.current
                                 /\ dma'.clock >= dma.clock
  BY <1>1, <1>2, StepFacts
<1>3. ASSUME NEW clocks \in Costs, NEW reg \in MovedRegs, NEW w \in MovedWords[reg], MTC0(reg, w, clocks)
      PROVE  /\ Engine(dma')
             /\ any(dma.busy) => /\ dma'.busy = dma.busy
                                 /\ dma'.current = dma.current
                                 /\ dma'.clock >= dma.clock
  <2>1. clocks \in Nat /\ w \in Words
    BY CostsAssumption, MovedWordsAssumption
  <2>2. dma' = dmaStep(ioWriteDma(dma, reg, w), clocks)
    BY <1>3 DEF MTC0
  <2>3. QED
    BY <1>1, <2>1, <2>2, WriteDmaFacts, StepFacts
<1>4. Costs \subseteq Nat /\ 1 \in Nat
  BY CostsAssumption
<1>5. QED
  BY <1>2, <1>3, <1>4 DEF Exec, MFC0, Break, Other

LEMMA ExecStatus ==
    ASSUME IInv, Exec
    PROVE  status' \in Status /\ held' \in BOOLEAN
<1>1. status \in Status /\ held \in BOOLEAN
  BY DEF IInv
<1>2. ASSUME NEW clocks \in Costs, NEW reg \in MovedRegs, NEW w \in MovedWords[reg], MTC0(reg, w, clocks)
      PROVE  status' \in Status /\ held' \in BOOLEAN
  BY <1>1, <1>2, MovedWordsAssumption, WriteStatusType DEF MTC0
<1>3. ASSUME NEW clocks, NEW reg, MFC0(reg, clocks)
      PROVE  status' \in Status /\ held' \in BOOLEAN
  BY <1>1, <1>3, OtherStatusTypes DEF MFC0
<1>4. ASSUME NEW clocks, Break(clocks)
      PROVE  status' \in Status /\ held' \in BOOLEAN
  BY <1>1, <1>4, OtherStatusTypes DEF Break
<1>5. ASSUME NEW clocks, Other(clocks)
      PROVE  status' \in Status /\ held' \in BOOLEAN
  BY <1>1, <1>5 DEF Other
<1>6. QED
  BY <1>2, <1>3, <1>4, <1>5 DEF Exec

(* A granted semaphore stays taken: only a write to it gives it back, and  *)
(* that ends held.                                                         *)
LEMMA ExecLock ==
    ASSUME IInv, Exec
    PROVE  held' => status'.semaphore
<1>1. status \in Status /\ held \in BOOLEAN /\ (held => status.semaphore)
  BY DEF IInv
<1>2. ASSUME NEW clocks \in Costs, NEW reg \in MovedRegs, NEW w \in MovedWords[reg],
             MTC0(reg, w, clocks), held'
      PROVE  status'.semaphore
  <2>1. held /\ reg # SP_SEMAPHORE
    BY <1>2 DEF MTC0
  <2>2. ioWriteStatus(status, reg, w).semaphore = status.semaphore
    BY <2>1 DEF ioWriteStatus, statusWrite
  <2>3. QED
    BY <1>1, <1>2, <2>1, <2>2 DEF MTC0
<1>3. ASSUME NEW clocks, NEW reg, MFC0(reg, clocks), held'
      PROVE  status'.semaphore
  BY <1>1, <1>3 DEF MFC0, ioReadStatus, Status
<1>4. ASSUME NEW clocks, Break(clocks), held'
      PROVE  status'.semaphore
  BY <1>1, <1>4 DEF Break, BREAK, Status
<1>5. ASSUME NEW clocks, Other(clocks), held'
      PROVE  status'.semaphore
  BY <1>1, <1>5 DEF Other
<1>6. QED
  BY <1>2, <1>3, <1>4, <1>5 DEF Exec

LEMMA NextIInv == IInv /\ [Next]_vars => IInv'
<1> SUFFICES ASSUME IInv, [Next]_vars
             PROVE  IInv'
  OBVIOUS
<1>1. CASE Exec
  BY <1>1, ExecEngine, ExecStatus, ExecLock DEF IInv
<1>2. ASSUME NEW isHalted \in BOOLEAN, SetHalted(isHalted)
      PROVE  IInv'
  BY <1>2, OtherStatusTypes DEF IInv, SetHalted, Status
<1>3. CASE UNCHANGED vars
  BY <1>3 DEF IInv, vars
<1>4. QED
  BY <1>1, <1>2, <1>3 DEF Next

THEOREM Inductive == Spec => []IInv
  BY InitIInv, NextIInv, PTL DEF Spec

(* Every register keeps its width.                                         *)
THEOREM TypeCorrect == Spec => []TypeOK
<1>1. IInv => TypeOK
  BY DEF IInv, TypeOK, Engine
<1>2. QED
  BY <1>1, Inductive, PTL

(* No request waits for an idle engine, and none has two directions.       *)
THEOREM QueueStaysConsistent == Spec => []QueueConsistent
<1>1. IInv => QueueConsistent
  BY DEF IInv, QueueConsistent, Engine
<1>2. QED
  BY <1>1, Inductive, PTL

(* Addresses, lengths and skips stay multiples of 8.                       *)
THEOREM DmaStaysAligned == Spec => []DmaAligned
<1>1. IInv => DmaAligned
  BY DEF IInv, DmaAligned, Engine
<1>2. QED
  BY <1>1, Inductive, PTL

(* The semaphore is granted once between two writes.                       *)
THEOREM SemaphoreIsLock == Spec => []SemaphoreGrantedOnce
<1>1. IInv => SemaphoreGrantedOnce
  <2> SUFFICES ASSUME held, status.semaphore
               PROVE  ioRead(status, dma, SP_SEMAPHORE) # {}
    BY DEF IInv, SemaphoreGrantedOnce
  <2>1. ioRead(status, dma, SP_SEMAPHORE) = Bit(0, status.semaphore)
    BY DEF ioRead, SP_PBUS_ADDRESS, SP_DRAM_ADDRESS, SP_READ_LENGTH,
           SP_WRITE_LENGTH, SP_STATUS, SP_DMA_FULL, SP_DMA_BUSY, SP_SEMAPHORE
  <2>2. QED
    BY <2>1 DEF Bit
<1>2. QED
  BY <1>1, Inductive, PTL

(* Nothing a program or the host does disturbs a transfer that runs.       *)
FrozenStep ==
    any(dma.busy) =>
        /\ dma'.busy = dma.busy
        /\ dma'.current = dma.current
        /\ dma'.clock >= dma.clock

THEOREM TransferUndisturbed == Spec => RunningTransferFrozen
<1>1. IInv /\ [Next]_vars => [FrozenStep]_vars
  <2> SUFFICES ASSUME IInv, Next
               PROVE  FrozenStep
    OBVIOUS
  <2>1. CASE Exec
    BY <2>1, ExecEngine DEF FrozenStep
  <2>2. ASSUME NEW isHalted \in BOOLEAN, SetHalted(isHalted)
        PROVE  FrozenStep
    BY <2>2 DEF FrozenStep, SetHalted, IInv, Engine, Dma
  <2>3. QED
    BY <2>1, <2>2 DEF Next
<1>2. QED
  BY <1>1, Inductive, PTL DEF Spec, RunningTransferFrozen, FrozenStep

(* A transfer that starts runs with the registers as they were written     *)
(* last, and is due after the clocks of its own length (dmaTransferStart,  *)
(* dmaQueue, dmaStep).                                                     *)
DueStep ==
    ~any(dma.busy) /\ any(dma'.busy) =>
        /\ dma'.current = dma'.pending
        /\ \E clocks \in Costs :
              dma'.clock = Tick(-TransferClocks(dma'.current.length), clocks)
        /\ ~any(dma'.full)

LEMMA MTC0Due ==
    ASSUME Engine(dma), NEW clocks \in Costs, NEW reg, NEW w \in Words,
           ~any(dma.busy), dma' = dmaStep(ioWriteDma(dma, reg, w), clocks),
           any(dma'.busy)
    PROVE  /\ dma'.current = dma'.pending
           /\ dma'.clock = Tick(-TransferClocks(dma'.current.length), clocks)
           /\ ~any(dma'.full)
<1> DEFINE g == ioWriteDma(dma, reg, w)
<1>1. Engine(g) /\ clocks \in Nat
  BY WriteDmaFacts, CostsAssumption
<1>2. /\ dma'.pending = g.pending /\ dma'.current = g.current
      /\ dma'.busy = g.busy /\ dma'.full = g.full
      /\ any(g.busy) => dma'.clock = Tick(g.clock, clocks)
  <2> HIDE DEF g
  <2>1. dma' = dmaStep(g, clocks)
    BY DEF g
  <2>2. QED
    BY <1>1, <2>1, StepFacts
<1>3. any(g.busy)
  BY <1>2
<1>4. g.current = g.pending /\ g.clock = -TransferClocks(g.current.length) /\ ~any(g.full)
  BY <1>3, IdleWriteFacts
<1>5. QED
  BY <1>2, <1>3, <1>4

THEOREM TransferDueByLength == Spec => StartedTransferDue
<1>1. IInv /\ [Next]_vars => [DueStep]_vars
  <2> SUFFICES ASSUME IInv, Next
               PROVE  DueStep
    OBVIOUS
  <2>1. Engine(dma)
    BY DEF IInv
  <2>2. ASSUME NEW clocks \in Nat, dma' = dmaStep(dma, clocks)
        PROVE  DueStep
    BY <2>1, <2>2, StepFacts DEF DueStep
  <2>3. ASSUME NEW clocks \in Costs, NEW reg \in MovedRegs, NEW w \in MovedWords[reg],
               MTC0(reg, w, clocks)
        PROVE  DueStep
    <3>1. w \in Words /\ dma' = dmaStep(ioWriteDma(dma, reg, w), clocks)
      BY <2>3, MovedWordsAssumption DEF MTC0
    <3>2. QED
      BY <2>1, <3>1, MTC0Due DEF DueStep
  <2>4. Costs \subseteq Nat /\ 1 \in Nat
    BY CostsAssumption
  <2>5. CASE Exec
    BY <2>2, <2>3, <2>4, <2>5 DEF Exec, MFC0, Break, Other
  <2>6. ASSUME NEW isHalted \in BOOLEAN, SetHalted(isHalted)
        PROVE  DueStep
    BY <2>6 DEF DueStep, SetHalted
  <2>7. QED
    BY <2>5, <2>6 DEF Next
<1>2. QED
  BY <1>1, Inductive, PTL DEF Spec, StartedTransferDue, DueStep

(* Every flag has its own two bits in the word that is written and its own *)
(* bit in the word that is read (case 4 of ioWrite and of ioRead).         *)
Pairs ==
    {<<0, 0, 1>>, <<5, 5, 6>>, <<6, 7, 8>>}
        \cup {<<7 + k, 9 + 2*k, 10 + 2*k>> : k \in 0..7}

LayoutStep ==
    \A w \in MovedWords[SP_STATUS], clocks \in Costs :
        MTC0(SP_STATUS, w, clocks) =>
            \A pair \in Pairs :
                LET was    == ReadBit(status, dma, pair[1])
                    clears == pair[2] \in w /\ pair[3] \notin w
                    sets   == pair[3] \in w /\ pair[2] \notin w
                IN  ReadBit(status', dma', pair[1]) = (sets \/ (was /\ ~clears))

LEMMA SetClearMeans ==
    ASSUME NEW flag \in BOOLEAN, NEW w, NEW clear, NEW set
    PROVE  SetClear(flag, w, clear, set) <=>
               \/ set \in w /\ clear \notin w
               \/ flag /\ ~(clear \in w /\ set \notin w)
BY DEF SetClear

LEMMA LayoutsAgree ==
    ASSUME status \in Status, status' \in Status, NEW w, status' = statusWrite(status, w),
           NEW pair \in Pairs
    PROVE  ReadBit(status', dma', pair[1]) <=>
               \/ pair[3] \in w /\ pair[2] \notin w
               \/ /\ ReadBit(status, dma, pair[1])
                  /\ ~(pair[2] \in w /\ pair[3] \notin w)
<1>0. /\ status.halted \in BOOLEAN /\ status.singleStep \in BOOLEAN
      /\ status.interruptOnBreak \in BOOLEAN
  BY DEF Status
<1>1. CASE pair = <<0, 0, 1>>
  <2>1. status'.halted = SetClear(status.halted, w, 0, 1)
    BY DEF statusWrite
  <2>2. pair[1] = 0 /\ pair[2] = 0 /\ pair[3] = 1
    BY <1>1
  <2>3. /\ ReadBit(status', dma', 0) <=> status'.halted
        /\ ReadBit(status, dma, 0) <=> status.halted
    BY StatusBits DEF ReadBit
  <2>4. QED
    BY <1>0, <2>1, <2>2, <2>3, SetClearMeans
<1>2. CASE pair = <<5, 5, 6>>
  <2>1. status'.singleStep = SetClear(status.singleStep, w, 5, 6)
    BY DEF statusWrite
  <2>2. pair[1] = 5 /\ pair[2] = 5 /\ pair[3] = 6
    BY <1>2
  <2>3. /\ ReadBit(status', dma', 5) <=> status'.singleStep
        /\ ReadBit(status, dma, 5) <=> status.singleStep
    BY StatusBits DEF ReadBit
  <2>4. QED
    BY <1>0, <2>1, <2>2, <2>3, SetClearMeans
<1>3. CASE pair = <<6, 7, 8>>
  <2>1. status'.interruptOnBreak = SetClear(status.interruptOnBreak, w, 7, 8)
    BY DEF statusWrite
  <2>2. pair[1] = 6 /\ pair[2] = 7 /\ pair[3] = 8
    BY <1>3
  <2>3. /\ ReadBit(status', dma', 6) <=> status'.interruptOnBreak
        /\ ReadBit(status, dma, 6) <=> status.interruptOnBreak
    BY StatusBits DEF ReadBit
  <2>4. QED
    BY <1>0, <2>1, <2>2, <2>3, SetClearMeans
<1>4. ASSUME NEW k \in 0..7, pair = <<7 + k, 9 + 2*k, 10 + 2*k>>
      PROVE  ReadBit(status', dma', pair[1]) <=>
                 \/ pair[3] \in w /\ pair[2] \notin w
                 \/ /\ ReadBit(status, dma, pair[1])
                    /\ ~(pair[2] \in w /\ pair[3] \notin w)
  <2>1. k \in status'.signal <=> SetClear(k \in status.signal, w, 9 + 2*k, 10 + 2*k)
    <3>1. status'.signal =
              {j \in 0..7 : SetClear(j \in status.signal, w, 9 + 2*j, 10 + 2*j)}
      BY DEF statusWrite
    <3>2. QED
      BY <3>1, Zenon
  <2>2. pair[1] = 7 + k /\ pair[2] = 9 + 2*k /\ pair[3] = 10 + 2*k
    BY <1>4
  <2>3. /\ ReadBit(status', dma', 7 + k) <=> k \in status'.signal
        /\ ReadBit(status, dma, 7 + k) <=> k \in status.signal
    BY StatusBits DEF ReadBit
  <2>4. SetClear(k \in status.signal, w, 9 + 2*k, 10 + 2*k) <=>
            \/ 10 + 2*k \in w /\ 9 + 2*k \notin w
            \/ k \in status.signal /\ ~(9 + 2*k \in w /\ 10 + 2*k \notin w)
    BY DEF SetClear
  <2>5. QED
    BY <2>1, <2>2, <2>3, <2>4
<1>5. QED
  BY <1>1, <1>2, <1>3, <1>4 DEF Pairs

THEOREM StatusLayoutsAgree == Spec => StatusLayouts
<1>1. IInv /\ [Next]_vars => [LayoutStep]_vars
  <2> SUFFICES ASSUME IInv, IInv', NEW w, NEW clocks, MTC0(SP_STATUS, w, clocks),
                      NEW pair \in Pairs
               PROVE  ReadBit(status', dma', pair[1]) =
                          ((pair[3] \in w /\ pair[2] \notin w)
                           \/ (ReadBit(status, dma, pair[1])
                               /\ ~(pair[2] \in w /\ pair[3] \notin w)))
    BY NextIInv DEF LayoutStep
  <2>1. status \in Status /\ status' \in Status
    BY DEF IInv
  <2>2. status' = statusWrite(status, w)
    BY DEF MTC0, ioWriteStatus, SP_STATUS, SP_SEMAPHORE
  <2>3. ReadBit(status', dma', pair[1]) <=>
            \/ pair[3] \in w /\ pair[2] \notin w
            \/ /\ ReadBit(status, dma, pair[1])
               /\ ~(pair[2] \in w /\ pair[3] \notin w)
    BY <2>1, <2>2, LayoutsAgree
  <2>4. ReadBit(status', dma', pair[1]) \in BOOLEAN
    BY DEF ReadBit
  <2>5. QED
    BY <2>3, <2>4, Zenon
<1>2. QED
  BY <1>1, Inductive, PTL DEF Spec, StatusLayouts, LayoutStep, Pairs
=============================================================================
