--------------------------- MODULE RspCoreProofs ---------------------------
(***************************************************************************)
(* The invariants of RspCore, for every size of IMEM, every instruction    *)
(* set the decoder's flags are right for, and every program.               *)
(***************************************************************************)
EXTENDS RspCore, RspLemmas

LEMMA Wraps == \A a \in Int : a % ImemBytes \in Addresses
  BY SizeAssumption DEF ImemBytes, Addresses

LEMMA FetchType ==
    ASSUME imem \in [0..(ImemWords - 1) -> Instrs], NEW a \in Nat
    PROVE  Fetch(a) \in Instrs
<1>1. a % ImemBytes \in 0..(4 * ImemWords - 1)
  BY Wraps DEF ImemBytes, Addresses
<1>2. (a % ImemBytes) \div 4 \in 0..(ImemWords - 1)
  BY <1>1, SizeAssumption
<1>3. QED
  BY <1>2 DEF Fetch

(* A decoded instruction.                                                  *)
LEMMA InstrFacts ==
    ASSUME NEW i \in Instrs
    PROVE  /\ i.info \in OpInfo /\ i.imm \in Int /\ i.kind \in Kinds
           /\ i.kind \in Branching => Branch(i.info)
  BY InstrsAssumption DEF Instr

(* A CPU whose DMA engine is in order.                                     *)
Sound(c) == c \in Cpu /\ Engine(c.dma)

(* The fields of a Cpu change one at a time.                               *)
LEMMA Fields ==
    ASSUME NEW c, Sound(c)
    PROVE  /\ \A p \in PipelineState :
                 /\ Sound([c EXCEPT !.pipeline = p])
                 /\ [c EXCEPT !.pipeline = p].pipeline = p
                 /\ [c EXCEPT !.pipeline = p].branch = c.branch
           /\ \A pc \in 0..(PcRange - 1) :
                 /\ Sound([c EXCEPT !.pc = pc])
                 /\ [c EXCEPT !.pc = pc].pipeline = c.pipeline
                 /\ [c EXCEPT !.pc = pc].branch = c.branch
           /\ \A s \in Status :
                 /\ Sound([c EXCEPT !.status = s])
                 /\ [c EXCEPT !.status = s].pipeline = c.pipeline
                 /\ [c EXCEPT !.status = s].branch = c.branch
           /\ \A d : Engine(d) =>
                 /\ Sound([c EXCEPT !.dma = d])
                 /\ [c EXCEPT !.dma = d].pipeline = c.pipeline
                 /\ [c EXCEPT !.dma = d].branch = c.branch
           /\ \A a \in Addresses :
                 /\ Sound([c EXCEPT !.ra = a])
                 /\ [c EXCEPT !.ra = a].pipeline = c.pipeline
                 /\ [c EXCEPT !.ra = a].branch = c.branch
           /\ \A b \in [pc : Addresses, state : BranchStates] :
                 /\ Sound([c EXCEPT !.branch = b])
                 /\ [c EXCEPT !.branch = b].pipeline = c.pipeline
                 /\ [c EXCEPT !.branch = b].branch = b
<1>1. c \in Cpu /\ Engine(c.dma)
  BY DEF Sound
<1>2. \A d : Engine(d) => d \in Dma
  BY DEF Engine
<1>3. QED
  BY <1>1, <1>2 DEF Sound, Cpu

LEMMA AddressesInPc == Addresses \subseteq 0..(PcRange - 1)
<1>1. PcRange \in Nat \ {0} /\ ImemBytes \in Nat \ {0} /\ PcRange % ImemBytes = 0
  BY SizeAssumption DEF ImemBytes
<1>2. PcRange >= ImemBytes
  <2> SUFFICES ASSUME PcRange < ImemBytes
               PROVE  FALSE
    BY <1>1
  <2>1. PcRange % ImemBytes = PcRange
    BY <1>1
  <2>2. QED
    BY <1>1, <2>1
<1>3. QED
  BY <1>1, <1>2 DEF Addresses

LEMMA SoundTypes ==
    ASSUME NEW c, Sound(c)
    PROVE  /\ c.pipeline \in PipelineState /\ c.pc \in 0..(PcRange - 1) /\ c.pc \in Nat
           /\ c.status \in Status /\ c.ra \in Addresses /\ c.ra \in Int
           /\ Engine(c.dma)
           /\ c.branch \in [pc : Addresses, state : BranchStates]
           /\ c.branch.pc \in Addresses /\ c.branch.state \in BranchStates
  BY SizeAssumption DEF Sound, Cpu, Addresses

-----------------------------------------------------------------------------
(* interpreterEXECUTE: it leaves the pipeline alone, and only a flagged    *)
(* operation takes a branch.                                               *)

LEMMA TakeFacts ==
    ASSUME NEW c, Sound(c), NEW address \in Int
    PROVE  /\ Sound(take(c, address))
           /\ take(c, address).pipeline = c.pipeline
           /\ take(c, address).branch.state = "Take"
<1> DEFINE b == [pc |-> address % ImemBytes, state |-> "Take"]
<1>1. b \in [pc : Addresses, state : BranchStates]
  BY Wraps DEF BranchStates
<1>2. take(c, address) = [c EXCEPT !.branch = b]
  BY DEF take
<1>3. b.state = "Take"
  OBVIOUS
<1> HIDE DEF b
<1>4. QED
  BY <1>1, <1>2, <1>3, Fields

LEMMA LinkedFacts ==
    ASSUME NEW c, Sound(c), NEW i
    PROVE  /\ Sound(linked(c, i))
           /\ linked(c, i).pipeline = c.pipeline
           /\ linked(c, i).branch = c.branch
<1>1. (c.pc + 8) % ImemBytes \in Addresses
  BY SoundTypes, Wraps
<1>2. QED
  BY <1>1, Fields DEF linked

LEMMA IoWriteFacts ==
    ASSUME NEW c, Sound(c), NEW reg, NEW w \in Words
    PROVE  /\ Sound(ioWrite(c, reg, w))
           /\ ioWrite(c, reg, w).pipeline = c.pipeline
           /\ ioWrite(c, reg, w).branch = c.branch
<1> DEFINE s == ioWriteStatus(c.status, reg, w)
           d == ioWriteDma(c.dma, reg, w)
           e == [c EXCEPT !.status = s]
<1>1. s \in Status /\ Engine(d)
  BY SoundTypes, WriteStatusType, WriteDmaFacts
<1>2. ioWrite(c, reg, w) = [e EXCEPT !.dma = d]
  BY DEF ioWrite
<1> HIDE DEF s, d
<1>3. Sound(e) /\ e.pipeline = c.pipeline /\ e.branch = c.branch
  BY <1>1, Fields
<1> HIDE DEF e
<1>4. QED
  BY <1>1, <1>2, <1>3, Fields

(* c is what an operation that does not branch, or one that does, leaves   *)
(* of b.                                                                   *)
Executed(b, c, canBranch) ==
    /\ Sound(c)
    /\ c.pipeline = b.pipeline
    /\ c.branch = b.branch \/ (c.branch.state = "Take" /\ canBranch)

LEMMA ExecuteFacts ==
    ASSUME NEW b, Sound(b), NEW i \in Instrs, NEW c \in Execute(i, b)
    PROVE  Executed(b, c, Branch(i.info))
<1> DEFINE l == linked(b, i)
<1>1. Sound(l) /\ l.pipeline = b.pipeline /\ l.branch = b.branch
  BY LinkedFacts
<1>2. /\ i.imm \in Int /\ b.pc \in Nat /\ b.ra \in Int
      /\ i.kind \in Branching => Branch(i.info)
  BY InstrFacts, SoundTypes
<1>3. \A s \in Status : Executed(b, [l EXCEPT !.status = s], Branch(i.info))
  <2> HIDE DEF l
  <2>1. QED
    BY <1>1, Fields DEF Executed
<1>4. BREAK(l.status) \in Status /\ \A reg : ioReadStatus(l.status, reg) \in Status
  <2> HIDE DEF l
  <2>1. QED
    BY <1>1, SoundTypes, OtherStatusTypes
<1>5. i.kind \in Branching =>
         \A t \in Int : Executed(b, take(l, t), Branch(i.info))
  <2> HIDE DEF l
  <2>1. QED
    BY <1>1, <1>2, TakeFacts DEF Executed
<1>6. \A w \in MovedWords : Executed(b, ioWrite(l, i.imm, w), Branch(i.info))
  <2> HIDE DEF l
  <2>1. MovedWords \subseteq Words
    BY DataAssumption
  <2>2. QED
    BY <1>1, <2>1, IoWriteFacts DEF Executed
<1>7. Executed(b, l, Branch(i.info))
  <2> HIDE DEF l
  <2>1. QED
    BY <1>1 DEF Executed
<1>8. /\ RegTargets \subseteq Int /\ b.pc + 4 + i.imm \in Int
  BY <1>2, DataAssumption
<1>9. \/ c = l
      \/ \E s \in {BREAK(l.status), ioReadStatus(l.status, i.imm)} :
            c = [l EXCEPT !.status = s]
      \/ \E w \in MovedWords : c = ioWrite(l, i.imm, w)
      \/ /\ i.kind \in Branching
         /\ \E t \in {i.imm, b.pc + 4 + i.imm, b.ra} \cup RegTargets : c = take(l, t)
  <2> HIDE DEF l
  <2>1. Execute(i, b) =
           CASE i.kind = "jump"     -> {take(l, i.imm)}
             [] i.kind = "cond"     -> {l, take(l, b.pc + 4 + i.imm)}
             [] i.kind = "register" -> {take(l, t) : t \in RegTargets}
             [] i.kind = "return"   -> {take(l, b.ra)}
             [] i.kind = "break"    -> {[l EXCEPT !.status = BREAK(@)]}
             [] i.kind = "mtc0"     -> {ioWrite(l, i.imm, w) : w \in MovedWords}
             [] i.kind = "mfc0"     -> {[l EXCEPT !.status = ioReadStatus(@, i.imm)]}
             [] OTHER               -> {l}
    BY DEF Execute, l
  <2>2. QED
    BY <2>1 DEF Branching
<1>10. QED
  <2> HIDE DEF l
  <2>1. QED
    BY <1>2, <1>3, <1>4, <1>5, <1>6, <1>7, <1>8, <1>9

-----------------------------------------------------------------------------
(* instructionEpilogue.                                                    *)

LEMMA NextPcFacts ==
    ASSUME NEW c, Sound(c)
    PROVE  /\ Sound(NextPc(c))
           /\ NextPc(c).pipeline = c.pipeline
           /\ NextPc(c).branch = c.branch
<1>1. (c.pc + 4) % PcRange \in 0..(PcRange - 1)
  BY SoundTypes, SizeAssumption
<1>2. QED
  BY <1>1, Fields DEF NextPc

LEMMA BranchStateFacts ==
    ASSUME NEW c, Sound(c), NEW state \in BranchStates
    PROVE  /\ Sound(branchState(c, state))
           /\ branchState(c, state).pipeline = c.pipeline
           /\ branchState(c, state).branch.state = state
<1> DEFINE b == [pc |-> c.branch.pc, state |-> state]
<1>1. b \in [pc : Addresses, state : BranchStates] /\ b.state = state
  BY SoundTypes
<1>2. branchState(c, state) = [c EXCEPT !.branch = b]
  BY DEF branchState
<1> HIDE DEF b
<1>3. QED
  BY <1>1, <1>2, Fields

(* Outside a delay slot the pipeline is not touched; at the end of one     *)
(* singleIssue can only be set.                                            *)
LEMMA EpilogueFacts ==
    ASSUME NEW c, Sound(c), c.pipeline.current = NoCurrent \/ c.branch.state # "DelaySlot"
    PROVE  /\ Sound(Epilogue(c))
           /\ c.branch.state # "DelaySlot" => Epilogue(c).pipeline = c.pipeline
           /\ c.branch.state = "DelaySlot" => Settled(Epilogue(c).pipeline)
           /\ c.branch.state = "Step" => Epilogue(c).branch = c.branch
           /\ c.branch.state = "Take" => Epilogue(c).branch.state = "DelaySlot"
           /\ c.branch.state = "DelaySlot" => Epilogue(c).branch.state = "Step"
<1>1. CASE c.branch.state = "Step"
  BY <1>1, NextPcFacts DEF Epilogue
<1>2. CASE c.branch.state = "Take"
  BY <1>2, NextPcFacts, BranchStateFacts DEF Epilogue, BranchStates
<1>3. CASE c.branch.state = "DelaySlot"
  <2> DEFINE s == branchState(c, "Step")
             p == DelaySlotEpilogue(c.pipeline, OddWord(c.branch.pc))
             t == [s EXCEPT !.pc = c.branch.pc]
  <2>1. Sound(s) /\ s.pipeline = c.pipeline /\ s.branch.state = "Step"
    BY BranchStateFacts DEF BranchStates
  <2>2. c.branch.pc \in 0..(PcRange - 1)
    BY SoundTypes, AddressesInPc
  <2>3. Settled(p)
    <3>1. OddWord(c.branch.pc) \in BOOLEAN
      BY DEF OddWord
    <3>2. Settled(c.pipeline)
      BY <1>3, SoundTypes DEF Settled
    <3>3. QED
      BY <3>1, <3>2, DelaySlotEpilogueFacts
  <2>4. Epilogue(c) = [t EXCEPT !.pipeline = p]
    <3> HIDE DEF p
    <3>1. s.pipeline = c.pipeline
      BY <2>1
    <3>2. Epilogue(c) = [s EXCEPT !.pc = c.branch.pc,
                                  !.pipeline = DelaySlotEpilogue(@, OddWord(c.branch.pc))]
      BY <1>3 DEF Epilogue
    <3>3. t.pipeline = c.pipeline
      <4> HIDE DEF s
      <4>1. QED
        BY <2>1, <2>2, Fields
    <3>4. QED
      <4> HIDE DEF s
      <4>1. QED
        BY <3>2, <3>3 DEF p
  <2> HIDE DEF s, p
  <2>5. Sound(t) /\ t.branch = s.branch
    BY <2>1, <2>2, Fields
  <2> HIDE DEF t
  <2>6. QED
    BY <1>3, <2>1, <2>3, <2>4, <2>5, Fields DEF Settled
<1>4. QED
  BY <1>1, <1>2, <1>3, SoundTypes DEF BranchStates

-----------------------------------------------------------------------------
(* One call of exec().                                                     *)

(* Between two calls nothing is in the current slot, a taken branch waits  *)
(* for its delay slot, and that slot will not be shared.                   *)
Between(c) ==
    /\ Sound(c)
    /\ Settled(c.pipeline)
    /\ c.branch.state # "Take"
    /\ c.branch.state = "DelaySlot" => c.pipeline.singleIssue

(* The end of a slot whose operations left c, when end() leaves a settled  *)
(* pipeline that is reserved if one of them was a branch.                  *)
LEMMA FinishFacts ==
    ASSUME NEW c, Sound(c),
           Settled(end(c.pipeline)),
           c.branch.state = "Take" => end(c.pipeline).singleIssue
    PROVE  Between(Finish(c))
<1> DEFINE e == [c EXCEPT !.pipeline = end(@)]
<1>1. /\ Sound(e) /\ e.pipeline = end(c.pipeline) /\ e.branch = c.branch
  BY Fields DEF Settled
<1>2. Finish(c) = Epilogue(e)
  BY DEF Finish
<1> HIDE DEF e
<1>3. c.branch.state \in {"Step", "Take", "DelaySlot"}
  BY SoundTypes DEF BranchStates
<1>4. e.pipeline.current = NoCurrent
  BY <1>1 DEF Settled
<1>5. QED
  BY <1>1, <1>2, <1>3, <1>4, EpilogueFacts DEF Between

LEMMA ChargedFacts ==
    ASSUME NEW c, Between(c), NEW clocks \in Nat
    PROVE  Between(Charged(c, clocks))
<1>1. Sound(c) /\ Engine(c.dma)
  BY SoundTypes DEF Between
<1>2. Engine(dmaStep(c.dma, clocks))
  BY <1>1, StepFacts
<1>3. QED
  BY <1>1, <1>2, Fields DEF Charged, Between

(* The first operation of a slot.                                          *)
LEMMA FirstFacts ==
    ASSUME NEW b, Between(b), NEW i \in Instrs, NEW c \in First(b, i)
    PROVE  /\ Sound(c)
           /\ c.pipeline = issue(begin(b.pipeline), i.info)
           /\ c.branch = b.branch \/ (c.branch.state = "Take" /\ Branch(i.info))
<1> DEFINE p == issue(begin(b.pipeline), i.info)
           e == [b EXCEPT !.pipeline = p]
<1>1. p \in PipelineState
  BY InstrFacts, BeginFacts, IssueFacts DEF Between, Settled
<1>2. c \in Execute(i, e)
  BY DEF First
<1> HIDE DEF p
<1>3. Sound(e) /\ e.pipeline = p /\ e.branch = b.branch
  BY <1>1, Fields DEF Between
<1> HIDE DEF e
<1>4. Executed(e, c, Branch(i.info))
  BY <1>2, <1>3, ExecuteFacts
<1>5. QED
  BY <1>3, <1>4 DEF Executed, p

(* The second, which follows only a first that is not a branch, outside a  *)
(* delay slot.                                                             *)
LEMMA SecondFacts ==
    ASSUME NEW b, Sound(b), b.branch.state = "Step",
           NEW i \in Instrs, NEW c \in Second(b, i)
    PROVE  /\ Sound(c)
           /\ c.pipeline = issue(b.pipeline, i.info)
           /\ c.branch.state = "Step" \/ (c.branch.state = "Take" /\ Branch(i.info))
<1> DEFINE n == Epilogue(b)
           p == issue(n.pipeline, i.info)
           e == [n EXCEPT !.pipeline = p]
<1>1. Sound(n) /\ n.pipeline = b.pipeline /\ n.branch = b.branch
  BY EpilogueFacts
<1>2. c \in Execute(i, e)
  BY DEF Second
<1> HIDE DEF n
<1>3. p \in PipelineState /\ p = issue(b.pipeline, i.info)
  BY <1>1, InstrFacts, SoundTypes, IssueFacts
<1> HIDE DEF p
<1>4. Sound(e) /\ e.pipeline = p /\ e.branch = n.branch
  BY <1>1, <1>3, Fields
<1> HIDE DEF e
<1>5. Executed(e, c, Branch(i.info))
  BY <1>2, <1>4, ExecuteFacts
<1>6. QED
  BY <1>1, <1>3, <1>4, <1>5 DEF Executed

-----------------------------------------------------------------------------
(* The inductive invariant.                                                *)

IInv ==
    /\ Between(cpu)
    /\ imem \in [0..(ImemWords - 1) -> Instrs]

LEMMA InitIInv == Init => IInv
<1> SUFFICES ASSUME Init
             PROVE  IInv
  OBVIOUS
<1>1. Engine(InitDma)
  BY OneDirectionFacts DEF InitDma, ZeroRegs, Engine, Dma, Regs, Aligned
<1>2. [InitStatus EXCEPT !.halted = FALSE] \in Status
  BY DEF InitStatus, Status
<1>3. Settled(InitPipeline)
  BY InitPipelineFacts
<1>4. 0 \in Addresses /\ 0 \in 0..(PcRange - 1)
  BY SizeAssumption DEF Addresses, ImemBytes
<1>5. Between(cpu)
  <2>1. cpu.branch.state = "Step" /\ cpu.pipeline = InitPipeline /\ cpu.dma = InitDma
    BY DEF Init
  <2>2. cpu \in Cpu
    BY <1>1, <1>2, <1>3, <1>4 DEF Init, Cpu, BranchStates, Settled, Engine
  <2>3. QED
    BY <1>1, <1>3, <2>1, <2>2 DEF Between, Sound
<1>6. QED
  BY <1>5, ImagesAssumption DEF IInv, Init

LEMMA SingleKeeps ==
    ASSUME IInv, ExecSingle
    PROVE  IInv'
<1> DEFINE i0 == Fetch(cpu.pc)
<1>1. i0 \in Instrs /\ i0.info \in OpInfo
  BY FetchType, InstrFacts, SoundTypes DEF IInv, Between
<1>2. PICK c \in First(cpu, i0) : cpu' = Charged(Finish(c), Finish(c).pipeline.clocks)
  BY DEF ExecSingle
<1> HIDE DEF i0
<1>3. /\ Sound(c)
      /\ c.pipeline = issue(begin(cpu.pipeline), i0.info)
      /\ c.branch = cpu.branch \/ (c.branch.state = "Take" /\ Branch(i0.info))
  BY <1>1, FirstFacts DEF IInv
<1>4. /\ end(c.pipeline) = OneSlot(cpu.pipeline, i0.info)
      /\ Settled(end(c.pipeline))
      /\ end(c.pipeline).singleIssue = Branch(i0.info)
  BY <1>1, <1>3, OneSlotFacts DEF OneSlot, IInv, Between
<1>5. Between(Finish(c))
  BY <1>3, <1>4, FinishFacts DEF IInv, Between
<1>6. Finish(c).pipeline.clocks \in Nat
  BY <1>5 DEF Between, Settled, PipelineState
<1>7. imem' = imem
  BY DEF ExecSingle
<1>8. QED
  BY <1>2, <1>5, <1>6, <1>7, ChargedFacts DEF IInv

LEMMA PairKeeps ==
    ASSUME IInv, ExecPair
    PROVE  IInv'
<1> DEFINE i0 == Fetch(cpu.pc)
           i1 == Fetch(cpu.pc + 4)
<1>1. /\ i0 \in Instrs /\ i0.info \in OpInfo
      /\ i1 \in Instrs /\ i1.info \in OpInfo
  BY FetchType, InstrFacts, SoundTypes DEF IInv, Between
<1>2. PICK c \in First(cpu, i0) : \E d \in Second(c, i1) :
          cpu' = Charged(Finish(d), Finish(d).pipeline.clocks)
  BY DEF ExecPair
<1>3. PICK d \in Second(c, i1) : cpu' = Charged(Finish(d), Finish(d).pipeline.clocks)
  BY <1>2
<1>4. ~cpu.pipeline.singleIssue /\ ~Branch(i0.info)
  BY DEF ExecPair, PairsWith
<1> HIDE DEF i0, i1
<1>5. cpu.branch.state = "Step"
  BY <1>4, SoundTypes DEF IInv, Between, BranchStates
<1>6. /\ Sound(c) /\ c.branch.state = "Step"
      /\ c.pipeline = issue(begin(cpu.pipeline), i0.info)
  BY <1>1, <1>4, <1>5, FirstFacts DEF IInv
<1>7. /\ Sound(d)
      /\ d.pipeline = issue(c.pipeline, i1.info)
      /\ d.branch.state = "Step" \/ (d.branch.state = "Take" /\ Branch(i1.info))
  BY <1>1, <1>6, SecondFacts
<1>8. /\ end(d.pipeline) = PairSlot(cpu.pipeline, i0.info, i1.info)
      /\ Settled(end(d.pipeline))
      /\ end(d.pipeline).singleIssue = (Branch(i0.info) \/ Branch(i1.info))
  BY <1>1, <1>6, <1>7, PairSlotFacts DEF PairSlot, IInv, Between
<1>9. Between(Finish(d))
  BY <1>7, <1>8, FinishFacts
<1>10. Finish(d).pipeline.clocks \in Nat
  BY <1>9 DEF Between, Settled, PipelineState
<1>11. imem' = imem
  BY DEF ExecPair
<1>12. QED
  BY <1>3, <1>9, <1>10, <1>11, ChargedFacts DEF IInv

LEMMA SetHaltedFacts ==
    ASSUME NEW c, Between(c), NEW isHalted \in BOOLEAN
    PROVE  Between(setHalted(c, isHalted))
<1> DEFINE s == [c.status EXCEPT !.halted = isHalted]
<1>1. s \in Status
  BY SoundTypes, OtherStatusTypes DEF Between
<1>2. setHalted(c, isHalted) = [c EXCEPT !.status = s]
  BY DEF setHalted
<1> HIDE DEF s
<1>3. QED
  BY <1>1, <1>2, Fields DEF Between

LEMMA ResetKeeps ==
    ASSUME IInv, Reset
    PROVE  IInv'
<1> DEFINE d == [cpu EXCEPT !.pc = 0]
           e == [d EXCEPT !.ra = 0]
<1>1. 0 \in Addresses /\ 0 \in 0..(PcRange - 1)
  BY SizeAssumption DEF Addresses, ImemBytes
<1>2. Between(d)
  BY <1>1, Fields DEF IInv, Between
<1>3. Between(e)
  <2> HIDE DEF d
  <2>1. QED
    BY <1>1, <1>2, Fields DEF Between
<1>4. cpu' = setHalted(e, FALSE)
  BY DEF Reset
<1>5. imem' \in [0..(ImemWords - 1) -> Instrs]
  BY InstrsAssumption DEF Reset
<1> HIDE DEF e
<1>6. QED
  BY <1>3, <1>4, <1>5, SetHaltedFacts DEF IInv

LEMMA NextIInv == IInv /\ [Next]_vars => IInv'
<1> SUFFICES ASSUME IInv, [Next]_vars
             PROVE  IInv'
  OBVIOUS
<1>1. CASE ExecHalted
  BY <1>1, ChargedFacts DEF ExecHalted, IInv
<1>2. CASE ExecSingle
  BY <1>2, SingleKeeps
<1>3. CASE ExecPair
  BY <1>3, PairKeeps
<1>4. ASSUME NEW isHalted \in BOOLEAN, SetHalted(isHalted)
      PROVE  IInv'
  BY <1>4, SetHaltedFacts DEF SetHalted, IInv
<1>5. CASE Reset
  BY <1>5, ResetKeeps
<1>6. CASE HostLoad
  BY <1>6, ImagesAssumption DEF HostLoad, IInv
<1>7. CASE UNCHANGED vars
  BY <1>7 DEF vars, IInv
<1>8. QED
  BY <1>1, <1>2, <1>3, <1>4, <1>5, <1>6, <1>7 DEF Next, Exec

THEOREM Inductive == Spec => []IInv
  BY InitIInv, NextIInv, PTL DEF Spec

(* The registers keep their widths.                                        *)
THEOREM TypeCorrect == Spec => []TypeOK
<1>1. IInv => TypeOK
  BY DEF IInv, Between, Sound, TypeOK
<1>2. QED
  BY <1>1, Inductive, PTL

(* exec() never returns in the middle of a branch: the state machine is    *)
(* then in Step or in DelaySlot, and `unreachable' is.                     *)
THEOREM BranchAlwaysSettled == Spec => []BranchSettled
<1>1. IInv => BranchSettled
  BY DEF IInv, Between, BranchSettled
<1>2. QED
  BY <1>1, Inductive, PTL

(* A delay slot is never shared, through resets, halts and program changes *)
(* between the branch and its delay slot.                                  *)
THEOREM DelaySlotIssuedAlone == Spec => []DelaySlotAlone
<1>1. IInv => DelaySlotAlone
  BY DEF IInv, Between, DelaySlotAlone
<1>2. QED
  BY <1>1, Inductive, PTL
-----------------------------------------------------------------------------
(* A halted RSP is frozen.                                                 *)

LEMMA ChargedSame ==
    ASSUME NEW c, Sound(c), NEW clocks \in Nat
    PROVE  Charged(c, clocks) = [c EXCEPT !.dma.clock = Charged(c, clocks).dma.clock]
<1>1. c \in Cpu /\ c.dma \in Dma /\ c.dma.clock \in Int
  BY DEF Sound, Cpu, Dma
<1>2. PICK n : dmaStep(c.dma, clocks) = [c.dma EXCEPT !.clock = n]
  <2>1. c.dma = [c.dma EXCEPT !.clock = c.dma.clock]
    BY <1>1 DEF Dma
  <2>2. \/ dmaStep(c.dma, clocks) = c.dma
        \/ dmaStep(c.dma, clocks) = [c.dma EXCEPT !.clock = Tick(c.dma.clock, clocks)]
    BY DEF dmaStep, dmaTransferStep
  <2>3. QED
    BY <2>1, <2>2
<1>3. Charged(c, clocks) = [c EXCEPT !.dma.clock = n]
  BY <1>1, <1>2 DEF Charged, Cpu
<1>4. [c EXCEPT !.dma.clock = n].dma.clock = n
  BY <1>1 DEF Cpu, Dma
<1>5. QED
  BY <1>3, <1>4

(* Once halted is set, exec() changes the DMA clock and nothing else.      *)
THEOREM HaltIsPrecise == Spec => HaltedFrozen
<1> DEFINE Frozen == cpu.status.halted /\ cpu'.status.halted /\ imem' = imem
                        => cpu' = [cpu EXCEPT !.dma.clock = cpu'.dma.clock]
<1>1. ASSUME IInv, [Next]_vars PROVE [Frozen]_vars
  <2> SUFFICES ASSUME Next, cpu.status.halted, cpu'.status.halted
               PROVE  cpu' = [cpu EXCEPT !.dma.clock = cpu'.dma.clock] \/ UNCHANGED vars
    BY <1>1
  <2>1. cpu \in Cpu /\ cpu.status \in Status /\ cpu.dma \in Dma
    BY <1>1, SoundTypes DEF IInv, Between, Sound, Engine
  <2>2. cpu = [cpu EXCEPT !.dma.clock = cpu.dma.clock]
    BY <2>1 DEF Cpu, Dma
  <2>3. CASE Exec
    BY <1>1, <2>3, ChargedSame DEF Exec, ExecHalted, ExecSingle, ExecPair, IInv, Between
  <2>4. ASSUME NEW isHalted \in BOOLEAN, SetHalted(isHalted)
        PROVE  cpu' = cpu
    <3>1. cpu' = [cpu EXCEPT !.status = [cpu.status EXCEPT !.halted = isHalted]]
      BY <2>4 DEF SetHalted, setHalted
    <3>2. isHalted = TRUE
      BY <2>1, <3>1 DEF Cpu, Status
    <3>3. [cpu.status EXCEPT !.halted = TRUE] = cpu.status
      BY <2>1 DEF Status
    <3>4. QED
      BY <2>1, <3>1, <3>2, <3>3 DEF Cpu
  <2>5. CASE Reset
    <3>1. cpu' = [cpu EXCEPT !.pc = 0, !.ra = 0,
                             !.status = [cpu.status EXCEPT !.halted = FALSE]]
      BY <2>1, <2>5 DEF Reset, setHalted, Cpu
    <3>2. ~cpu'.status.halted
      BY <2>1, <3>1 DEF Cpu, Status
    <3>3. QED
      BY <3>2
  <2>6. ASSUME HostLoad
        PROVE  cpu' = cpu
    BY <2>6 DEF HostLoad
  <2>7. QED
    BY <2>2, <2>3, <2>4, <2>5, <2>6 DEF Next
<1>2. QED
  BY <1>1, Inductive, PTL DEF Spec, HaltedFrozen
-----------------------------------------------------------------------------
(* Addresses wrap at the end of IMEM, and the program counter at a         *)
(* multiple of it.                                                         *)

LEMMA Remainder ==
    ASSUME NEW m \in Nat \ {0}, NEW q \in Int, NEW x \in 0..(m - 1)
    PROVE  (m * q + x) % m = x
<1> DEFINE y == m * q + x
           d == y \div m
           s == y % m
<1>1. y \in Int /\ d \in Int /\ s \in 0..(m - 1) /\ y = m * d + s
  <2>1. m * q \in Int
    OBVIOUS
  <2>2. y \in Int
    BY <2>1
  <2> HIDE DEF y
  <2>3. QED
    BY <2>2
<1>2. y = m * q + x
  OBVIOUS
<1> HIDE DEF y, d, s
<1>3. m * (q - d) = s - x
  BY <1>1, <1>2
<1>4. ASSUME NEW k \in Int, k >= 1
      PROVE  m * k >= m
  <2>1. m * (k - 1) >= 0 /\ m * k = m * (k - 1) + m
    BY <1>4
  <2>2. QED
    BY <2>1
<1>5. ~(q - d >= 1)
  BY <1>1, <1>3, <1>4
<1>6. ~(d - q >= 1)
  <2>1. m * (d - q) = x - s
    BY <1>1, <1>2
  <2>2. QED
    BY <1>1, <1>4, <2>1
<1>7. q = d
  BY <1>1, <1>5, <1>6
<1>8. QED
  BY <1>1, <1>2, <1>7 DEF y, s

LEMMA SameRemainder ==
    ASSUME NEW m \in Nat \ {0}, NEW q \in Int, NEW x \in Int
    PROVE  (m * q + x) % m = x % m
<1>1. x = m * (x \div m) + (x % m) /\ x \div m \in Int /\ x % m \in 0..(m - 1)
  OBVIOUS
<1>2. m * q + x = m * (q + x \div m) + (x % m) /\ q + x \div m \in Int
  BY <1>1
<1>3. QED
  BY <1>1, <1>2, Remainder

LEMMA AddWraps ==
    ASSUME NEW m \in Nat \ {0}, NEW a \in Int, NEW b \in Int
    PROVE  ((a % m) + b) % m = (a + b) % m
<1>1. a = m * (a \div m) + (a % m) /\ a \div m \in Int /\ (a % m) + b \in Int
  OBVIOUS
<1>2. a + b = m * (a \div m) + ((a % m) + b)
  BY <1>1
<1>3. QED
  BY <1>1, <1>2, SameRemainder

LEMMA PcWraps ==
    ASSUME NEW a \in Int
    PROVE  (a % PcRange) % ImemBytes = a % ImemBytes
<1>1. /\ ImemBytes \in Nat \ {0} /\ PcRange \in Nat \ {0} /\ PcRange % ImemBytes = 0
  BY SizeAssumption DEF ImemBytes
<1>2. /\ PcRange = ImemBytes * (PcRange \div ImemBytes) /\ PcRange \div ImemBytes \in Int
  BY <1>1
<1>3. a = PcRange * (a \div PcRange) + (a % PcRange) /\ a \div PcRange \in Int /\ a % PcRange \in Int
  BY <1>1
<1> DEFINE k == PcRange \div ImemBytes
           n == a \div PcRange
<1>4. k * n \in Int /\ a = ImemBytes * (k * n) + (a % PcRange)
  <2>1. k \in Int /\ n \in Int /\ PcRange = ImemBytes * k /\ a = PcRange * n + (a % PcRange)
    BY <1>2, <1>3
  <2> HIDE DEF k, n
  <2>2. PcRange * n = ImemBytes * (k * n)
    BY <1>1, <2>1
  <2>3. QED
    BY <2>1, <2>2
<1>5. QED
  BY <1>1, <1>3, <1>4, SameRemainder

-----------------------------------------------------------------------------
(* The refinement: every exec() is one instruction of RspIsa, or two.      *)

(* What RspIsa sees of a machine state.                                    *)
Seen(c) ==
    [pc     |-> c.pc % ImemBytes,
     target |-> IF c.branch.state = "DelaySlot" THEN c.branch.pc ELSE -1,
     ra     |-> c.ra,
     status |-> c.status]

LEMMA SameNames ==
    /\ InOrder!ImemBytes = ImemBytes /\ InOrder!NoTarget = -1
    /\ \A a : InOrder!Wrap(a) = a % ImemBytes
    /\ \A s : InOrder!BREAK(s) = BREAK(s)
    /\ \A s, reg : InOrder!ioReadStatus(s, reg) = ioReadStatus(s, reg)
    /\ \A s, reg, w : InOrder!ioWriteStatus(s, reg, w) = ioWriteStatus(s, reg, w)
    /\ InOrder!InitStatus = InitStatus
    /\ InOrder!Now = Seen(cpu)
<1>1. \A s, w : InOrder!statusWrite(s, w) = statusWrite(s, w)
  BY DEF InOrder!statusWrite, statusWrite, InOrder!SetClear, SetClear
<1>2. \A s, reg, w : InOrder!ioWriteStatus(s, reg, w) = ioWriteStatus(s, reg, w)
  BY <1>1 DEF InOrder!ioWriteStatus, ioWriteStatus, InOrder!SP_STATUS, SP_STATUS,
              InOrder!SP_SEMAPHORE, SP_SEMAPHORE
<1>3. \A s, reg : InOrder!ioReadStatus(s, reg) = ioReadStatus(s, reg)
  BY DEF InOrder!ioReadStatus, ioReadStatus, InOrder!SP_SEMAPHORE, SP_SEMAPHORE
<1>4. \A s : InOrder!BREAK(s) = BREAK(s)
  BY DEF InOrder!BREAK, BREAK
<1>5. InOrder!ImemBytes = ImemBytes /\ InOrder!NoTarget = -1
  BY DEF InOrder!ImemBytes, ImemBytes, InOrder!NoTarget
<1>6. \A a : InOrder!Wrap(a) = a % ImemBytes
  BY <1>5 DEF InOrder!Wrap
<1>7. InOrder!InitStatus = InitStatus
  BY DEF InOrder!InitStatus, InitStatus
<1>8. InOrder!Now = Seen(cpu)
  BY DEF InOrder!Now, Seen
<1>9. QED
  BY <1>2, <1>3, <1>4, <1>5, <1>6, <1>7, <1>8

(* What an operation leaves of b, and where RspIsa says it branches.       *)
Effect(b, i, e, t, st) ==
    /\ e \in Cpu
    /\ e.pc = b.pc
    /\ e.status = st
    /\ e.ra = IF i.link THEN (b.pc + 8) % ImemBytes ELSE b.ra
    /\ t = -1 => e.branch = b.branch
    /\ t # -1 => t \in Addresses /\ e.branch = [pc |-> t, state |-> "Take"]

LEMMA LinkedEffect ==
    ASSUME NEW b, Sound(b), NEW i
    PROVE  Effect(b, i, linked(b, i), -1, b.status)
<1>1. b \in Cpu /\ (b.pc + 8) % ImemBytes \in Addresses
  BY SoundTypes, Wraps DEF Sound
<1>2. QED
  BY <1>1 DEF Effect, linked, Cpu

LEMMA ExecuteEffect ==
    ASSUME NEW b, Sound(b), NEW i \in Instrs, NEW e \in Execute(i, b)
    PROVE  \E t \in InOrder!Targets(i, Seen(b)), st \in InOrder!Statuses(i, Seen(b)) :
              Effect(b, i, e, t, st)
<1> DEFINE l == linked(b, i)
           ts == InOrder!Targets(i, Seen(b))
           sts == InOrder!Statuses(i, Seen(b))
<1>1. Effect(b, i, l, -1, b.status)
  BY LinkedEffect
<1>2. /\ i.imm \in Int /\ b.pc \in Nat /\ b.ra \in Addresses /\ b.status \in Status
      /\ RegTargets \subseteq Int /\ ImemBytes \in Nat \ {0}
      /\ i.kind \in Kinds
  BY InstrFacts, SoundTypes, DataAssumption, SizeAssumption DEF ImemBytes
<1>3. Seen(b).pc = b.pc % ImemBytes /\ Seen(b).ra = b.ra /\ Seen(b).status = b.status
  BY DEF Seen
<1>4. ASSUME NEW a \in Int
      PROVE  Effect(b, i, take(l, a), a % ImemBytes, b.status) /\ a % ImemBytes # -1
  <2>1. a % ImemBytes \in Addresses
    BY Wraps
  <2>2. a % ImemBytes # -1
    BY <2>1 DEF Addresses
  <2> HIDE DEF l
  <2>3. QED
    BY <1>1, <2>1, <2>2 DEF Effect, take, Cpu, BranchStates
<1>5. ASSUME NEW st \in Status
      PROVE  Effect(b, i, [l EXCEPT !.status = st], -1, st)
  <2> HIDE DEF l
  <2>1. QED
    BY <1>1, <1>5 DEF Effect, Cpu
<1>6. l.status = b.status
  BY <1>1 DEF Effect
<1>7. i.kind \notin {"break", "mtc0", "mfc0"} => b.status \in sts
  BY <1>2, <1>3 DEF InOrder!Statuses, Kinds
<1>8. i.kind \notin {"jump", "cond", "register", "return"} => -1 \in ts
  BY <1>2, SameNames DEF InOrder!Targets, Kinds
<1>9. CASE i.kind = "jump"
  <2>1. e = take(l, i.imm)
    BY <1>9 DEF Execute
  <2>2. i.imm % ImemBytes \in ts
    BY <1>9, SameNames DEF InOrder!Targets
  <2> HIDE DEF l, ts, sts
  <2>3. QED
    BY <1>2, <1>4, <1>7, <1>9, <2>1, <2>2 DEF ts, sts
<1>10. CASE i.kind = "cond"
  <2>1. e = l \/ e = take(l, b.pc + 4 + i.imm)
    BY <1>10 DEF Execute
  <2>2. -1 \in ts /\ (b.pc + 4 + i.imm) % ImemBytes \in ts
    <3>1. ts = {-1, ((b.pc % ImemBytes) + 4 + i.imm) % ImemBytes}
      BY <1>3, <1>10, SameNames DEF InOrder!Targets
    <3>2. PICK p, k \in Int : p = b.pc /\ k = 4 + i.imm
      BY <1>2
    <3>3. ((p % ImemBytes) + k) % ImemBytes = (p + k) % ImemBytes
      BY <1>2, AddWraps
    <3>4. (p % ImemBytes) + 4 + i.imm = (p % ImemBytes) + k /\ p + 4 + i.imm = p + k
      <4>1. p % ImemBytes \in Int
        BY <1>2
      <4>2. QED
        BY <1>2, <3>2, <4>1
    <3>5. QED
      BY <3>1, <3>2, <3>3, <3>4
  <2>3. b.pc + 4 + i.imm \in Int
    BY <1>2
  <2> HIDE DEF l, ts, sts
  <2>4. QED
    BY <1>1, <1>4, <1>7, <1>10, <2>1, <2>2, <2>3 DEF ts, sts
<1>11. CASE i.kind = "register"
  <2>1. PICK r \in RegTargets : e = take(l, r)
    BY <1>11 DEF Execute
  <2>2. r % ImemBytes \in ts
    BY <1>11, SameNames DEF InOrder!Targets
  <2> HIDE DEF l, ts, sts
  <2>3. QED
    BY <1>2, <1>4, <1>7, <1>11, <2>1, <2>2 DEF ts, sts
<1>12. CASE i.kind = "return"
  <2>1. e = take(l, b.ra)
    BY <1>12 DEF Execute
  <2>2. b.ra \in ts /\ b.ra \in Int /\ b.ra % ImemBytes = b.ra
    <3>1. b.ra \in Int /\ b.ra \in 0..(ImemBytes - 1)
      BY <1>2 DEF Addresses
    <3>2. QED
      BY <1>2, <1>3, <1>12, <3>1 DEF InOrder!Targets
  <2> HIDE DEF l, ts, sts
  <2>3. QED
    BY <1>4, <1>7, <1>12, <2>1, <2>2 DEF ts, sts
<1>13. CASE i.kind \in {"break", "mtc0", "mfc0"}
  <2>1. -1 \in ts
    BY <1>8, <1>13
  <2>2. \E st \in Status \cap sts : \/ e = [l EXCEPT !.status = st]
                                     \/ \E d \in Dma : e = [l EXCEPT !.status = st, !.dma = d]
    <3> HIDE DEF l
    <3>1. CASE i.kind = "break"
      <4>1. e = [l EXCEPT !.status = BREAK(b.status)]
        BY <1>6, <3>1 DEF Execute, l
      <4>2. BREAK(b.status) \in Status \cap sts
        BY <1>2, <1>3, <3>1, SameNames, OtherStatusTypes DEF InOrder!Statuses
      <4>3. QED
        BY <4>1, <4>2
    <3>2. CASE i.kind = "mfc0"
      <4>1. e = [l EXCEPT !.status = ioReadStatus(b.status, i.imm)]
        BY <1>6, <3>2 DEF Execute, l
      <4>2. ioReadStatus(b.status, i.imm) \in Status \cap sts
        BY <1>2, <1>3, <3>2, SameNames, OtherStatusTypes DEF InOrder!Statuses
      <4>3. QED
        BY <4>1, <4>2
    <3>3. CASE i.kind = "mtc0"
      <4>1. PICK w \in MovedWords : e = ioWrite(l, i.imm, w)
        BY <3>3 DEF Execute, l
      <4>2. w \in Words
        BY DataAssumption
      <4>3. ioWriteStatus(b.status, i.imm, w) \in Status \cap sts
        BY <1>2, <1>3, <3>3, <4>2, SameNames, WriteStatusType DEF InOrder!Statuses
      <4>4. Sound(l)
        BY LinkedFacts DEF l
      <4>5. ioWriteDma(l.dma, i.imm, w) \in Dma
        BY <4>2, <4>4, SoundTypes, WriteDmaFacts DEF Engine
      <4>6. e = [l EXCEPT !.status = ioWriteStatus(b.status, i.imm, w),
                          !.dma = ioWriteDma(l.dma, i.imm, w)]
        <5>1. l \in Cpu
          BY <4>4 DEF Sound
        <5>2. QED
          BY <1>6, <4>1, <5>1 DEF ioWrite, Cpu
      <4>7. QED
        BY <4>3, <4>5, <4>6
    <3>4. QED
      BY <1>13, <3>1, <3>2, <3>3
  <2>3. PICK st \in Status \cap sts : \/ e = [l EXCEPT !.status = st]
                                       \/ \E d \in Dma : e = [l EXCEPT !.status = st, !.dma = d]
    BY <2>2
  <2> HIDE DEF l, ts, sts
  <2>4. Effect(b, i, e, -1, st)
    BY <1>1, <2>3 DEF Effect, Cpu
  <2>5. QED
    BY <2>1, <2>3, <2>4 DEF ts, sts
<1>14. CASE i.kind = "plain"
  <2>1. e = l
    BY <1>14 DEF Execute
  <2>2. QED
    BY <1>1, <1>7, <1>8, <1>14, <2>1
<1>15. QED
  BY <1>2, <1>9, <1>10, <1>11, <1>12, <1>13, <1>14 DEF Kinds

(* The end of an instruction: the address of the next one, and whether a   *)
(* branch is pending.                                                      *)
LEMMA EpilogueSeen ==
    ASSUME NEW g \in Cpu
    PROVE  Seen(Epilogue(g)) =
             [pc     |-> IF g.branch.state = "DelaySlot" THEN g.branch.pc
                                                         ELSE (g.pc + 4) % ImemBytes,
              target |-> IF g.branch.state = "Take" THEN g.branch.pc ELSE -1,
              ra     |-> g.ra,
              status |-> g.status]
<1>1. /\ g.pc \in Int /\ g.branch.pc \in Addresses
      /\ g.branch.state \in {"Step", "Take", "DelaySlot"}
      /\ ((g.pc + 4) % PcRange) % ImemBytes = (g.pc + 4) % ImemBytes
  <2>1. g.pc \in Int /\ g.branch.pc \in Addresses /\ g.branch.state \in BranchStates
    BY SizeAssumption DEF Cpu
  <2>2. g.pc + 4 \in Int
    BY <2>1
  <2>3. QED
    BY <2>1, <2>2, PcWraps DEF BranchStates
<1>2. g.branch.pc % ImemBytes = g.branch.pc
  <2>1. g.branch.pc \in 0..(ImemBytes - 1) /\ ImemBytes \in Nat \ {0}
    BY <1>1, SizeAssumption DEF Addresses, ImemBytes
  <2>2. QED
    BY <2>1
<1>3. CASE g.branch.state = "Step"
  BY <1>1, <1>3 DEF Epilogue, NextPc, Seen, Cpu
<1>4. CASE g.branch.state = "Take"
  BY <1>1, <1>4 DEF Epilogue, NextPc, branchState, Seen, Cpu
<1>5. CASE g.branch.state = "DelaySlot"
  BY <1>1, <1>2, <1>5 DEF Epilogue, branchState, Seen, Cpu
<1>6. QED
  BY <1>1, <1>3, <1>4, <1>5

(* One instruction, its pipeline and its DMA engine aside, is one step of  *)
(* RspIsa.                                                                 *)
LEMMA Retires ==
    ASSUME NEW b, Sound(b), b.branch.state # "Take",
           NEW i \in Instrs, i = Fetch(b.pc), NEW e \in Execute(i, b),
           NEW g \in Cpu, g.pc = e.pc, g.branch = e.branch, g.ra = e.ra, g.status = e.status
    PROVE  Seen(Epilogue(g)) \in InOrder!Step(Seen(b))
<1>1. PICK t \in InOrder!Targets(i, Seen(b)), st \in InOrder!Statuses(i, Seen(b)) :
             Effect(b, i, e, t, st)
  BY ExecuteEffect
<1>2. /\ ImemBytes \in Nat \ {0} /\ b.pc \in Int
      /\ b.branch.pc \in Addresses /\ b.branch.state \in {"Step", "DelaySlot"}
  BY SoundTypes, SizeAssumption DEF ImemBytes, BranchStates
<1>3. /\ ((b.pc % ImemBytes) + 4) % ImemBytes = (b.pc + 4) % ImemBytes
      /\ ((b.pc % ImemBytes) + 8) % ImemBytes = (b.pc + 8) % ImemBytes
  BY <1>2, AddWraps
<1>4. /\ Seen(b).pc = b.pc % ImemBytes /\ Seen(b).ra = b.ra
      /\ Seen(b).target = IF b.branch.state = "DelaySlot" THEN b.branch.pc ELSE -1
  BY DEF Seen
<1>5. imem[Seen(b).pc \div 4] = i
  BY <1>4 DEF Fetch
<1>6. -1 \notin Addresses
  BY DEF Addresses
<1> DEFINE s == [pc     |-> IF t = -1 /\ Seen(b).target # -1 THEN Seen(b).target
                                                          ELSE (b.pc + 4) % ImemBytes,
                 target |-> t,
                 ra     |-> IF i.link THEN (b.pc + 8) % ImemBytes ELSE b.ra,
                 status |-> st]
<1>7. s \in InOrder!Step(Seen(b))
  <2>1. InOrder!Step(Seen(b)) =
           {[pc     |-> IF u = -1 /\ Seen(b).target # -1 THEN Seen(b).target
                                                        ELSE (b.pc + 4) % ImemBytes,
             target |-> u,
             ra     |-> IF i.link THEN (b.pc + 8) % ImemBytes ELSE b.ra,
             status |-> v] : u \in InOrder!Targets(i, Seen(b)),
                             v \in InOrder!Statuses(i, Seen(b))}
    BY <1>3, <1>4, <1>5, SameNames DEF InOrder!Step
  <2>2. QED
    BY <2>1
<1>8. Seen(Epilogue(g)) = s
  <2>1. /\ g.pc = b.pc /\ g.status = st
        /\ g.ra = (IF i.link THEN (b.pc + 8) % ImemBytes ELSE b.ra)
        /\ t = -1 => g.branch = b.branch
        /\ t # -1 => g.branch = [pc |-> t, state |-> "Take"]
    BY <1>1 DEF Effect
  <2>2. CASE t = -1
    BY <1>2, <1>4, <1>6, <2>1, <2>2, EpilogueSeen
  <2>3. CASE t # -1
    BY <1>4, <2>1, <2>3, EpilogueSeen
  <2>4. QED
    BY <2>2, <2>3
<1>9. QED
  BY <1>7, <1>8

-----------------------------------------------------------------------------
(* The actions.                                                            *)

(* The operations of a slot see the machine with its pipeline changed.     *)
LEMMA OnlyPipeline ==
    ASSUME NEW c, Sound(c), NEW p \in PipelineState
    PROVE  LET e == [c EXCEPT !.pipeline = p]
           IN  /\ Sound(e) /\ Seen(e) = Seen(c) /\ e.branch = c.branch
               /\ e.pc = c.pc /\ e.ra = c.ra /\ e.status = c.status /\ e \in Cpu
<1>1. c \in Cpu
  BY DEF Sound
<1>2. QED
  BY <1>1, Fields DEF Seen, Cpu, Sound

LEMMA ChargedSeen ==
    ASSUME NEW c, Sound(c), NEW clocks \in Nat
    PROVE  Seen(Charged(c, clocks)) = Seen(c)
<1>1. c \in Cpu
  BY DEF Sound
<1>2. QED
  BY <1>1 DEF Seen, Charged, Cpu

(* The state of RspIsa becomes s.                                          *)
LEMMA SeenNow == \A s : Seen(cpu)' = s => InOrder!Becomes(s)
BY DEF Seen, InOrder!Becomes

LEMMA SingleRefines ==
    ASSUME IInv, ExecSingle
    PROVE  InOrder!Run
<1> DEFINE i0 == Fetch(cpu.pc)
           p == issue(begin(cpu.pipeline), i0.info)
           b == [cpu EXCEPT !.pipeline = p]
<1>1. i0 \in Instrs /\ i0.info \in OpInfo
  BY FetchType, InstrFacts, SoundTypes DEF IInv, Between
<1>2. PICK c \in First(cpu, i0) : cpu' = Charged(Finish(c), Finish(c).pipeline.clocks)
  BY DEF ExecSingle
<1>3. c \in Execute(i0, b)
  BY <1>2 DEF First
<1> HIDE DEF i0
<1>4. p \in PipelineState
  BY <1>1, BeginFacts, IssueFacts DEF IInv, Between, Settled
<1>5. /\ Sound(c)
      /\ Settled(end(c.pipeline))
      /\ c.branch.state = "Take" => end(c.pipeline).singleIssue
  <2>1. /\ Sound(c)
        /\ c.pipeline = issue(begin(cpu.pipeline), i0.info)
        /\ c.branch = cpu.branch \/ (c.branch.state = "Take" /\ Branch(i0.info))
    BY <1>1, <1>2, FirstFacts DEF IInv
  <2>2. /\ Settled(end(c.pipeline))
        /\ end(c.pipeline).singleIssue = Branch(i0.info)
    BY <1>1, <2>1, OneSlotFacts DEF OneSlot, IInv, Between
  <2>3. QED
    BY <2>1, <2>2 DEF IInv, Between
<1> HIDE DEF p
<1>6. /\ Sound(b) /\ Seen(b) = Seen(cpu) /\ b.branch.state # "Take" /\ i0 = Fetch(b.pc)
  BY <1>4, OnlyPipeline DEF IInv, Between, i0
<1> HIDE DEF b
<1> DEFINE g == [c EXCEPT !.pipeline = end(c.pipeline)]
<1>7. /\ g \in Cpu /\ g.pc = c.pc /\ g.branch = c.branch /\ g.ra = c.ra
      /\ g.status = c.status /\ Finish(c) = Epilogue(g)
  BY <1>5, OnlyPipeline DEF Finish, Settled
<1> HIDE DEF g
<1>8. Seen(Finish(c)) \in InOrder!Step(Seen(cpu))
  BY <1>1, <1>3, <1>6, <1>7, Retires
<1>9. Seen(cpu)' = Seen(Finish(c))
  <2>1. Between(Finish(c))
    BY <1>5, FinishFacts
  <2>2. Finish(c).pipeline.clocks \in Nat
    BY <2>1 DEF Between, Settled, PipelineState
  <2>3. Seen(cpu') = Seen(Finish(c))
    BY <1>2, <2>1, <2>2, ChargedSeen DEF Between
  <2>4. QED
    BY <2>3 DEF Seen
<1>10. QED
  BY <1>8, <1>9, SeenNow, SameNames DEF ExecSingle, InOrder!Run

LEMMA PairRefines ==
    ASSUME IInv, ExecPair
    PROVE  InOrder!Run
<1> DEFINE i0 == Fetch(cpu.pc)
           i1 == Fetch(cpu.pc + 4)
           p == issue(begin(cpu.pipeline), i0.info)
           b == [cpu EXCEPT !.pipeline = p]
<1>1. /\ i0 \in Instrs /\ i0.info \in OpInfo
      /\ i1 \in Instrs /\ i1.info \in OpInfo
  BY FetchType, InstrFacts, SoundTypes DEF IInv, Between
<1>2. PICK c \in First(cpu, i0) : \E d \in Second(c, i1) :
          cpu' = Charged(Finish(d), Finish(d).pipeline.clocks)
  BY DEF ExecPair
<1>3. PICK d \in Second(c, i1) : cpu' = Charged(Finish(d), Finish(d).pipeline.clocks)
  BY <1>2
<1>4. ~cpu.pipeline.singleIssue /\ ~Branch(i0.info)
  BY DEF ExecPair, PairsWith
<1>5. c \in Execute(i0, b)
  BY <1>2 DEF First
<1>6. cpu.branch.state = "Step"
  BY <1>4, SoundTypes DEF IInv, Between, BranchStates
<1> DEFINE n == Epilogue(c)
           q == issue(n.pipeline, i1.info)
           f == [n EXCEPT !.pipeline = q]
<1>7. d \in Execute(i1, f)
  BY <1>3 DEF Second
<1> HIDE DEF i0, i1
<1>8. /\ Sound(c) /\ c.branch.state = "Step"
      /\ c.pipeline = issue(begin(cpu.pipeline), i0.info)
  BY <1>1, <1>2, <1>4, <1>6, FirstFacts DEF IInv
<1>9. /\ Sound(d)
      /\ d.pipeline = issue(c.pipeline, i1.info)
      /\ d.branch.state = "Step" \/ (d.branch.state = "Take" /\ Branch(i1.info))
  BY <1>1, <1>3, <1>8, SecondFacts
<1>10. /\ Settled(end(d.pipeline))
       /\ end(d.pipeline).singleIssue = (Branch(i0.info) \/ Branch(i1.info))
  BY <1>1, <1>8, <1>9, PairSlotFacts DEF PairSlot, IInv, Between
<1>11. p \in PipelineState
  BY <1>1, BeginFacts, IssueFacts DEF IInv, Between, Settled
<1> HIDE DEF p
<1>12. Sound(b) /\ Seen(b) = Seen(cpu) /\ b.branch.state # "Take" /\ i0 = Fetch(b.pc)
  BY <1>6, <1>11, OnlyPipeline DEF IInv, Between, i0
<1> HIDE DEF b
<1>13. Seen(n) \in InOrder!Step(Seen(cpu))
  BY <1>1, <1>5, <1>8, <1>12, Retires DEF Sound
<1>14. /\ Sound(n) /\ n.branch.state = "Step" /\ q \in PipelineState
       /\ n.pc = (c.pc + 4) % PcRange /\ c.pc = cpu.pc
  <2>1. Sound(n) /\ n.pipeline = c.pipeline /\ n.branch = c.branch
    BY <1>8, EpilogueFacts
  <2>2. q \in PipelineState
    BY <1>1, <1>8, <2>1, SoundTypes, IssueFacts
  <2>3. n.pc = (c.pc + 4) % PcRange
    BY <1>8 DEF Epilogue, NextPc, Sound, Cpu
  <2>4. c.pc = cpu.pc
    <3>1. PICK t, st : Effect(b, i0, c, t, st)
      BY <1>1, <1>5, <1>12, ExecuteEffect
    <3>2. b.pc = cpu.pc
      BY <1>11, OnlyPipeline DEF IInv, Between, b
    <3>3. QED
      BY <3>1, <3>2 DEF Effect
  <2>5. QED
    BY <1>8, <2>1, <2>2, <2>3, <2>4
<1>15. i1 = Fetch(n.pc)
  <2>1. cpu.pc + 4 \in Int
    BY SoundTypes DEF IInv, Between
  <2>2. n.pc % ImemBytes = (cpu.pc + 4) % ImemBytes
    BY <1>14, <2>1, PcWraps
  <2>3. QED
    BY <2>2 DEF Fetch, i1
<1> HIDE DEF n, q
<1>16. Sound(f) /\ Seen(f) = Seen(n) /\ f.branch.state # "Take" /\ i1 = Fetch(f.pc)
  BY <1>14, <1>15, OnlyPipeline
<1> HIDE DEF f
<1> DEFINE g == [d EXCEPT !.pipeline = end(d.pipeline)]
<1>17. /\ g \in Cpu /\ g.pc = d.pc /\ g.branch = d.branch /\ g.ra = d.ra
       /\ g.status = d.status /\ Finish(d) = Epilogue(g)
  BY <1>9, <1>10, OnlyPipeline DEF Finish, Settled
<1> HIDE DEF g
<1>18. Seen(Finish(d)) \in InOrder!Step(Seen(n))
  BY <1>1, <1>7, <1>16, <1>17, Retires
<1>19. Seen(cpu)' = Seen(Finish(d))
  <2>1. Between(Finish(d))
    BY <1>9, <1>10, FinishFacts
  <2>2. Finish(d).pipeline.clocks \in Nat
    BY <2>1 DEF Between, Settled, PipelineState
  <2>3. Seen(cpu') = Seen(Finish(d))
    BY <1>3, <2>1, <2>2, ChargedSeen DEF Between
  <2>4. QED
    BY <2>3 DEF Seen
<1>20. QED
  BY <1>13, <1>18, <1>19, SeenNow, SameNames DEF ExecPair, InOrder!Run

LEMMA NextRefines ==
    ASSUME IInv, [Next]_vars
    PROVE  [InOrder!Next]_(InOrder!vars)
<1>1. cpu \in Cpu /\ cpu.status \in Status /\ Sound(cpu) /\ Engine(cpu.dma)
  BY SoundTypes DEF IInv, Between, Sound
<1>2. CASE ExecHalted
  <2>1. Seen(cpu') = Seen(cpu)
    BY <1>1, <1>2, ChargedSeen DEF ExecHalted
  <2>2. QED
    BY <1>2, <2>1 DEF ExecHalted, Seen, InOrder!vars
<1>3. CASE ExecSingle \/ ExecPair
  BY <1>3, SingleRefines, PairRefines DEF InOrder!Next
<1>4. ASSUME NEW isHalted \in BOOLEAN, SetHalted(isHalted)
      PROVE  InOrder!SetHalted(isHalted)
  BY <1>1, <1>4 DEF SetHalted, setHalted, InOrder!SetHalted, Cpu
<1>5. CASE Reset
  <2>1. cpu' = [cpu EXCEPT !.pc = 0, !.ra = 0,
                           !.status = [cpu.status EXCEPT !.halted = FALSE]]
    BY <1>1, <1>5 DEF Reset, setHalted, Cpu
  <2>2. 0 % ImemBytes = 0
    BY SizeAssumption DEF ImemBytes
  <2>3. InOrder!Reset
    BY <1>1, <1>5, <2>1, <2>2 DEF Reset, InOrder!Reset, Cpu
  <2>4. QED
    BY <2>3 DEF InOrder!Next
<1>6. CASE HostLoad
  <2>1. InOrder!HostLoad
    BY <1>6, ImagesAssumption DEF HostLoad, InOrder!HostLoad
  <2>2. QED
    BY <2>1 DEF InOrder!Next
<1>7. CASE UNCHANGED vars
  BY <1>7 DEF vars, InOrder!vars
<1>8. QED
  BY <1>2, <1>3, <1>4, <1>5, <1>6, <1>7 DEF Next, Exec, InOrder!Next

(* Dual issue, branch states and the wrapping program counter cannot be    *)
(* told from one instruction after the other (RSP::exec): every execution  *)
(* of the machine is one of RspIsa.                                        *)
THEOREM CoreImplementsIsa == Spec => ImplementsIsa
<1>1. Init => InOrder!Init
  <2>1. 0 % ImemBytes = 0
    BY SizeAssumption DEF ImemBytes
  <2>2. QED
    BY <2>1, SameNames, ImagesAssumption DEF Init, InOrder!Init
<1>2. QED
  BY <1>1, NextRefines, Inductive, PTL DEF Spec, ImplementsIsa, InOrder!Spec
-----------------------------------------------------------------------------
(* The end of a delay slot whose target is the second half of a 64-bit     *)
(* word.                                                                   *)
LEMMA OddTargetMarked ==
    ASSUME NEW g \in Cpu, g.branch.state = "DelaySlot", Epilogue(g).pc = g.branch.pc,
           OddWord(g.branch.pc), Settled(g.pipeline)
    PROVE  Epilogue(g).pipeline.singleIssue
<1>1. Epilogue(g).pipeline = DelaySlotEpilogue(g.pipeline, TRUE)
  <2>1. OddWord(g.branch.pc) = TRUE
    BY DEF OddWord
  <2>2. QED
    BY <2>1 DEF Epilogue, branchState, Cpu
<1>2. QED
  BY <1>1, DelaySlotEpilogueFacts

(* A branch to the second half of a 64-bit word leaves the mark that its   *)
(* target is issued alone.                                                 *)
LEMMA ArrivalIsMarked ==
    ASSUME IInv, Next, cpu.branch.state = "DelaySlot",
           cpu'.branch.state = "Step", OddWord(cpu'.pc)
    PROVE  cpu'.pipeline.singleIssue
<1>1. cpu \in Cpu /\ cpu.pipeline.singleIssue
  BY DEF IInv, Between, Sound
<1>2. ExecSingle
  <2>1. ~ExecPair
    BY <1>1 DEF ExecPair, PairsWith
  <2>2. ExecHalted => cpu'.branch = cpu.branch
    BY <1>1 DEF ExecHalted, Charged, Cpu
  <2>3. (\E isHalted \in BOOLEAN : SetHalted(isHalted)) => cpu'.branch = cpu.branch
    BY <1>1 DEF SetHalted, setHalted, Cpu
  <2>4. Reset => cpu'.branch = cpu.branch
    BY <1>1 DEF Reset, setHalted, Cpu
  <2>5. HostLoad => cpu'.branch = cpu.branch
    BY DEF HostLoad
  <2>6. QED
    BY <2>1, <2>2, <2>3, <2>4, <2>5 DEF Next, Exec
<1> DEFINE i0 == Fetch(cpu.pc)
<1>3. i0 \in Instrs /\ i0.info \in OpInfo
  BY FetchType, InstrFacts, SoundTypes DEF IInv, Between
<1>4. PICK c \in First(cpu, i0) : cpu' = Charged(Finish(c), Finish(c).pipeline.clocks)
  BY <1>2 DEF ExecSingle
<1> HIDE DEF i0
<1>5. /\ Sound(c)
      /\ c.pipeline = issue(begin(cpu.pipeline), i0.info)
      /\ c.branch = cpu.branch \/ (c.branch.state = "Take" /\ Branch(i0.info))
  BY <1>3, <1>4, FirstFacts DEF IInv
<1>6. Settled(end(c.pipeline)) /\ end(c.pipeline).singleIssue = Branch(i0.info)
  BY <1>3, <1>5, OneSlotFacts DEF OneSlot, IInv, Between
<1> DEFINE g == [c EXCEPT !.pipeline = end(c.pipeline)]
<1>7. /\ Sound(g) /\ g \in Cpu /\ g.branch = c.branch /\ Finish(c) = Epilogue(g)
      /\ g.pipeline = end(c.pipeline)
  BY <1>5, <1>6, OnlyPipeline, Fields DEF Finish, Settled
<1> HIDE DEF g
<1>8. Between(Finish(c))
  BY <1>5, <1>6, FinishFacts DEF IInv, Between
<1>9. /\ cpu'.branch = Epilogue(g).branch /\ cpu'.pc = Epilogue(g).pc
      /\ cpu'.pipeline = Epilogue(g).pipeline
  BY <1>4, <1>7, <1>8 DEF Charged, Between, Sound, Cpu
<1>10. g.branch.state = "DelaySlot"
  <2>1. g.pipeline.current = NoCurrent
    BY <1>6, <1>7 DEF Settled
  <2>2. g.branch.state # "Take"
    BY <1>7, <1>9, <2>1, EpilogueFacts
  <2>3. QED
    BY <1>5, <1>7, <2>2
<1>11. Epilogue(g).pc = g.branch.pc
  BY <1>7, <1>10 DEF Epilogue, branchState, Cpu
<1>12. QED
  BY <1>6, <1>7, <1>9, <1>10, <1>11, OddTargetMarked

(* Outside a delay slot, an exec() of one instruction moves the program    *)
(* counter by one instruction.                                             *)
LEMMA SingleAdvances ==
    ASSUME IInv, ExecSingle, cpu.branch.state = "Step"
    PROVE  cpu'.pc = NextPc(cpu).pc
<1> DEFINE i0 == Fetch(cpu.pc)
           p == issue(begin(cpu.pipeline), i0.info)
           b == [cpu EXCEPT !.pipeline = p]
<1>1. i0 \in Instrs /\ i0.info \in OpInfo
  BY FetchType, InstrFacts, SoundTypes DEF IInv, Between
<1>2. PICK c \in First(cpu, i0) : cpu' = Charged(Finish(c), Finish(c).pipeline.clocks)
  BY DEF ExecSingle
<1>3. c \in Execute(i0, b)
  BY <1>2 DEF First
<1> HIDE DEF i0
<1>4. p \in PipelineState
  BY <1>1, BeginFacts, IssueFacts DEF IInv, Between, Settled
<1>5. /\ Sound(c)
      /\ c.pipeline = issue(begin(cpu.pipeline), i0.info)
      /\ c.branch = cpu.branch \/ (c.branch.state = "Take" /\ Branch(i0.info))
  BY <1>1, <1>2, FirstFacts DEF IInv
<1>6. Settled(end(c.pipeline)) /\ end(c.pipeline).singleIssue = Branch(i0.info)
  BY <1>1, <1>5, OneSlotFacts DEF OneSlot, IInv, Between
<1> HIDE DEF p
<1>7. Sound(b) /\ b.pc = cpu.pc
  BY <1>4, OnlyPipeline DEF IInv, Between
<1> HIDE DEF b
<1>8. c.pc = cpu.pc
  <2>1. PICK t, st : Effect(b, i0, c, t, st)
    BY <1>1, <1>3, <1>7, ExecuteEffect
  <2>2. QED
    BY <1>7, <2>1 DEF Effect
<1> DEFINE g == [c EXCEPT !.pipeline = end(c.pipeline)]
<1>9. g \in Cpu /\ g.pc = c.pc /\ g.branch = c.branch /\ Finish(c) = Epilogue(g)
  BY <1>5, <1>6, OnlyPipeline DEF Finish, Settled
<1> HIDE DEF g
<1>10. Between(Finish(c))
  BY <1>5, <1>6, FinishFacts
<1>11. cpu'.pc = Epilogue(g).pc
  BY <1>2, <1>9, <1>10 DEF Charged, Between, Sound, Cpu
<1>12. Epilogue(g).pc = (g.pc + 4) % PcRange
  <2>1. g.branch.state \in {"Step", "Take"}
    BY <1>5, <1>9
  <2>2. QED
    BY <1>9, <2>1 DEF Epilogue, NextPc, branchState, Cpu
<1>13. NextPc(cpu).pc = (cpu.pc + 4) % PcRange
  BY DEF NextPc, IInv, Between, Sound, Cpu
<1>14. QED
  BY <1>8, <1>9, <1>11, <1>12, <1>13

(* What the history means: the program stands at an odd word with no       *)
(* branch pending, and the next slot is reserved.                          *)
HistoryInv ==
    /\ IInv
    /\ arrived \in BOOLEAN
    /\ arrived => /\ cpu.branch.state = "Step"
                  /\ cpu.pipeline.singleIssue
                  /\ OddWord(cpu.pc)

(* An instruction at an odd word does not follow itself.                   *)
LEMMA OddWordLeft ==
    ASSUME NEW c \in Cpu, OddWord(c.pc)
    PROVE  NextPc(c).pc # c.pc
<1>1. c.pc \in 0 .. PcRange - 1 /\ PcRange \in Nat
  BY SizeAssumption DEF Cpu
<1>2. c.pc >= 4
  BY <1>1 DEF OddWord
<1>3. NextPc(c).pc = (c.pc + 4) % PcRange
  BY DEF NextPc, Cpu
<1>4. (c.pc + 4) % PcRange # c.pc
  <2>1. CASE c.pc + 4 < PcRange
    BY <1>1, <2>1
  <2>2. CASE c.pc + 4 >= PcRange
    <3>1. c.pc + 4 - PcRange \in 0 .. PcRange - 1
      BY <1>1, <1>2, <2>2
    <3>2. (c.pc + 4) % PcRange = c.pc + 4 - PcRange
      BY <1>1, <2>2, <3>1
    <3>3. QED
      BY <1>1, <1>2, <3>2
  <2>3. QED
    BY <1>1, <2>1, <2>2
<1>5. QED
  BY <1>3, <1>4

(* The mark lasts until the target is executed, and no longer.             *)
LEMMA HistoryKeeps == HistoryInv /\ [Next /\ Arrives]_<<vars, arrived>> => HistoryInv'
<1> SUFFICES ASSUME HistoryInv, [Next /\ Arrives]_<<vars, arrived>>
             PROVE  HistoryInv'
  OBVIOUS
<1>1. CASE UNCHANGED <<vars, arrived>>
  BY <1>1, NextIInv DEF HistoryInv, vars
<1>2. CASE Next /\ Arrives
  <2>1. IInv'
    BY <1>2, NextIInv DEF HistoryInv
  <2>2. arrived' \in BOOLEAN
    BY <1>2 DEF Arrives, OddWord, HistoryInv
  <2>3. CASE cpu.branch.state = "DelaySlot" /\ cpu'.branch.state = "Step"
    BY <1>2, <2>1, <2>2, <2>3, ArrivalIsMarked DEF Arrives, HistoryInv
  <2>4. CASE ~(cpu.branch.state = "DelaySlot" /\ cpu'.branch.state = "Step")
    <3> SUFFICES ASSUME arrived'
                 PROVE  /\ cpu'.branch.state = "Step"
                        /\ cpu'.pipeline.singleIssue
                        /\ OddWord(cpu'.pc)
      BY <2>1, <2>2 DEF HistoryInv
    <3>1. /\ arrived /\ cpu'.pc = cpu.pc /\ cpu \in Cpu
          /\ cpu.branch.state = "Step" /\ cpu.pipeline.singleIssue /\ OddWord(cpu.pc)
      BY <1>2, <2>4 DEF Arrives, HistoryInv, IInv, Between, Sound
    <3>2. ~ExecSingle /\ ~ExecPair
      BY <3>1, SingleAdvances, OddWordLeft DEF HistoryInv, ExecPair, PairsWith
    <3>3. cpu'.branch = cpu.branch /\ cpu'.pipeline = cpu.pipeline
      <4>1. ExecHalted => cpu'.branch = cpu.branch /\ cpu'.pipeline = cpu.pipeline
        BY <3>1 DEF ExecHalted, Charged, Cpu
      <4>2. (\E isHalted \in BOOLEAN : SetHalted(isHalted))
               => cpu'.branch = cpu.branch /\ cpu'.pipeline = cpu.pipeline
        BY <3>1 DEF SetHalted, setHalted, Cpu
      <4>3. Reset => cpu'.branch = cpu.branch /\ cpu'.pipeline = cpu.pipeline
        BY <3>1 DEF Reset, setHalted, Cpu
      <4>4. HostLoad => cpu'.branch = cpu.branch /\ cpu'.pipeline = cpu.pipeline
        BY DEF HostLoad
      <4>5. QED
        BY <1>2, <3>2, <4>1, <4>2, <4>3, <4>4 DEF Next, Exec
    <3>4. QED
      BY <3>1, <3>3
  <2>5. QED
    BY <2>3, <2>4
<1>3. QED
  BY <1>1, <1>2

(* An instruction that a branch reached in the second half of a 64-bit     *)
(* word is executed alone, whatever the host did since (instruction,       *)
(* instructionEpilogue).                                                   *)
THEOREM OddTargetIssuedAlone == HistorySpec => OddTargetAlone
<1> DEFINE Alone == arrived /\ Exec /\ ~cpu.status.halted => cpu'.pc = NextPc(cpu).pc
<1>1. Init => HistoryInv
  BY InitIInv DEF HistoryInv, Init
<1>2. HistoryInv => Alone
  BY SingleAdvances DEF HistoryInv, Exec, ExecHalted, ExecPair, PairsWith
<1>3. HistoryInv /\ [Next /\ Arrives]_<<vars, arrived>> => [Alone]_<<vars, arrived>>
  BY <1>2
<1>4. QED
  BY <1>1, <1>3, HistoryKeeps, PTL DEF HistorySpec, OddTargetAlone
=============================================================================
