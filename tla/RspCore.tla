------------------------------ MODULE RspCore ------------------------------
(***************************************************************************)
(* The RSP as the host drives it: RSP::exec and RSP::instruction with the  *)
(* branch state machine and the epilogue (rsp.cpp, rsp.hpp), the control   *)
(* instructions (interpreter-ipu.cpp, interpreter-scc.cpp), the SP status  *)
(* and DMA registers, and the exports of main.cpp.                         *)
(*                                                                         *)
(* Register and vector data are abstracted: a conditional branch goes      *)
(* either way, a register jump goes to any of RegTargets, an MTC0 moves    *)
(* any of MovedWords.  The return address register is kept.                *)
(***************************************************************************)
EXTENDS Pipeline, SpRegisters

CONSTANTS
    ImemWords,      \* words of IMEM: 1024
    PcRange,        \* values of the u16 program counter: 65536
    Instrs,         \* what a word of IMEM can hold
    Nop,            \* the zero word
    Programs,       \* the images the host may start with
    Images,         \* the images it may load later
    RegTargets,     \* addresses found in the register of a JR
    MovedWords      \* words found in the register of an MTC0

ImemBytes == 4 * ImemWords
Addresses == 0..(ImemBytes - 1)     \* u12

(* An instruction is its OpInfo and what it does to control: imm is the    *)
(* byte address of a jump, the byte offset of a branch or the number of an *)
(* SP register; link says that it writes the return address.               *)
Kinds == {"plain", "jump", "cond", "register", "return", "break", "mtc0", "mfc0"}
Branching == {"jump", "cond", "register", "return", "break"}

Instr == [info : OpInfo, kind : Kinds, imm : Int, link : BOOLEAN]

ASSUME SizeAssumption ==
    /\ ImemWords \in Nat \ {0}
    /\ PcRange \in Nat \ {0}
    /\ PcRange % ImemBytes = 0

(* decoder.cpp flags every instruction that can branch, and BREAK, with    *)
(* Branch, and no other.                                                   *)
ASSUME InstrsAssumption ==
    /\ Instrs \subseteq Instr
    /\ Nop \in Instrs
    /\ Nop.kind = "plain"
    /\ \A i \in Instrs : Branch(i.info) <=> i.kind \in Branching

ASSUME ImagesAssumption ==
    /\ Programs \subseteq [0..(ImemWords - 1) -> Instrs]
    /\ Images \subseteq [0..(ImemWords - 1) -> Instrs]

ASSUME DataAssumption ==
    /\ RegTargets \subseteq Nat
    /\ MovedWords \subseteq Words

VARIABLES
    cpu,        \* the machine state an instruction works on
    imem,       \* RSP::imem
    arrived     \* history: the program stands at a branch target in the second
                \* half of a 64-bit word, and has not executed it yet

vars == <<cpu, imem>>

BranchStates == {"Step", "Take", "DelaySlot"}

(* pc is ipu.pc, branch is RSP::branch, ra is ipu.r[31] as an address.     *)
Cpu == [pc : 0..(PcRange - 1), branch : [pc : Addresses, state : BranchStates],
        ra : Addresses, pipeline : PipelineState, status : Status, dma : Dma]

TypeOK ==
    /\ cpu \in Cpu
    /\ imem \in [0..(ImemWords - 1) -> Instrs]

-----------------------------------------------------------------------------
(* imem.read<Word>: the address is masked to a word of IMEM.               *)
Fetch(address) == imem[(address % ImemBytes) \div 4]

(* Mutant of take: a branch in a delay slot is ignored.                    *)
take_KeepsPending(c, address) ==
    IF c.branch.state = "DelaySlot" THEN c
    ELSE [c EXCEPT !.branch = [pc |-> address % ImemBytes, state |-> "Take"]]

take(c, address) ==
    [c EXCEPT !.branch = [pc |-> address % ImemBytes, state |-> "Take"]]

(* Branch::delaySlot and Branch::reset keep the target.                    *)
branchState(c, state) ==
    [c EXCEPT !.branch = [pc |-> c.branch.pc, state |-> state]]

(* The word an instruction moves to an SP register: the DMA engine and the *)
(* status flags see the same one.                                          *)
ioWrite(c, reg, w) ==
    [c EXCEPT !.status = ioWriteStatus(@, reg, w), !.dma = ioWriteDma(@, reg, w)]

(* The return address is that of the instruction after the delay slot.     *)
linked(c, i) ==
    IF i.link THEN [c EXCEPT !.ra = (c.pc + 8) % ImemBytes] ELSE c

(* interpreterEXECUTE: the states instruction i may leave.  A jump through *)
(* the return address reads it before it is written.                       *)
Execute(i, c) ==
    LET l == linked(c, i)
    IN  CASE i.kind = "jump"     -> {take(l, i.imm)}
          [] i.kind = "cond"     -> {l, take(l, c.pc + 4 + i.imm)}
          [] i.kind = "register" -> {take(l, t) : t \in RegTargets}
          [] i.kind = "return"   -> {take(l, c.ra)}
          [] i.kind = "break"    -> {[l EXCEPT !.status = BREAK(@)]}
          [] i.kind = "mtc0"     -> {ioWrite(l, i.imm, w) : w \in MovedWords}
          [] i.kind = "mfc0"     -> {[l EXCEPT !.status = ioReadStatus(@, i.imm)]}
          [] OTHER               -> {l}

(* Mutant of NextPc: the program counter is not a u16.                     *)
NextPc_NoWrap(c) == [c EXCEPT !.pc = @ + 4]

NextPc(c) == [c EXCEPT !.pc = (@ + 4) % PcRange]

(* instructionEpilogue: a target in the second half of a 64-bit word must  *)
(* be issued alone.                                                        *)
OddWord(address) == (address \div 4) % 2 = 1

(* Mutant of Epilogue: a taken branch never enters its delay slot.         *)
Epilogue_StaysTaken(c) ==
    IF c.branch.state = "DelaySlot"
    THEN [branchState(c, "Step") EXCEPT !.pc = c.branch.pc]
    ELSE NextPc(c)

Epilogue(c) ==
    CASE c.branch.state = "Step" -> NextPc(c)
      [] c.branch.state = "Take" -> branchState(NextPc(c), "DelaySlot")
      [] c.branch.state = "DelaySlot" ->
            [branchState(c, "Step") EXCEPT
                !.pc = c.branch.pc,
                !.pipeline = DelaySlotEpilogue(@, OddWord(c.branch.pc))]

(* The parts of instruction() before and after the second operation.       *)
First(c, i)  == Execute(i, [c EXCEPT !.pipeline = issue(begin(@), i.info)])
Second(c, i) == LET e == Epilogue(c)
                IN  Execute(i, [e EXCEPT !.pipeline = issue(@, i.info)])
Finish(c)    == Epilogue([c EXCEPT !.pipeline = end(@)])

(* exec()'s last line: the DMA engine gets the clocks of the step.         *)
Charged(c, clocks) == [c EXCEPT !.dma = dmaStep(@, clocks)]

PairsWith(op0, op1) ==
    /\ ~cpu.pipeline.singleIssue
    /\ ~Branch(op0)
    /\ canDualIssue(op0, op1)

-----------------------------------------------------------------------------
Init ==
    /\ cpu = [pc |-> 0, branch |-> [pc |-> 0, state |-> "Step"], ra |-> 0,
              pipeline |-> InitPipeline,
              status |-> [InitStatus EXCEPT !.halted = FALSE], dma |-> InitDma]
    /\ imem \in Programs
    /\ arrived = FALSE

(* Mutant of ExecHalted: a halted RSP still moves its program counter.     *)
ExecHalted_Epilogue ==
    /\ cpu.status.halted
    /\ cpu' = Charged(NextPc(cpu), 1)
    /\ UNCHANGED imem

(* exec() of a halted RSP.                                                 *)
ExecHalted ==
    /\ cpu.status.halted
    /\ cpu' = Charged(cpu, 1)
    /\ UNCHANGED imem

(* exec() of one instruction.                                              *)
ExecSingle ==
    LET i0 == Fetch(cpu.pc)
        i1 == Fetch(cpu.pc + 4)
    IN  /\ ~cpu.status.halted
        /\ ~PairsWith(i0.info, i1.info)
        /\ \E c \in First(cpu, i0) :
              LET f == Finish(c) IN cpu' = Charged(f, f.pipeline.clocks)
        /\ UNCHANGED imem

(* exec() of two instructions that share a slot.  The second runs whatever *)
(* the first did to status.halted.                                         *)
ExecPair ==
    LET i0 == Fetch(cpu.pc)
        i1 == Fetch(cpu.pc + 4)
    IN  /\ ~cpu.status.halted
        /\ PairsWith(i0.info, i1.info)
        /\ \E c \in First(cpu, i0) : \E d \in Second(c, i1) :
              LET f == Finish(d) IN cpu' = Charged(f, f.pipeline.clocks)
        /\ UNCHANGED imem

Exec == ExecHalted \/ ExecSingle \/ ExecPair

(* rsp_set_halted                                                          *)
setHalted(c, isHalted) == [c EXCEPT !.status = [@ EXCEPT !.halted = isHalted]]

(* Mutant of SetHalted: a program that is woken starts on an empty         *)
(* pipeline.                                                               *)
SetHalted_Restarts(isHalted) ==
    /\ cpu' = [setHalted(cpu, isHalted) EXCEPT
                  !.pipeline = IF isHalted THEN @ ELSE InitPipeline]
    /\ UNCHANGED imem

SetHalted(isHalted) ==
    /\ cpu' = setHalted(cpu, isHalted)
    /\ UNCHANGED imem

(* Mutant of Reset: the pipeline is cleared, the pending branch is not.    *)
Reset_PipelineOnly ==
    /\ cpu' = setHalted([cpu EXCEPT !.pc = 0, !.ra = 0, !.pipeline = InitPipeline], FALSE)
    /\ imem' = [a \in 0..(ImemWords - 1) |-> Nop]

(* reset() of the JS wrapper: rsp_init (RSP::load clears the memories and  *)
(* the registers, Thread::reset the clock), then rsp_set_halted(0).        *)
Reset ==
    /\ cpu' = setHalted([cpu EXCEPT !.pc = 0, !.ra = 0], FALSE)
    /\ imem' = [a \in 0..(ImemWords - 1) |-> Nop]

(* The host writes a program through the IMEM view, between two steps.     *)
HostLoad ==
    /\ imem' \in Images
    /\ UNCHANGED cpu

Next ==
    \/ Exec
    \/ \E isHalted \in BOOLEAN : SetHalted(isHalted)
    \/ Reset
    \/ HostLoad

Spec == Init /\ [][Next]_vars

(* The same with its history, which no step depends on.                    *)
Arrives ==
    arrived' = IF cpu.branch.state = "DelaySlot" /\ cpu'.branch.state = "Step"
               THEN OddWord(cpu'.pc)
               ELSE arrived /\ cpu'.pc = cpu.pc

HistorySpec == Init /\ [][Next /\ Arrives]_<<vars, arrived>>

-----------------------------------------------------------------------------
(* Between two exec() calls a taken branch is always waiting for its delay *)
(* slot, and that slot is never shared: the guard of ExecPair reads the    *)
(* singleIssue that the branch's own slot left, through resets, halts and  *)
(* program changes in between.                                             *)
BranchSettled  == cpu.branch.state # "Take"
DelaySlotAlone == cpu.branch.state = "DelaySlot" => cpu.pipeline.singleIssue

(* What a program sees: dual issue, the branch states and the 16-bit       *)
(* program counter are invisible, every exec() of a running RSP retires    *)
(* one or two whole instructions in program order, and a halted one none.  *)
InOrder == INSTANCE RspIsa WITH
    pc     <- cpu.pc % ImemBytes,
    target <- IF cpu.branch.state = "DelaySlot" THEN cpu.branch.pc ELSE -1,
    ra     <- cpu.ra,
    status <- cpu.status

ImplementsIsa == InOrder!Spec

(* Halting is precise to the slot: once halted is set, by BREAK, by MTC0   *)
(* or by the host, no later exec() changes anything but the DMA clock, so  *)
(* that SP_STATUS, the program counter and the pending branch are those    *)
(* the host finds and resumes from.                                        *)
HaltedFrozen ==
    [][cpu.status.halted /\ cpu'.status.halted /\ imem' = imem
          => cpu' = [cpu EXCEPT !.dma.clock = cpu'.dma.clock]]_vars

(* An instruction that a branch reached in the second half of a 64-bit     *)
(* word shares its slot with no other: the exec() that executes it moves   *)
(* the program counter by one instruction.  The mark that the delay slot   *)
(* left must last until then, however often the host halts and wakes the   *)
(* program or changes it at its target in between (rsp.cpp, instruction    *)
(* and instructionEpilogue).                                               *)
OddTargetAlone ==
    [][arrived /\ Exec /\ ~cpu.status.halted
          => cpu'.pc = NextPc(cpu).pc]_<<vars, arrived>>

(* Constructing an RSP, or resetting it, starts its program at address 0:  *)
(* no branch of the program that ran before is still pending, and the      *)
(* first instructions are executed in order.  The code does not do this.   *)
ResetDropsBranch == [][Reset => cpu'.branch.state = "Step"]_vars
=============================================================================
