# A verification development for rsp-wasm

rsp-wasm is an instruction-level emulator of the RSP, the vector coprocessor of the
Nintendo 64, extracted from the ares emulator (C++, compiled to WebAssembly) and wrapped
for JavaScript.  This directory holds TLA+ models of it, TLC configurations that check
them and proofs that the TLA+ proof system checks.  Paths below are relative to the
repository: `rspjs.js`, `src/main.cpp`, `src/rsp/*`.

## 1. The system

| part | source | state | operations |
|---|---|---|---|
| issue pipeline | `rsp.hpp` struct Pipeline, `rsp.cpp` instruction() | `clocks`, `singleIssue`, three previous slots, the current slot | begin, issue, end, stall, readGPR, readVR, store |
| decoder | `decoder.cpp`, `rsp.hpp` OpInfo | none | one OpInfo per word: scalar, vector and control uses and defs, flags |
| dispatch and effects | `interpreter*.cpp` | registers, accumulator, DMEM | one function per instruction |
| execution loop | `rsp.cpp` exec, instruction, instructionEpilogue; `rsp.hpp` Branch | `ipu.pc`, `branch`, IMEM | exec, load, power, branch take / delaySlot / reset |
| SP registers | `io.cpp`, struct Status | `semaphore`, `halted`, `broken`, flags, signals | ioRead, ioWrite (MFC0, MTC0), BREAK |
| DMA engine | `dma.cpp`, struct DMA | `pending`, `current`, `busy`, `full`, `clock` | dmaQueue, dmaTransferStart, dmaStep, dmaTransferStep |
| exports | `src/main.cpp` | the one global RSP | rsp_init, rsp_step, rsp_set_halted, views of the memories and registers |
| JavaScript wrapper | `rspjs.js` | the cached promise of the module, typed-array views | createRSP, reset, step, halt, accessors |
| scalar unit | `interpreter-ipu.cpp`, `memory/lsb/*` | 32 registers, DMEM in swapped words | ADDU .. XORI, LB .. SW |
| vector loads, stores, moves | `interpreter-vpu.cpp` LBV .. STV, MFC2, MTC2 | 32 vector registers, DMEM | permutations of bytes |
| vector arithmetic | `interpreter-vpu.cpp` VABS .. VZERO | ACCH, ACCM, ACCL, VCO, VCC, VCE | one loop over eight lanes each, written twice: plain and SSE4.1 |
| control registers | `interpreter-vpu.cpp` CFC2, CTC2 | VCO, VCC, VCE as elements | read and written as numbers |
| divider | `rsp.cpp` power, `interpreter-vpu.cpp` VRCP .. VRSQL | two 512-entry tables, DIVIN, DIVOUT, DIVDP | tables filled by power(), read by VRCP, VRSQ |
| base library, bus, serialization, disassembler | `nall/*`, `memory/bus.hpp`, ... | | support code |

**Interactions.**  There are no threads: a host calls the exports, one call at a time, and
`rsp_step` runs `exec()` once per step.  One `exec()` is: read `status.halted`; if it is
clear, run `instruction()`, which retires one or two instructions in a slot of the
pipeline and moves the program counter and the branch state once per instruction; then
give the clocks of the step to the DMA engine.  An instruction reaches the SP registers
through MFC0, MTC0 and BREAK.  Between two calls the host may halt or resume the RSP,
reset it, or write IMEM, DMEM and registers through the typed-array views.  The only
asynchronous code is `createRSP()`, which awaits the module.

**What is hard here.**

- The pipeline's interlocks are three sequential adjustments of a shared history; each
  can undo what another established.  Whether they leave the right number of bubbles is a
  question about sequences of slots, and no test of the repository asks it.
- The pairing decision is made *between* the execution of the two operations, from a
  hand-written decoder that must agree with a separately hand-written interpreter.
- The epilogue runs once or twice per `exec()`, and the branch state machine advances
  with it; a delay slot that shared a slot would jump in the middle of a pair.
- The program counter is a u16, the address space 12 bits.
- The host acts between any two `exec()` calls: between a branch and its delay slot too.
- DMA requests queue behind a running transfer.  SP_STATUS has a different layout for
  reading than for writing.
- Several calls of `createRSP()` may be in flight over one cached promise.
- DMEM is kept word by word in the host's order, so that every access narrower or less
  aligned than a word, and every byte the host looks at, goes through an index twisted by
  exclusive or; at the end of the memory the accesses wrap byte by byte.
- A vector instruction names up to three registers that may be the same one, and its loop
  reads them while it writes one of them.
- Instructions of the vector unit are steps of wider computations: flags and accumulator
  that one leaves are what the next one consumes, and what an earlier computation left
  must not matter.  Each body exists twice, in two styles that must agree.

`PROJECT.json` lists these hazards, each at its line, with the properties that cover it.

## 2. The modules

    Pipeline ------+-- PipelineUnit -- PipelineRefinement --> (implements) PipelineScoreboard
                   |        \-- PipelineProofs
                   +-- RspCore --> (implements) RspIsa
                   |        \-- RspCoreProofs
    SpRegisters ---+-- SpUnit --- SpProofs
    (RspLemmas: what PipelineProofs, SpProofs and RspCoreProofs share)
    Decoder -- Interpreter -- DualIssue -- DualIssueProofs
    Dmem -----+-- ScalarMemory --> (implements) ByteMemory     (JsWrapper, ScalarMemory -- HostProofs)
              +-- VectorMemory (with VectorCode) ---------------+
    Powers ---+-- Reciprocal -----------------------------------+
      Width --+-- ScalarUnit -- ScalarSequences                 |    (also -- MoveProofs)
              +-- VectorLane -+-- VectorIdioms -----------------+
                              +-- SimdLane -- VectorHalves -----+-- VectorUnit -- VectorProofs -- MoveProofs
    VectorOperands ---------------------------------------------+
    Quantization -----------------------------------------------+
    ControlRegisters --> (implements) ControlNumbers -----------+
    JsWrapper

| module | what it is |
|---|---|
| `Pipeline` | OpInfo, `canDualIssue` and every method of struct Pipeline as operators on a record; `OneSlot` and `PairSlot` are what instruction() makes of them |
| `PipelineUnit` | the pipeline as a state machine: one action for each way instruction() can use a slot (one operation, a pair, a delay slot, a delay slot that branches again) |
| `PipelineScoreboard` | the abstract specification: in-order issue, each slot after the *least* number of bubbles that clears all hazards; it has waiting times and no history |
| `PipelineRefinement` | the refinement mapping and the pipeline's properties |
| `Decoder` | `decoderEXECUTE`: a word (its bit fields) to its OpInfo |
| `Interpreter` | `interpreterEXECUTE`: a word to the registers and memory its operation really touches, read off the operations' bodies, independently of the decoder |
| `DualIssue` | the two words that instruction() looks at; decoder against interpreter |
| `SpRegisters` | ioRead, ioWrite, BREAK and the DMA engine as operators on the records Status and Dma |
| `SpUnit` | the SP registers as a state machine: MTC0, MFC0, BREAK, any other instruction, the host's halt |
| `RspCore` | the composition: exec() with fetch, pipeline, branch state machine, SP registers and DMA, and the host's calls |
| `RspIsa` | the abstract specification of the core: instructions retire in program order with one delay slot; no pipeline, no pairing, no branch states |
| `Dmem` | `memory/lsb`: aligned and unaligned reads and writes over the swapped words, and the host's byte view |
| `ScalarMemory` | LB .. SW by the program, bytes and registers by the host |
| `ByteMemory` | the abstract specification: bytes in big-endian order that wrap around, no words |
| `Powers` | powers of two, by which the code shifts |
| `Width` | numbers of a fixed width, unsigned and signed |
| `ScalarUnit`, `ScalarSequences` | ADDU .. XORI in the sequences that compilers build double-width operations from; the second gives the first names under which it can stand beside another module |
| `VectorMemory`, `VectorCode` | LBV .. STV, MFC2 and MTC2; the sequences that microcode copies and transposes with |
| `VectorOperands` | how an instruction reads vs and vt(e) and writes vd, one iteration of its loop at a time; a result is the record of the elements it was computed from |
| `VectorLane` | the plain body of each computational instruction, on one lane |
| `VectorIdioms` | sequences of them: wide product, sum, comparison, clipping, dot product, rounding |
| `SimdLane`, `VectorHalves` | the SSE4.1 body of each, and the two bodies side by side over any program |
| `Quantization` | VMULQ and VMACQ |
| `ControlRegisters` | CFC2 and CTC2 over the elements of VCO, VCC and VCE |
| `ControlNumbers` | the abstract specification: three numbers |
| `Reciprocal` | the tables of power(), and VRCP, VRSQ, their H and L halves with DIVIN, DIVOUT, DIVDP |
| `VectorUnit` | the composition of the vector modules: a behaviour chooses the part that runs |
| `JsWrapper` | createRSP() and the objects it returns over the one machine |
| `MC*` | the instances TLC checks; `MCScalar` puts two independent modules into one run, where a behaviour chooses the one that moves |
| `*Lemmas`, `*Proofs` | the proofs; `HostProofs` those of `ScalarMemory` and `JsWrapper`, `MoveProofs` those of `VectorMemory` and `ScalarUnit` |

Names are the source's where TLA+ allows it (`readGPR`, `dmaTransferStart`, `ioWrite...`).

**How code maps to state and actions.**  `pipeline.address` and `pipeline.instruction` only
carry the word to the interpreter and are not kept.  Bit masks are sets of register
numbers; a 32-bit word moved to an SP register is the set of its bits.  The loop of
`store()` is written as the case it ends in, and `StoreLoopExits` (RspLemmas) proves
that this is where the loop ends.  `dma.clock` is only compared with 0, so it stays at 0
once it is there; every caller passes the RSP as the thread, so that `dmaQueue` adds no
clock difference.  The instruction of RspCore is its OpInfo together with what it does to
control (`kind`, `imm`, `link`); a conditional branch may go either way, a register jump
goes to one of `RegTargets`, MTC0 moves one of `MovedWords`.  The return address register
is kept, since JAL followed by JR is the protocol every program uses.  `ExecSingle` and
`ExecPair` are whole `exec()` calls; `ExecHalted` is the other branch.  `Reset` is the
wrapper's reset(): rsp_init then rsp_set_halted(0).  It leaves `pipeline`, `branch`,
`status` (but for halted) and `dma` alone, because `RSP::load` does.

A memory access is one action: a store of a byte or of an unaligned word runs to its end
before anything else looks at memory.  A byte of DMEM has a value below `Base`; the
accesses only move bytes and look at a sign bit, and are exact at any base.  The
instructions of a lane and of the scalar unit are exact in the width `Bits`, which the
runs take small; those whose constants do not scale with it (VMULQ, VMACQ, the divider)
have their sixteen and thirty-two bits.  Flags are elements of all zeroes or all ones as
in `r128::set`, and are read as in `r128::get`.

`ScalarMemory` keeps, as history, the last operation: `ByteMemory` must take the *same*
operation at the same address, not just reach the same bytes.  `Reciprocal` keeps the
number that the program asked for, `Quantization` the exact product.

## 3. What TLC checks

| run | instance | shows |
|---|---|---|
| `pipeline` | 11 real instructions (decoded by `Decoder`) on 3 scalar and 2 vector registers | the pipeline implements the scoreboard; no hazard is left; cost bounds; delay slots alone |
| `dual_issue` | every opcode and every function number, with register fields that overlap in every position | the decoder reports everything the interpreter does; pairs are independent; VNOP's false conflicts are exactly those the comment names |
| `sp` | two words with bits in every field and in the bits that must be dropped for the DMA registers, 12 words over all flags for SP_STATUS, costs 3 and 6 | queue, alignment, no disturbance of a running transfer, its due time; the semaphore is a lock; the two layouts of SP_STATUS agree |
| `core` | all 6^4 programs of 4 words (plain scalar, plain vector, JAL, backward branch, BREAK, MTC0 SP_STATUS), three programs with the other four instructions, reset and reloaded at any time, odd targets | `RspCore` implements `RspIsa`; halting is precise; odd branch targets alone |
| `scalar` | 8 bytes of DMEM, addresses to twice that, 1 register; 12 sequences on numbers of two 4-bit words | memory implements `ByteMemory`, views agree; sequences compute what they are for |
| `vector` | see below | copies, operands, wide arithmetic, both halves, control registers, divider |
| `wrapper` | three calls, two outcomes of the load | one load; everyone answered, with the same outcome |
| `all_pairs`, `core_reset`, `control_write`, `reciprocal_tables`, `wrapper_isolated` | as above | the findings of section 5 |

**Properties worth a word.**

- `ImplementsScoreboard`: end() runs readGPR, readVR and store() in turn; the sum of their
  bubbles is the *minimum* that satisfies all three.  This is not obvious: a bubble of one
  interlock ages the history that the next one looks at, and it may also push a store onto
  the load distance it would have missed.
- `PairCostBound`: a pair costs at most one slot more than its two operations one after
  the other.  The bound without that slot is false: TLC finds a store that shares a slot
  with a vector operation, whose bubbles move it onto the forbidden distance of a load.
- `ImplementsIsa`: dual issue, the branch states and the 16-bit counter are invisible to
  the program.  It holds under host actions between any two steps.
- `DelaySlotAlone`: nothing in instruction() checks the branch state; that the delay slot
  is alone follows only from `singleIssue`, left by the branch's own slot.  It must survive
  a reset, because a reset clears neither.
- `OddTargetAlone`: an instruction that a branch reached in the second half of a 64-bit word
  is executed alone.  The mark that forbids the pair is set when the delay slot retires and
  read in the next `exec()` that runs, which may come after any number of halts, wakes and
  reloads.  The history variable `arrived` remembers in between that the program stands at
  such a target; `RspCore!HistorySpec` is `Spec` with it, and no action reads it.  The runs
  `core` and `core_reset` check `HistorySpec`.
- `HaltedFrozen`: once halted, nothing moves but the DMA clock, so the host resumes where
  the program stopped, pending branch included.
- `ImplementsByteMemory`, `ViewsAgree`: the swapped words with aligned accesses, unaligned
  ones put together from bytes, and the host's view are one big-endian memory that wraps.
- `SequencesCompute`: sums, differences and comparisons of two-word numbers through SLTU,
  magnitudes through SRA and XOR, rotations through variable shifts, constants through LUI
  and a sign-extended immediate, with $0 written by the host before the program starts.
- `MovesExactly`: unaligned LQV/LRV with SQV/SRV copy 16 bytes from any address to any
  other; short, packed, half and fourth formats copy their items into the window that the
  store reaches; eight STVs and eight LTVs transpose an 8 by 8 matrix.  `StoresStayInReach`
  adds that a store of any element changes no byte outside its line or window.
- `AtOnce`: each lane computes from what the registers held before the instruction, however
  often it names the same register, and only vd changes.  The loops write vd while they
  read; `vt(e)` is a copy, and no lane reads another lane of vs.
- `ArithmeticIsWide`, `SelectionsAreWide`: sequences over the accumulator, carries and
  comparison flags give the exact double-width result *from any flags left behind*.
- `HalvesAgree`: both bodies of an instruction leave the same lane, after any program.
- `QuantizedIsOdd`: VMULQ then VMACQ leaves an odd level or zero, as near the product as
  the correction allows.
- `DivisionIsAccurate`: the reciprocal and the inverse square root of a 16- or 32-bit
  number, assembled over several instructions, are accurate to eight bits, and larger
  numbers have no larger reciprocals.
- `ReadsAreNumbers`: CFC2 reads what `ControlNumbers` holds after any comparisons.

**The vector run.**  A part per module, 759,917 distinct states: loads and stores over 128
bytes (8 lines of 16) from 8 base addresses, with 11 shapes of sequence at each element
that is meaningful and each store with every element; operand shapes over three registers,
two of which have the same number modulo 8; sequences on every pair of double-width numbers
of 3-bit elements from four sets of leftover flags; both halves on every pair of operands
from every reachable lane, multiplications and others apart; quantization around zero,
over every residue of 64, and at the ends of the range; numbers and flags at the ends of a
byte; 17 elements around powers of two, of both signs, as upper and lower halves.

**Bounds, and why they are enough.**  The pipeline looks back three slots, so that its
states over two or three registers contain every overlap of hazards; the run is exhaustive
over them and nothing is bounded.  `dual_issue` covers the opcode space itself; registers
enter only through equality, and each position conflicts in some word.  The SP registers
have finitely many states for a given set of words; `sp` prunes (`OneUse`) programs that
use both the DMA and the status registers, neither of which reads the other.  In the core,
4 words of IMEM with a counter of two IMEM lengths let programs wrap the memory and the
counter; a slot looks at two words and a branch affects the next two.  Two words of DMEM
have every alignment, every crossing of a word and the wrap-around.  Three-bit elements
have both signs, both ends of the range, and products, sums and carries that overflow every
element of the accumulator.  JsWrapper has `MaxClock` (the host stops stepping) and
`CycleRange` (8 stands for 2^32).  No symmetry reduction is used.  `scalar` takes states
that differ only in the history `op` as one (`VIEW`): no guard reads the history, so their
successors are the same.

Deadlock is checked except in `dual_issue`, whose model stops after the second word, in
`scalar` and `vector`, whose sequences end, and in `wrapper`, where every call may have
failed and nothing is left to do.

**Fairness.**  `JsWrapper!WrapperFairSpec` has WF on `Resume` and on `Settle`: the event loop runs
every queued continuation, and reading and compiling a module ends in one of two ways.
Only `CallsSettle` uses it.  The core has no liveness property, for a program may loop; the
DMA engine has none, because a transfer never ends (section 5).

## 4. What is proved

All theorems hold for every value of the constants under the assumptions named in the
modules (`OpsAssumption`, `SizeAssumption`, ...), which TLC evaluates on each instance.
Every property of the passing runs is proved but for one, the liveness property
`CallsSettle`.

| theorem | property | argument |
|---|---|---|
| `PipelineProofs!TypeCorrect`, `DelaySlotIssuedAlone` | `TypeOK`, `DelaySlotAlone` | the inductive invariant `IInv` adds that between two calls the current slot is empty (`Settled`): without it `singleIssue` could stem from an operation issued earlier |
| `PipelineProofs!SlotCostBounded` | `CostBound` | readGPR inserts at most two bubbles, readVR then at most three in all, store() at most the rest: `InterlockFacts` shows that the sum never exceeds three, because a bubble moves an empty stage in |
| `PipelineProofs!PipelineImplementsScoreboard`, `NoHazardEntersLate`, `PairCostBounded` | `ImplementsScoreboard`, `HazardFree`, `PairCostBound` | the three interlocks in sequence are one explicit function `Bubbles` of the history and the slot (`InterlockBubbles`), which is the least number the scoreboard asks for; the history after the slot is the mapping's waiting times (`SlotsHold`) |
| `SpProofs!TypeCorrect`, `QueueStaysConsistent`, `DmaStaysAligned`, `TransferUndisturbed`, `SemaphoreIsLock` | `TypeOK`, `QueueConsistent`, `DmaAligned`, `RunningTransferFrozen`, `SemaphoreGrantedOnce` | `Engine(dma)`: types, queue, alignment and `clock <= 0` together; each register write and each step keeps it (RspLemmas).  The lock needs `held => status.semaphore` |
| `SpProofs!TransferDueByLength`, `StatusLayoutsAgree` | `StartedTransferDue`, `StatusLayouts` | what a length write leaves in an idle engine (`IdleWriteFacts`) and each flag of a status read by its bit (`StatusBits`) |
| `RspCoreProofs!TypeCorrect`, `BranchAlwaysSettled`, `DelaySlotIssuedAlone` | `TypeOK`, `BranchSettled`, `DelaySlotAlone` | `Between(cpu)`: sound types, a settled pipeline, the branch not in `Take`, and a delay slot covered by singleIssue.  Followed through the parts of instruction(): in the middle of a pair the branch state is Step, because the first operation was not a branch and was not in a delay slot |
| `RspCoreProofs!CoreImplementsIsa` | `ImplementsIsa` | a single exec() is one instruction of `RspIsa`, a pair two; the counter modulo IMEM is all the ISA sees of the u16 |
| `RspCoreProofs!HaltIsPrecise` | `HaltedFrozen` | from `Between` |
| `RspCoreProofs!OddTargetIssuedAlone` | `OddTargetAlone` | `HistoryInv` adds to `IInv` that `singleIssue` is set as long as `arrived` is: the epilogue of the delay slot sets it (`ArrivalIsMarked`), nothing that leaves the counter at the target clears it (`HistoryKeeps`), and a slot that issues alone moves the counter by one instruction (`SingleAdvances`) off the odd word (`OddWordLeft`) |
| `HostProofs!MemoryTypeCorrect`, `MemoryImplementsByteMemory`, `MemoryViewsAgree` | `TypeOK`, `ImplementsByteMemory`, `ViewsAgree` | the index `i ^ 3` is an involution that stays in its word; hence each access reads and writes the mirrored bytes, one lemma for each width and alignment |
| `DualIssueProofs!EveryWordIsCovered`, `EveryPairIsIndependent`, `EveryVnopPairs` | `DecoderCovers`, `PairsIndependent`, `VnopConflicts` | `WordSound`: what the decoder reports of a word contains what the interpreter touches, one lemma for each opcode table; independence then follows from the conjuncts of canDualIssue.  For every word, where the run has a few for each opcode |
| `VectorProofs!BuildsAgree`, `UnitBuildsAgree` | `HalvesAgree` | `LaneInv` adds that lanes hold numbers and masks.  Each of the 29 instructions has a lemma that its two bodies make one lane of one lane, **for every width**; see below |
| `VectorProofs!OperandsAtOnce` | `AtOnce` | `OperandsInv`: `vte` and the lanes from `n` on are as they were when the instruction began; every lane before `n` has its result.  For any registers and element fields |
| `VectorProofs!QuantizationIsOdd` | `QuantizedIsOdd` | `QuantizerInv`: ACCH and ACCM hold the exact product, rounded and corrected once, without loss (`HalvesGiveBack`); a correction is idempotent (`CorrectedFacts`).  For all levels and weights of sixteen bits |
| `VectorProofs!ArithmeticExact`, `SelectionsExact` | `ArithmeticIsWide`, `SelectionsAreWide` | `IdiomInv`: for each sequence, what the accumulator, the carries and the flags hold after each of its instructions, as numbers of two elements: partial sums of the product (`TwoByTwo`, `ProductTerms`), carry and sum of the lower elements (`SumInv`), the comparison of the upper elements with its equality bits (`ComparisonInv`), the sign, extension and limits of VCH (`ClipInv`).  **For every width**, all operands and any flags left behind: the invariant of a sequence starts only after its first instruction, which must not depend on them |
| `VectorProofs!DivisionAccurate` | `DivisionIsAccurate` | `DividerInv`: DIVDP is set exactly between the instruction that hands an upper half over and the next one, and the result is that for the number asked for.  The rest is arithmetic without floating point: the table holds 2^26 / a rounded (`MantissaFacts`) and, by the invariant of its search, the root of 2^42 / a (`RootFacts`); the ten leading bits and the shift add an error below exact / 256 + 2 (`InverseFacts`, `InverseRootFacts`); powers of two are a factor of two apart (`PowersApart`), hence larger operands have no larger reciprocals.  For every operand of 16 and 32 bits, **once power() has filled the tables** (finding 5) |
| `VectorProofs!ReadsRefine` | `ReadsAreNumbers` | `GatheredBits`: the sum of the weights of the lanes whose elements are set has those lanes as its bits; hence each CFC2 is a read of the abstract numbers, and every other step leaves or recomputes them |
| `MoveProofs!StoresInReach` | `StoresStayInReach` | every store is a `Scattered` write of the bytes of the register to places around its address (`StoresScatter`), all of them in its line, run or window (`StoredInReach`); a scattered write changes its places only |
| `MoveProofs!MovesExact` | `MovesExactly` | `ProgramInv`: after each instruction of a copying sequence, which byte of the source each byte of the register, of the scalar register or of the window is (`PairInv`, `QuadInv`, `MoveInv`), until all have `Arrived`; for the transposition, which rows have been stored and which columns loaded (`TransposeInv`).  Places of one store are apart (`Apart`), so that no byte is lost.  For any contents of DMEM and of the registers, any two addresses and any memory whose size is a multiple of 8 from 128 bytes on |
| `MoveProofs!SequencesComputed` | `SequencesCompute` | `SequenceInv`: what registers 5 to 7 hold after each instruction of the running sequence, in terms of the operands; at its end, one lemma for each sequence: carries and borrows of two words (`SumIsJoined`, `DifferenceIsJoined`, `ComparisonIsJoined`), masks made of a sign (`MagnitudeIsKept`, `LeastIsChosen`), halves extended by zeroes or by their sign (`ConstantIsJoined`, `AddressIsJoined`), and the bits of a rotation (`RotationMovesBits`).  For all operands and any value that the host wrote to $0, and for every width that has halves of two bits or more and divides 2^Bits, as 32 does |
| `HostProofs!WrapperTypeCorrect`, `WrapperLoadsOnce`, `WrapperSameOutcome` | `WrapperTypeOK`, `LoadedOnce`, `SameOutcome` | the queue is exactly the calls that wait, without repetition, and the promise is unset only before the first call |

`Sound` and `Engine` are needed because the type of the state alone does not exclude a
branch target outside IMEM or a positive DMA clock.

**The two halves, at every width.**  `HalvesAgree` compares 48-bit sums and products, clamped
and cut into elements, with the carries that SSE4.1 code rebuilds from saturated 16-bit
sums, masks and exclusive ors.  The proof goes in layers:

1. *Recursion.*  `Power` and the bitwise operators are recursive functions.  That such a
   function exists is proved from the well-foundedness of the numbers (`LeastNumber`,
   `SetInduction`, `RecursionExists`): induction is stated for a *set* of numbers, not for an
   operator, which the provers could not instantiate.
2. *Bits.*  By induction over the bits, for any table of two bits: the result is in range,
   a symmetric table commutes, and a mask acts as one bit (`BitwiseMask`).  Hence what the
   SSE4.1 code does with masks of zeroes and ones, and with the sign (`XorSign`).
3. *Elements.*  Division and remainder by the width, signed readings, saturation, carries
   (`AddElements`), the three elements of the accumulator (`AccumulatorElements`) and of a
   product of signed or unsigned numbers (`SignedProduct`, `MixedProduct`).
4. *Instructions.*  Comparisons and sums element by element; VCH, VCL and VCR by cases on
   signs; multiplications through the elements of the accumulator.

**Assumptions.**  Widths (`BitsAssumption`: two bits at least, since a number has a sign),
registers (`RegistersAssumption`: there are 32), sizes (`SizeAssumption` and
`MemoryAssumption`: DMEM has 4096 bytes, a multiple of 8; the vector proofs take 128 bytes or
more, so that a matrix fits) and the values that fit into a register (`FlagsAssumption`,
`DividendsAssumption`, `FactorsAssumption`, `OperandsAssumption`, `ContentsAssumption`, `BaseAssumption`) say only
what the C++ types say.  `IdiomsAssumption` and `ProgramsAssumption` say which sequences there
are: those of `VectorIdioms`, and any sequence of loads and stores of which those that claim to
copy or to transpose are sequences of `VectorCode`.  Nothing is assumed of a schedule or of
what an earlier program left.

**The hypotheses of `SequencesComputed`.**  An immediate is half a register, so the number of
bits is even; the amount `-n` of a shift is taken modulo 2^Bits first and modulo Bits
afterwards (`SUBU`, then `SRLV`), so a rotation by two shifts is one only when Bits divides
2^Bits.  Four bits, which TLC runs, and the 32 of the machine satisfy both.

**Only model-checked.**  `CallsSettle` is liveness under fairness, which the prover cannot
handle (nor ENABLED).

## 5. Findings

1. `all_pairs`: VSUT and the other undocumented opcodes that run VZERO are decoded without
   uses and defs although VZERO writes vd, so they pair with an MFC2 of the register they
   write, against the comment on `canDualIssue`.  Over documented opcodes pairs are
   independent (`PairsIndependent`).
2. `core_reset`: constructing or resetting an RSP keeps a pending branch; the new program
   executes one instruction at address 0 and jumps to the old program's target.
3. `wrapper_isolated`: all RSP objects share one machine, and constructing one resets it.
4. `control_write`: CTC2 assigns `r128{n, bit}` in a loop, which initializes the two 64-bit
   halves of the union; the register ends with the constant 7 in one element and one bit of
   the number in another.  CFC2 after CTC2 does not read the number written.
5. `reciprocal_tables`: the tables are filled by `power()`, which no export calls.  Every
   VRCP and VRSQ of a built module shifts a mantissa of exactly 1.  With the tables filled
   the same property holds (run `vector`).

Met while modelling, without a run of their own: the body of `dmaTransferStep` is commented
out, so that SP_DMA_BUSY reads 1 for ever after the first length write and no second
transfer starts; `getCycles()` is negative from 2^31 cycles on, for the u32 is not
converted with `>>> 0`; a value that the host writes to $0 is visible to the first
instruction, which the epilogue clears afterwards (`ScalarUnit` starts from it).

## 6. Not modelled

- The disassembler formats text that nothing reads back.
- `serialization.cpp` is commented out as a whole.
- The memory bus and the big-endian variants of the memories are not reached from the
  exports or not compiled.  `nall` is the vendored base library; it appears through its
  effect (integer widths, bit fields, wrap-around).
- The 64-bit accesses of `memory/lsb` are used only by the transfer loop that is commented
  out; LWV is written but not dispatched; `readWord`/`writeWord` of io.cpp are not called.
- SPECIAL_INVALID, the sum that reserved opcodes give, and the store of CTC2 through the
  null pointer that VCE's missing upper half is.
- Of the wrapper's accessors, getVPR, setVPR and getPC, which copy elements in order.
- SSE4.1 code is modelled although build.sh does not compile it
  (`nall/intrinsics.hpp` leaves ARCHITECTURE_SUPPORTS_SSE4_1 at 0 for WebAssembly): the
  repository keeps both halves and n64.h enables both.

## 7. Plan

Done, in this order: the pipeline (everything the emulator exists for depends on its
timing), the decoder against the interpreter, the SP registers and DMA, the core that
composes them, the wrapper; then the data: memory, scalar unit, vector moves, operands,
arithmetic in both halves, control registers, divider; and the proofs of the refinements.

Left: the accessors of the wrapper that copy vector registers; the transfer loop of the DMA engine,
should the code regain one, with the liveness property that a started transfer ends.
