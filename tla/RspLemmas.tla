----------------------------- MODULE RspLemmas ------------------------------
(***************************************************************************)
(* What the operators of the processor's two parts preserve and bound: of  *)
(* Pipeline for any sets of registers, of SpRegisters for every register   *)
(* and word.  The invariants of PipelineUnit, of SpUnit and of RspCore,    *)
(* which puts the two together, rest on these facts.                       *)
(***************************************************************************)
EXTENDS Pipeline, SpRegisters, TLAPS

-----------------------------------------------------------------------------
(* The pipeline.                                                           *)

(* One slot passes: the history moves back and SlotClocks are charged.     *)
LEMMA AdvanceFacts ==
    ASSUME NEW p \in PipelineState, NEW s \in Stage
    PROVE  /\ Advance(p, s) \in PipelineState
           /\ Advance(p, s).clocks = p.clocks + 3
           /\ Advance(p, s).current = p.current
           /\ Advance(p, s).singleIssue = p.singleIssue
           /\ Advance(p, s).previous[0] = s
           /\ Advance(p, s).previous[1] = p.previous[0]
           /\ Advance(p, s).previous[2] = p.previous[1]
<1>1. /\ p.clocks \in Nat /\ p.singleIssue \in BOOLEAN
      /\ p.previous \in [0..2 -> Stage] /\ p.current \in CurrentStage
  BY DEF PipelineState
<1>2. QED
  BY <1>1 DEF Advance, PipelineState, SlotClocks

LEMMA NoStageType == NoStage \in Stage
  BY DEF NoStage, Stage

LEMMA NoCurrentType == NoCurrent \in CurrentStage
  BY DEF NoCurrent, CurrentStage

(* RSP::Pipeline::stall                                                    *)
LEMMA StallFacts ==
    ASSUME NEW p \in PipelineState
    PROVE  /\ stall(p) \in PipelineState
           /\ stall(p).clocks = p.clocks + 3
           /\ stall(p).current = p.current
           /\ stall(p).singleIssue = p.singleIssue
           /\ stall(p).previous[0] = NoStage
           /\ stall(p).previous[1] = p.previous[0]
           /\ stall(p).previous[2] = p.previous[1]
  BY AdvanceFacts, NoStageType DEF stall

(* q is p after n empty slots.                                             *)
StalledBy(p, q, n) ==
    /\ q \in PipelineState
    /\ q.clocks = p.clocks + 3 * n
    /\ q.current = p.current
    /\ q.singleIssue = p.singleIssue
    /\ \A i \in 0..2 : q.previous[i] = IF i < n THEN NoStage ELSE p.previous[i - n]

LEMMA StalledByNone ==
    ASSUME NEW p \in PipelineState
    PROVE  StalledBy(p, p, 0)
  BY DEF StalledBy, PipelineState

LEMMA StallMore ==
    ASSUME NEW p \in PipelineState, NEW q, NEW n \in 0..2, StalledBy(p, q, n)
    PROVE  StalledBy(p, stall(q), n + 1)
<1>1. q \in PipelineState /\ q.clocks = p.clocks + 3 * n
  BY DEF StalledBy
<1>2. stall(q) \in PipelineState /\ stall(q).clocks = p.clocks + 3 * (n + 1)
  BY <1>1, StallFacts DEF PipelineState
<1>3. stall(q).current = p.current /\ stall(q).singleIssue = p.singleIssue
  BY <1>1, StallFacts DEF StalledBy
<1>4. \A i \in 0..2 : stall(q).previous[i] =
                         IF i < n + 1 THEN NoStage ELSE p.previous[i - (n + 1)]
  <2>1. \A i \in 0..2 : stall(q).previous[i] =
                           IF i = 0 THEN NoStage ELSE q.previous[i - 1]
    BY <1>1, StallFacts
  <2>2. \A i \in 0..2 : q.previous[i] = IF i < n THEN NoStage ELSE p.previous[i - n]
    BY DEF StalledBy
  <2>3. ASSUME NEW i \in 1..2
        PROVE  stall(q).previous[i] =
                  IF i < n + 1 THEN NoStage ELSE p.previous[i - (n + 1)]
    <3>1. i - 1 \in 0..2 /\ (i - 1 < n <=> i < n + 1) /\ (i - 1) - n = i - (n + 1)
      OBVIOUS
    <3>2. QED
      BY <2>1, <2>2, <3>1
  <2>4. stall(q).previous[0] = NoStage /\ 0 < n + 1
    BY <2>1
  <2>5. QED
    BY <2>3, <2>4
<1>5. QED
  BY <1>2, <1>3, <1>4 DEF StalledBy

(* An empty stage causes no interlock.                                     *)
LEMMA NoStageIsQuiet ==
    /\ \A mask : mask \cap NoStage.rWrite = {} /\ mask \cap NoStage.vWrite = {}
    /\ ~NoStage.load
  BY DEF NoStage

(* RSP::Pipeline::readGPR: the last two slots can hold the slot up.        *)
LEMMA ReadGPRFacts ==
    ASSUME NEW p \in PipelineState, NEW mask
    PROVE  \E n \in 0..2 : StalledBy(p, readGPR(p, mask), n)
<1>1. StalledBy(p, p, 0) /\ StalledBy(p, stall(p), 1) /\ StalledBy(p, stall(stall(p)), 2)
  BY StalledByNone, StallMore
<1>2. QED
  BY <1>1 DEF readGPR

(* RSP::Pipeline::readVR after n empty slots: the empty slots have moved   *)
(* the results nearer to ready, so that never more than three are empty.   *)
LEMMA ReadVRFacts ==
    ASSUME NEW p \in PipelineState, NEW q, NEW n \in 0..2, StalledBy(p, q, n),
           NEW mask
    PROVE  \E m \in 0..3 : StalledBy(p, readVR(q, mask), m)
<1>1. \A i \in 0..2 : i < n => mask \cap q.previous[i].vWrite = {}
  BY NoStageIsQuiet DEF StalledBy
<1>2. CASE mask \cap q.previous[0].vWrite # {}
  <2>1. n = 0
    BY <1>1, <1>2
  <2>2. StalledBy(p, stall(stall(stall(q))), 3)
    BY <2>1, StallMore
  <2>3. QED
    BY <1>2, <2>2 DEF readVR
<1>3. CASE /\ mask \cap q.previous[0].vWrite = {}
           /\ mask \cap q.previous[1].vWrite # {}
  <2>1. n \in 0..1
    BY <1>1, <1>3
  <2>2. StalledBy(p, stall(stall(q)), n + 2)
    <3>1. StalledBy(p, stall(q), n + 1)
      BY <2>1, StallMore
    <3>2. n + 1 \in 0..2 /\ (n + 1) + 1 = n + 2
      BY <2>1
    <3>3. QED
      BY <3>1, <3>2, StallMore
  <2>3. QED
    BY <1>3, <2>1, <2>2 DEF readVR
<1>4. CASE /\ mask \cap q.previous[0].vWrite = {}
           /\ mask \cap q.previous[1].vWrite = {}
  BY <1>4, StallMore DEF readVR
<1>5. QED
  BY <1>2, <1>3, <1>4

(* RSP::Pipeline::store is the loop `while(previous[1].load) stall();': it *)
(* ends, and with its condition false.                                     *)
LEMMA StoreLoopExits ==
    ASSUME NEW p \in PipelineState
    PROVE  ~store(p).previous[1].load
  BY StallFacts, NoStageIsQuiet DEF store

LEMMA StoreFacts ==
    ASSUME NEW p \in PipelineState, NEW q, NEW n \in 0..3, StalledBy(p, q, n)
    PROVE  \E m \in 0..3 : StalledBy(p, store(q), m)
<1>1. \A i \in 0..2 : i < n => ~q.previous[i].load
  BY NoStageIsQuiet DEF StalledBy
<1>2. CASE ~q.previous[1].load
  BY <1>2 DEF store
<1>3. CASE q.previous[1].load /\ ~q.previous[0].load
  <2>1. n \in 0..1
    BY <1>1, <1>3
  <2>2. QED
    BY <1>3, <2>1, StallMore DEF store
<1>4. CASE q.previous[1].load /\ q.previous[0].load
  <2>1. n = 0
    BY <1>1, <1>4
  <2>2. QED
    BY <1>4, <2>1, StallMore DEF store
<1>5. QED
  BY <1>2, <1>3, <1>4

(* All the interlocks of a slot together add at most three empty slots.    *)
LEMMA InterlockFacts ==
    ASSUME NEW p \in PipelineState
    PROVE  \E n \in 0..3 : StalledBy(p, Interlock(p), n)
<1>1. PICK n \in 0..2 : StalledBy(p, readGPR(p, p.current.rRead), n)
  BY ReadGPRFacts
<1>2. PICK m \in 0..3 :
          StalledBy(p, readVR(readGPR(p, p.current.rRead), p.current.vRead), m)
  BY <1>1, ReadVRFacts
<1>3. QED
  BY <1>2, StoreFacts DEF Interlock

-----------------------------------------------------------------------------
(* A slot: begin, one issue or two, end.                                   *)

LEMMA BeginFacts ==
    ASSUME NEW p \in PipelineState
    PROVE  /\ begin(p) \in PipelineState
           /\ begin(p).clocks = 0
           /\ begin(p).current = p.current
           /\ begin(p).singleIssue = p.singleIssue
  BY DEF begin, PipelineState

LEMMA IssueFacts ==
    ASSUME NEW p \in PipelineState, NEW op \in OpInfo
    PROVE  /\ issue(p, op) \in PipelineState
           /\ issue(p, op).clocks = p.clocks
           /\ issue(p, op).singleIssue = p.singleIssue
           /\ issue(p, op).current.branch = (p.current.branch \/ Branch(op))
<1>1. p.current \in CurrentStage
  BY DEF PipelineState
<1>2. issue(p, op).current \in CurrentStage
  BY <1>1 DEF issue, PipelineState, CurrentStage, OpInfo, Load, Store, Branch
<1>3. /\ issue(p, op) = [p EXCEPT !.current = issue(p, op).current]
      /\ issue(p, op).current.branch = (p.current.branch \/ Branch(op))
  BY DEF issue, PipelineState
<1>4. QED
  BY <1>2, <1>3 DEF PipelineState

(* end() empties the current slot, keeps whether a branch was in it, and   *)
(* charges one slot to four.                                               *)
LEMMA EndFacts ==
    ASSUME NEW p \in PipelineState
    PROVE  /\ end(p) \in PipelineState
           /\ end(p).current = NoCurrent
           /\ end(p).singleIssue = p.current.branch
           /\ \E n \in 1..4 : end(p).clocks = p.clocks + 3 * n
<1> DEFINE q == Advance(Interlock(p), CurrentAsStage(p))
<1>1. PICK n \in 0..3 : StalledBy(p, Interlock(p), n)
  BY InterlockFacts
<1>2. CurrentAsStage(p) \in Stage /\ p.current.branch \in BOOLEAN
  BY DEF CurrentAsStage, PipelineState, CurrentStage, Stage
<1>3. /\ q \in PipelineState
      /\ q.clocks = p.clocks + 3 * n + 3
  BY <1>1, <1>2, AdvanceFacts DEF StalledBy
<1>4. p.clocks + 3 * n + 3 = p.clocks + 3 * (n + 1) /\ n + 1 \in 1..4
  BY DEF PipelineState
<1>5. end(p) = [clocks |-> q.clocks, singleIssue |-> p.current.branch,
                previous |-> q.previous, current |-> NoCurrent]
  BY DEF end
<1>6. q.clocks \in Nat /\ q.previous \in [0..2 -> Stage]
  BY <1>3 DEF PipelineState
<1>7. QED
  BY <1>2, <1>3, <1>4, <1>5, <1>6, NoCurrentType DEF PipelineState

(* Between two slots nothing is being filled.                              *)
Settled(p) == p \in PipelineState /\ p.current = NoCurrent

SlotCharge(clocks) == \E n \in 1..4 : clocks = 3 * n

LEMMA OneSlotFacts ==
    ASSUME NEW p, Settled(p), NEW op \in OpInfo
    PROVE  /\ Settled(OneSlot(p, op))
           /\ OneSlot(p, op).singleIssue = Branch(op)
           /\ SlotCharge(OneSlot(p, op).clocks)
<1>1. Branch(op) \in BOOLEAN /\ NoCurrent.branch = FALSE
  BY DEF Branch, NoCurrent
<1> DEFINE q == issue(begin(p), op)
<1>2. begin(p) \in PipelineState /\ begin(p).clocks = 0 /\ begin(p).current = NoCurrent
  BY BeginFacts DEF Settled
<1>3. q \in PipelineState /\ q.clocks = 0 /\ q.current.branch = Branch(op)
  BY <1>1, <1>2, IssueFacts
<1>4. OneSlot(p, op) = end(q)
  BY DEF OneSlot
<1>5. QED
  <2> HIDE DEF q
  <2>1. PICK n \in 1..4 : end(q).clocks = 0 + 3 * n
    BY <1>3, EndFacts
  <2>2. QED
    BY <1>3, <1>4, <2>1, EndFacts DEF Settled, SlotCharge

LEMMA PairSlotFacts ==
    ASSUME NEW p, Settled(p), NEW op0 \in OpInfo, NEW op1 \in OpInfo
    PROVE  /\ Settled(PairSlot(p, op0, op1))
           /\ PairSlot(p, op0, op1).singleIssue = (Branch(op0) \/ Branch(op1))
           /\ SlotCharge(PairSlot(p, op0, op1).clocks)
<1>1. /\ Branch(op0) \in BOOLEAN /\ Branch(op1) \in BOOLEAN
      /\ NoCurrent.branch = FALSE
  BY DEF Branch, NoCurrent
<1> DEFINE q == issue(begin(p), op0)
           r == issue(q, op1)
<1>2. begin(p) \in PipelineState /\ begin(p).clocks = 0 /\ begin(p).current = NoCurrent
  BY BeginFacts DEF Settled
<1>3. q \in PipelineState /\ q.clocks = 0 /\ q.current.branch = Branch(op0)
  BY <1>1, <1>2, IssueFacts
<1>4. /\ r \in PipelineState /\ r.clocks = 0
      /\ r.current.branch = (Branch(op0) \/ Branch(op1))
  <2> HIDE DEF q
  <2>1. QED
    BY <1>3, IssueFacts
<1>5. PairSlot(p, op0, op1) = end(r)
  BY DEF PairSlot
<1>6. QED
  <2> HIDE DEF q, r
  <2>1. PICK n \in 1..4 : end(r).clocks = 0 + 3 * n
    BY <1>4, EndFacts
  <2>2. QED
    BY <1>4, <1>5, <2>1, EndFacts DEF Settled, SlotCharge

(* The epilogue of a delay slot.                                           *)
LEMMA DelaySlotEpilogueFacts ==
    ASSUME NEW p, Settled(p), NEW oddTarget \in BOOLEAN
    PROVE  /\ Settled(DelaySlotEpilogue(p, oddTarget))
           /\ DelaySlotEpilogue(p, oddTarget).clocks = p.clocks + 3
           /\ DelaySlotEpilogue(p, oddTarget).singleIssue = (p.singleIssue \/ oddTarget)
<1>1. /\ stall(p) \in PipelineState
      /\ stall(p).clocks = p.clocks + 3
      /\ stall(p).current = NoCurrent
      /\ stall(p).singleIssue = p.singleIssue
  BY StallFacts DEF Settled
<1>2. QED
  BY <1>1 DEF DelaySlotEpilogue, Settled, PipelineState

LEMMA InitPipelineFacts == Settled(InitPipeline)
  BY NoStageType, NoCurrentType DEF Settled, InitPipeline, PipelineState

-----------------------------------------------------------------------------
(* How many empty slots the interlocks of end() insert, as a function of   *)
(* the history and of what the current slot reads and stores.              *)

GprNeeds(p, mask) ==
    IF mask \cap p.previous[0].rWrite # {} THEN 2
    ELSE IF mask \cap p.previous[1].rWrite # {} THEN 1
    ELSE 0

VrNeeds(p, mask) ==
    IF mask \cap p.previous[0].vWrite # {} THEN 3
    ELSE IF mask \cap p.previous[1].vWrite # {} THEN 2
    ELSE IF mask \cap p.previous[2].vWrite # {} THEN 1
    ELSE 0

Greater(m, n) == IF m <= n THEN n ELSE m

ReadNeeds(p) == Greater(GprNeeds(p, p.current.rRead), VrNeeds(p, p.current.vRead))

(* The next number from m on that is no forbidden distance of a load.      *)
StoreNeeds(p, m) ==
    IF m = 0 /\ p.previous[1].load THEN IF p.previous[0].load THEN 2 ELSE 1
    ELSE IF m = 1 /\ p.previous[0].load THEN 2
    ELSE m

Bubbles(p) == IF p.current.store THEN StoreNeeds(p, ReadNeeds(p)) ELSE ReadNeeds(p)

LEMMA ReadGPRNeeds ==
    ASSUME NEW p \in PipelineState, NEW mask
    PROVE  /\ GprNeeds(p, mask) \in 0..2
           /\ StalledBy(p, readGPR(p, mask), GprNeeds(p, mask))
<1>1. StalledBy(p, p, 0) /\ StalledBy(p, stall(p), 1) /\ StalledBy(p, stall(stall(p)), 2)
  BY StalledByNone, StallMore
<1>2. QED
  BY <1>1 DEF readGPR, GprNeeds

(* A vector operand waits for what the scalar operands have not waited for *)
(* already.                                                                *)
LEMMA ReadVRNeeds ==
    ASSUME NEW p \in PipelineState, NEW q, NEW n \in 0..2, StalledBy(p, q, n),
           NEW mask
    PROVE  /\ VrNeeds(p, mask) \in 0..3
           /\ Greater(n, VrNeeds(p, mask)) \in 0..3
           /\ StalledBy(p, readVR(q, mask), Greater(n, VrNeeds(p, mask)))
<1>1. VrNeeds(p, mask) \in 0..3 /\ Greater(n, VrNeeds(p, mask)) \in 0..3
  BY DEF VrNeeds, Greater
<1>2. \A i \in 0..2 : mask \cap q.previous[i].vWrite =
                         IF i < n THEN {} ELSE mask \cap p.previous[i - n].vWrite
  BY NoStageIsQuiet DEF StalledBy
<1>3. StalledBy(p, stall(q), n + 1)
  BY StallMore
<1>4. CASE n = 0
  <2>1. /\ StalledBy(p, stall(q), 1) /\ StalledBy(p, stall(stall(q)), 2)
        /\ StalledBy(p, stall(stall(stall(q))), 3)
    BY <1>3, <1>4, StallMore
  <2>2. \A i \in 0..2 : mask \cap q.previous[i].vWrite = mask \cap p.previous[i].vWrite
    BY <1>2, <1>4
  <2>3. readVR(q, mask) =
           IF mask \cap p.previous[0].vWrite # {} THEN stall(stall(stall(q)))
           ELSE IF mask \cap p.previous[1].vWrite # {} THEN stall(stall(q))
           ELSE IF mask \cap p.previous[2].vWrite # {} THEN stall(q)
           ELSE q
    BY <2>2 DEF readVR
  <2>4. QED
    BY <1>1, <1>4, <2>1, <2>3 DEF VrNeeds, Greater
<1>5. CASE n = 1
  <2>1. StalledBy(p, stall(q), 2) /\ StalledBy(p, stall(stall(q)), 3)
    BY <1>3, <1>5, StallMore
  <2>2. /\ mask \cap q.previous[0].vWrite = {}
        /\ mask \cap q.previous[1].vWrite = mask \cap p.previous[0].vWrite
        /\ mask \cap q.previous[2].vWrite = mask \cap p.previous[1].vWrite
    BY <1>2, <1>5
  <2>3. readVR(q, mask) =
           IF mask \cap p.previous[0].vWrite # {} THEN stall(stall(q))
           ELSE IF mask \cap p.previous[1].vWrite # {} THEN stall(q)
           ELSE q
    BY <2>2 DEF readVR
  <2>4. QED
    BY <1>1, <1>5, <2>1, <2>3 DEF VrNeeds, Greater
<1>6. CASE n = 2
  <2>1. StalledBy(p, stall(q), 3)
    BY <1>3, <1>6
  <2>2. /\ mask \cap q.previous[0].vWrite = {}
        /\ mask \cap q.previous[1].vWrite = {}
        /\ mask \cap q.previous[2].vWrite = mask \cap p.previous[0].vWrite
    BY <1>2, <1>6
  <2>3. readVR(q, mask) =
           IF mask \cap p.previous[0].vWrite # {} THEN stall(q) ELSE q
    BY <2>2 DEF readVR
  <2>4. QED
    BY <1>1, <1>6, <2>1, <2>3 DEF VrNeeds, Greater
<1>7. QED
  BY <1>4, <1>5, <1>6

LEMMA StoreLoopNeeds ==
    ASSUME NEW p \in PipelineState, NEW q, NEW n \in 0..3, StalledBy(p, q, n)
    PROVE  StoreNeeds(p, n) \in 0..3 /\ StalledBy(p, store(q), StoreNeeds(p, n))
<1>1. \A i \in 0..2 : q.previous[i].load <=> (i >= n /\ p.previous[i - n].load)
  BY NoStageIsQuiet DEF StalledBy
<1>2. CASE n = 0
  <2>1. StalledBy(p, stall(q), 1) /\ StalledBy(p, stall(stall(q)), 2)
    BY <1>2, StallMore
  <2>2. /\ q.previous[0].load <=> p.previous[0].load
        /\ q.previous[1].load <=> p.previous[1].load
    BY <1>1, <1>2
  <2>3. QED
    BY <1>2, <2>1, <2>2 DEF store, StoreNeeds
<1>3. CASE n = 1
  <2>1. StalledBy(p, stall(q), 2)
    BY <1>3, StallMore
  <2>2. ~q.previous[0].load /\ (q.previous[1].load <=> p.previous[0].load)
    BY <1>1, <1>3
  <2>3. QED
    BY <1>3, <2>1, <2>2 DEF store, StoreNeeds
<1>4. CASE n \in 2..3
  <2>1. ~q.previous[1].load
    BY <1>1, <1>4
  <2>2. QED
    BY <1>4, <2>1 DEF store, StoreNeeds
<1>5. QED
  BY <1>2, <1>3, <1>4

LEMMA InterlockBubbles ==
    ASSUME NEW p \in PipelineState
    PROVE  Bubbles(p) \in 0..3 /\ StalledBy(p, Interlock(p), Bubbles(p))
<1> DEFINE q == readVR(readGPR(p, p.current.rRead), p.current.vRead)
<1>1. ReadNeeds(p) \in 0..3 /\ StalledBy(p, q, ReadNeeds(p))
  BY ReadGPRNeeds, ReadVRNeeds DEF ReadNeeds
<1>2. Interlock(p) = IF p.current.store THEN store(q) ELSE q
  BY DEF Interlock
<1>3. QED
  <2> HIDE DEF q
  <2>1. QED
    BY <1>1, <1>2, StoreLoopNeeds DEF Bubbles

(* The history that end() leaves.                                          *)
LEMMA EndShape ==
    ASSUME NEW p \in PipelineState
    PROVE  /\ Bubbles(p) \in 0..3
           /\ end(p).clocks = p.clocks + 3 * (Bubbles(p) + 1)
           /\ end(p).previous[0] = CurrentAsStage(p)
           /\ \A i \in 1..2 : end(p).previous[i] =
                 IF i - 1 < Bubbles(p) THEN NoStage ELSE p.previous[i - 1 - Bubbles(p)]
<1> DEFINE n == Bubbles(p)
           q == Advance(Interlock(p), CurrentAsStage(p))
<1>1. n \in 0..3 /\ StalledBy(p, Interlock(p), n)
  BY InterlockBubbles
<1>2. CurrentAsStage(p) \in Stage
  BY DEF CurrentAsStage, PipelineState, CurrentStage, Stage
<1>3. /\ q.clocks = p.clocks + 3 * n + 3
      /\ q.previous[0] = CurrentAsStage(p)
      /\ q.previous[1] = Interlock(p).previous[0]
      /\ q.previous[2] = Interlock(p).previous[1]
  BY <1>1, <1>2, AdvanceFacts DEF StalledBy
<1>4. end(p).clocks = q.clocks /\ end(p).previous = q.previous
  BY DEF end
<1>5. /\ Interlock(p).previous[0] = IF 0 < n THEN NoStage ELSE p.previous[0 - n]
      /\ Interlock(p).previous[1] = IF 1 < n THEN NoStage ELSE p.previous[1 - n]
  BY <1>1 DEF StalledBy
<1>6. \A i \in 1..2 : end(p).previous[i] =
                 IF i - 1 < n THEN NoStage ELSE p.previous[i - 1 - n]
  <2> HIDE DEF n, q
  <2>1. QED
    BY <1>1, <1>3, <1>4, <1>5
<1>7. p.clocks + 3 * n + 3 = p.clocks + 3 * (n + 1)
  BY <1>1 DEF PipelineState
<1>8. QED
  BY <1>1, <1>3, <1>4, <1>6, <1>7

-----------------------------------------------------------------------------
(* q is p with the operations of ops in its current slot.                  *)
Holding(p, q, ops) ==
    /\ q \in PipelineState
    /\ q.clocks = 0
    /\ q.previous = p.previous
    /\ q.current.rRead = UNION {op.rUse : op \in ops}
    /\ q.current.vRead = UNION {op.vUse : op \in ops}
    /\ q.current.store <=> \E op \in ops : Store(op)
    /\ q.current.load <=> \E op \in ops : Load(op)
    /\ q.current.branch <=> \E op \in ops : Branch(op)
    /\ q.current.rWrite = UNION {op.rDef \ {Zero} : op \in {o \in ops : ~Bypass(o)}}
    /\ q.current.vWrite = UNION {op.vDef : op \in ops}

LEMMA HoldingNone ==
    ASSUME NEW p, Settled(p)
    PROVE  Holding(p, begin(p), {})
BY BeginFacts DEF Settled, Holding, begin, PipelineState, NoCurrent

LEMMA HoldingMore ==
    ASSUME NEW p \in PipelineState, NEW q, NEW ops, Holding(p, q, ops), NEW op \in OpInfo
    PROVE  Holding(p, issue(q, op), ops \cup {op})
<1> DEFINE c == issue(q, op).current
<1>1. q \in PipelineState /\ q.current \in CurrentStage
  BY DEF Holding, PipelineState
<1>2. /\ issue(q, op) \in PipelineState /\ issue(q, op).clocks = 0
      /\ issue(q, op).previous = p.previous
  <2>1. issue(q, op).previous = q.previous
    BY <1>1 DEF issue, PipelineState
  <2>2. QED
    BY <1>1, <2>1, IssueFacts DEF Holding
<1>3. c = [load   |-> q.current.load   \/ Load(op),
           rWrite |-> q.current.rWrite \cup (IF Bypass(op) THEN {} ELSE op.rDef \ {Zero}),
           vWrite |-> q.current.vWrite \cup op.vDef,
           store  |-> q.current.store  \/ Store(op),
           branch |-> q.current.branch \/ Branch(op),
           rRead  |-> q.current.rRead  \cup op.rUse,
           vRead  |-> q.current.vRead  \cup op.vUse]
  BY <1>1 DEF issue, PipelineState
<1>4. /\ c.rRead = UNION {o.rUse : o \in ops \cup {op}}
      /\ c.vRead = UNION {o.vUse : o \in ops \cup {op}}
      /\ c.vWrite = UNION {o.vDef : o \in ops \cup {op}}
  <2>1. /\ c.rRead = (UNION {o.rUse : o \in ops}) \cup op.rUse
        /\ c.vRead = (UNION {o.vUse : o \in ops}) \cup op.vUse
        /\ c.vWrite = (UNION {o.vDef : o \in ops}) \cup op.vDef
    BY <1>3 DEF Holding
  <2> HIDE DEF c
  <2>2. QED
    BY <2>1
<1>5. c.rWrite = UNION {o.rDef \ {Zero} : o \in {x \in ops \cup {op} : ~Bypass(x)}}
  <2>1. c.rWrite = (UNION {o.rDef \ {Zero} : o \in {x \in ops : ~Bypass(x)}})
                      \cup (IF Bypass(op) THEN {} ELSE op.rDef \ {Zero})
    BY <1>3 DEF Holding
  <2> HIDE DEF c
  <2>2. QED
    BY <2>1
<1>6. /\ c.store <=> (q.current.store \/ Store(op))
      /\ c.load <=> (q.current.load \/ Load(op))
      /\ c.branch <=> (q.current.branch \/ Branch(op))
  <2>1. /\ c.store = (q.current.store \/ Store(op))
        /\ c.load = (q.current.load \/ Load(op))
        /\ c.branch = (q.current.branch \/ Branch(op))
    BY <1>3
  <2> HIDE DEF c
  <2>2. QED
    BY <2>1, Zenon
<1>7. QED
  <2> HIDE DEF c
  <2>1. /\ c.store <=> \E o \in ops \cup {op} : Store(o)
        /\ c.load <=> \E o \in ops \cup {op} : Load(o)
        /\ c.branch <=> \E o \in ops \cup {op} : Branch(o)
    BY <1>6 DEF Holding
  <2>2. QED
    BY <1>2, <1>4, <1>5, <2>1 DEF Holding, c

(* The slot of one operation, and of a pair.                               *)
LEMMA SlotsHold ==
    ASSUME NEW p, Settled(p), NEW op0 \in OpInfo, NEW op1 \in OpInfo
    PROVE  /\ Holding(p, issue(begin(p), op0), {op0})
           /\ Holding(p, issue(issue(begin(p), op0), op1), {op0, op1})
<1>1. p \in PipelineState
  BY DEF Settled
<1>2. Holding(p, issue(begin(p), op0), {} \cup {op0})
  BY <1>1, HoldingNone, HoldingMore
<1>3. {} \cup {op0} = {op0} /\ {op0} \cup {op1} = {op0, op1}
  OBVIOUS
<1>4. QED
  BY <1>1, <1>2, <1>3, HoldingMore

-----------------------------------------------------------------------------
(* The SP registers and the DMA engine.                                    *)

LEMMA TransferClocksType == \A bits : TransferClocks(bits) \in Nat
<1>1. \A bits : Value(bits) \in Nat
  BY DEF Value
<1>2. QED
  BY <1>1 DEF TransferClocks

-----------------------------------------------------------------------------
(* The two values that ioWrite gives full.                                 *)
OneDirection == {[read |-> TRUE, write |-> FALSE], [read |-> FALSE, write |-> TRUE]}

LEMMA OneDirectionFacts ==
    /\ None \in Direction /\ ~any(None) /\ ~(None.read /\ None.write)
    /\ \A d \in OneDirection :
          d \in Direction /\ any(d) /\ ~(d.read /\ d.write)
<1>1. None \in Direction /\ ~any(None) /\ ~(None.read /\ None.write)
  BY DEF None, Direction, any
<1>2. ASSUME NEW read \in BOOLEAN, NEW write \in BOOLEAN
      PROVE  [read |-> read, write |-> write] \in Direction
  BY DEF Direction
<1>3. OneDirection \subseteq Direction
  BY <1>2 DEF OneDirection
<1>4. \A d \in OneDirection : any(d) /\ ~(d.read /\ d.write)
  BY DEF OneDirection, any
<1>5. QED
  BY <1>1, <1>3, <1>4

-----------------------------------------------------------------------------
(* The pending registers stay in their widths, and a multiple of 8 stays   *)
(* one.                                                                    *)

LEMMA FieldTypes ==
    ASSUME NEW w \in Words
    PROVE  /\ Field(w, 3, 11) \in SUBSET (0..8)
           /\ Field(w, 3, 23) \in SUBSET (0..20)
           /\ Field(w, 12, 19) \in SUBSET (0..7)
           /\ Field(w, 23, 31) \in SUBSET (0..8)
  BY DEF Words, Field

LEMMA Above3Facts ==
    ASSUME NEW hi \in Nat, hi >= 3, NEW bits \in SUBSET (0..(hi - 3)), NEW reg
    PROVE  /\ Above3(reg, bits) \in SUBSET (0..hi)
           /\ Above3(reg, bits) \cap (0..2) = reg \cap (0..2)
  BY DEF Above3, At

LEMMA PendingFacts ==
    ASSUME NEW regs \in Regs, NEW reg, NEW w \in Words
    PROVE  /\ pendingWrite(regs, reg, w) \in Regs
           /\ Aligned(regs) => Aligned(pendingWrite(regs, reg, w))
<1>1. /\ Above3(regs.pbusAddress, Field(w, 3, 11)) \in SUBSET (0..11)
      /\ Above3(regs.dramAddress, Field(w, 3, 23)) \in SUBSET (0..23)
      /\ Above3(regs.length, Field(w, 3, 11)) \in SUBSET (0..11)
      /\ Above3(regs.skip, Field(w, 23, 31)) \in SUBSET (0..11)
      /\ Field(w, 12, 19) \in SUBSET (0..7)
  BY FieldTypes, Above3Facts
<1>2. \A r : /\ Above3(r, Field(w, 3, 11)) \cap (0..2) = r \cap (0..2)
             /\ Above3(r, Field(w, 3, 23)) \cap (0..2) = r \cap (0..2)
             /\ Above3(r, Field(w, 23, 31)) \cap (0..2) = r \cap (0..2)
  BY FieldTypes, Above3Facts
<1>3. /\ Aligned(regs) <=>
            /\ regs.pbusAddress \cap (0..2) = {} /\ regs.dramAddress \cap (0..2) = {}
            /\ regs.length \cap (0..2) = {} /\ regs.skip \cap (0..2) = {}
  BY DEF Aligned
<1>4. /\ pbusWrite(regs, w) \in Regs
      /\ Aligned(regs) => Aligned(pbusWrite(regs, w))
  <2> DEFINE e(a, region) == [regs EXCEPT !.pbusAddress = a, !.pbusRegion = region]
  <2>1. ASSUME NEW a \in SUBSET (0..11), NEW region \in BOOLEAN
        PROVE  /\ e(a, region) \in Regs
               /\ e(a, region).pbusAddress = a
               /\ e(a, region).dramAddress = regs.dramAddress
               /\ e(a, region).length = regs.length
               /\ e(a, region).skip = regs.skip
    BY DEF Regs
  <2>2. PICK region \in BOOLEAN : region = (12 \in w)
    <3>1. (12 \in w) \in BOOLEAN
      OBVIOUS
    <3>2. QED
      BY <3>1, Zenon
  <2>3. pbusWrite(regs, w) = e(Above3(regs.pbusAddress, Field(w, 3, 11)), region)
    BY <2>2, Zenon DEF pbusWrite
  <2> HIDE DEF e
  <2>4. /\ pbusWrite(regs, w) \in Regs
        /\ pbusWrite(regs, w).pbusAddress = Above3(regs.pbusAddress, Field(w, 3, 11))
        /\ pbusWrite(regs, w).dramAddress = regs.dramAddress
        /\ pbusWrite(regs, w).length = regs.length
        /\ pbusWrite(regs, w).skip = regs.skip
    BY <1>1, <2>1, <2>3
  <2>5. QED
    BY <1>2, <1>3, <2>4 DEF Aligned
<1>5. /\ dramWrite(regs, w) \in Regs
      /\ Aligned(regs) => Aligned(dramWrite(regs, w))
  BY <1>1, <1>2 DEF Regs, dramWrite, Aligned
<1>6. /\ lengthWrite(regs, w) \in Regs
      /\ Aligned(regs) => Aligned(lengthWrite(regs, w))
  <2>1. /\ lengthWrite(regs, w) \in Regs
        /\ lengthWrite(regs, w).pbusAddress = regs.pbusAddress
        /\ lengthWrite(regs, w).dramAddress = regs.dramAddress
        /\ lengthWrite(regs, w).length = Above3(regs.length, Field(w, 3, 11))
        /\ lengthWrite(regs, w).skip = Above3(regs.skip, Field(w, 23, 31))
    BY <1>1 DEF Regs, lengthWrite
  <2>2. QED
    BY <1>2, <1>3, <2>1 DEF Aligned
<1>7. QED
  BY <1>4, <1>5, <1>6 DEF pendingWrite

-----------------------------------------------------------------------------
(* The DMA engine between two operations: at most one direction in each    *)
(* place, nothing waiting for an idle engine, and a clock that counts up   *)
(* to 0.                                                                   *)
Engine(d) ==
    /\ d \in Dma
    /\ ~(d.busy.read /\ d.busy.write)
    /\ ~(d.full.read /\ d.full.write)
    /\ any(d.full) => any(d.busy)
    /\ d.clock <= 0
    /\ Aligned(d.pending) /\ Aligned(d.current)

LEMMA StartFacts ==
    ASSUME NEW d \in Dma
    PROVE  /\ any(d.busy) \/ ~any(d.full) => dmaTransferStart(d) = d
           /\ ~any(d.busy) /\ any(d.full) =>
                 /\ dmaTransferStart(d) \in Dma
                 /\ dmaTransferStart(d).pending = d.pending
                 /\ dmaTransferStart(d).current = d.pending
                 /\ dmaTransferStart(d).busy = d.full
                 /\ dmaTransferStart(d).full = None
                 /\ dmaTransferStart(d).clock = -TransferClocks(d.pending.length)
<1>1. None \in Direction /\ -TransferClocks(d.pending.length) \in Int
  BY TransferClocksType DEF None, Direction
<1>2. ASSUME any(d.busy) \/ ~any(d.full)
      PROVE  dmaTransferStart(d) = d
  BY <1>2 DEF dmaTransferStart
<1>3. CASE ~any(d.busy) /\ any(d.full)
  <2> DEFINE e(n, none) ==
         [[d EXCEPT !.current = d.pending, !.busy = d.full, !.full = none]
             EXCEPT !.clock = n]
  <2>1. dmaTransferStart(d) = e(-TransferClocks(d.pending.length), None)
    BY <1>3 DEF dmaTransferStart, dmaQueue
  <2>2. ASSUME NEW n \in Int, NEW none \in Direction
        PROVE  /\ e(n, none) \in Dma
               /\ e(n, none).pending = d.pending /\ e(n, none).current = d.pending
               /\ e(n, none).busy = d.full /\ e(n, none).full = none
               /\ e(n, none).clock = n
    BY DEF Dma
  <2>3. QED
    <3> HIDE DEF e
    <3>1. QED
      BY <1>1, <1>3, <2>1, <2>2
<1>4. QED
  BY <1>2, <1>3

(* Time moves nothing but the clock.                                       *)
LEMMA StepFacts ==
    ASSUME NEW d, Engine(d), NEW clocks \in Nat
    PROVE  /\ Engine(dmaStep(d, clocks))
           /\ dmaStep(d, clocks).pending = d.pending
           /\ dmaStep(d, clocks).current = d.current
           /\ dmaStep(d, clocks).busy = d.busy
           /\ dmaStep(d, clocks).full = d.full
           /\ dmaStep(d, clocks).clock >= d.clock
           /\ any(d.busy) => dmaStep(d, clocks).clock = Tick(d.clock, clocks)
<1> DEFINE e(n) == [d EXCEPT !.clock = n]
<1>1. d \in Dma /\ d.clock \in Int /\ d.clock <= 0
  BY DEF Dma, Engine
<1>2. /\ Tick(d.clock, clocks) \in Int
      /\ Tick(d.clock, clocks) >= d.clock
      /\ Tick(d.clock, clocks) <= 0
  BY <1>1 DEF Tick
<1>3. /\ dmaStep(d, clocks) = d \/ dmaStep(d, clocks) = e(Tick(d.clock, clocks))
      /\ any(d.busy) => dmaStep(d, clocks) = e(Tick(d.clock, clocks))
  BY DEF dmaStep, dmaTransferStep
<1>4. ASSUME NEW n \in Int
      PROVE  /\ e(n) \in Dma
             /\ e(n).pending = d.pending /\ e(n).current = d.current
             /\ e(n).busy = d.busy /\ e(n).full = d.full /\ e(n).clock = n
  BY <1>1 DEF Dma
<1>5. QED
  <2> HIDE DEF e
  <2>1. QED
    BY <1>1, <1>2, <1>3, <1>4 DEF Engine, any

(* ioWrite of a DMA register: a running transfer is not disturbed.         *)
LEMMA WriteDmaFacts ==
    ASSUME NEW d, Engine(d), NEW reg, NEW w \in Words
    PROVE  /\ Engine(ioWriteDma(d, reg, w))
           /\ any(d.busy) => /\ ioWriteDma(d, reg, w).busy = d.busy
                             /\ ioWriteDma(d, reg, w).current = d.current
                             /\ ioWriteDma(d, reg, w).clock = d.clock
<1> DEFINE p == pendingWrite(d.pending, reg, w)
           e == [d EXCEPT !.pending = p]
           f(direction) == [e EXCEPT !.full = direction]
<1>1. d \in Dma /\ d.pending \in Regs /\ d.current \in Regs
  BY DEF Engine, Dma
<1>2. p \in Regs /\ Aligned(p)
  BY <1>1, PendingFacts DEF Engine
<1>3. /\ e \in Dma /\ e.pending = p /\ e.current = d.current
      /\ e.busy = d.busy /\ e.full = d.full /\ e.clock = d.clock
  <2> HIDE DEF p
  <2>1. QED
    BY <1>1, <1>2 DEF Dma
<1>4. Engine(e)
  <2> HIDE DEF p, e
  <2>1. QED
    BY <1>2, <1>3 DEF Engine, any
<1>5. ASSUME NEW direction \in OneDirection
      PROVE  /\ f(direction) \in Dma /\ f(direction).pending = p
             /\ f(direction).current = d.current /\ f(direction).busy = d.busy
             /\ f(direction).full = direction /\ f(direction).clock = d.clock
             /\ any(direction) /\ ~(direction.read /\ direction.write)
  <2>1. direction \in Direction
    BY OneDirectionFacts
  <2> HIDE DEF p, e
  <2>2. QED
    BY <1>3, <2>1, OneDirectionFacts DEF Dma
<1>6. ASSUME NEW direction \in OneDirection
      PROVE  /\ Engine(writeLength(e, direction))
             /\ any(d.busy) => /\ writeLength(e, direction).busy = d.busy
                               /\ writeLength(e, direction).current = d.current
                               /\ writeLength(e, direction).clock = d.clock
  <2>1. writeLength(e, direction) = dmaTransferStart(f(direction))
    BY DEF writeLength
  <2> HIDE DEF p, e, f
  <2>2. CASE any(d.busy)
    <3>1. dmaTransferStart(f(direction)) = f(direction)
      BY <1>5, <2>2, StartFacts
    <3>2. Engine(f(direction))
      BY <1>2, <1>5, <2>2 DEF Engine
    <3>3. QED
      BY <1>5, <2>1, <3>1, <3>2
  <2>3. CASE ~any(d.busy)
    <3> DEFINE g == dmaTransferStart(f(direction))
    <3>1. /\ g \in Dma /\ g.pending = p /\ g.current = p
          /\ g.busy = direction /\ g.full = None
          /\ g.clock = -TransferClocks(p.length)
      <4>1. /\ f(direction) \in Dma /\ ~any(f(direction).busy)
            /\ any(f(direction).full)
        BY <1>5, <2>3
      <4>2. QED
        BY <1>5, <4>1, StartFacts
    <3>2. g.clock <= 0
      BY <3>1, TransferClocksType
    <3>3. ~any(None) /\ ~(None.read /\ None.write)
      BY OneDirectionFacts
    <3> HIDE DEF g
    <3>4. Engine(g)
      BY <1>2, <1>5, <3>1, <3>2, <3>3 DEF Engine
    <3>5. QED
      BY <2>1, <2>3, <3>4 DEF g
  <2>4. QED
    BY <2>2, <2>3
<1>7. \/ ioWriteDma(d, reg, w) = e
      \/ \E direction \in OneDirection : ioWriteDma(d, reg, w) = writeLength(e, direction)
  BY DEF ioWriteDma, OneDirection
<1>8. QED
  <2> HIDE DEF e
  <2>1. QED
    BY <1>3, <1>4, <1>6, <1>7

(* ioWrite of a length register starts an idle engine with what was just   *)
(* written; other registers leave it idle.                                 *)
LEMMA IdleWriteFacts ==
    ASSUME NEW d, Engine(d), ~any(d.busy), NEW reg, NEW w \in Words,
           any(ioWriteDma(d, reg, w).busy)
    PROVE  /\ ioWriteDma(d, reg, w).current = ioWriteDma(d, reg, w).pending
           /\ ioWriteDma(d, reg, w).clock =
                 -TransferClocks(ioWriteDma(d, reg, w).current.length)
           /\ ~any(ioWriteDma(d, reg, w).full)
<1> DEFINE p == pendingWrite(d.pending, reg, w)
           e == [d EXCEPT !.pending = p]
           f(direction) == [e EXCEPT !.full = direction]
<1>1. d \in Dma /\ p \in Regs
  BY PendingFacts DEF Engine, Dma
<1>2. e \in Dma /\ e.busy = d.busy
  <2> HIDE DEF p
  <2>1. QED
    BY <1>1 DEF Dma
<1>3. PICK direction \in OneDirection : ioWriteDma(d, reg, w) = writeLength(e, direction)
  <2>1. \/ ioWriteDma(d, reg, w) = e
        \/ \E direction \in OneDirection : ioWriteDma(d, reg, w) = writeLength(e, direction)
    BY DEF ioWriteDma, OneDirection
  <2>2. QED
    BY <1>2, <2>1
<1>4. f(direction) \in Dma /\ ~any(f(direction).busy) /\ any(f(direction).full)
  <2>1. direction \in Direction /\ any(direction)
    BY OneDirectionFacts
  <2> HIDE DEF p, e
  <2>2. QED
    BY <1>2, <2>1 DEF Dma
<1>5. ioWriteDma(d, reg, w) = dmaTransferStart(f(direction))
  BY <1>3 DEF writeLength
<1>6. QED
  <2> HIDE DEF p, e, f
  <2>1. QED
    BY <1>4, <1>5, StartFacts, OneDirectionFacts

-----------------------------------------------------------------------------
(* The status flags.                                                       *)

LEMMA WriteStatusType ==
    ASSUME NEW s \in Status, NEW reg, NEW w \in Words
    PROVE  ioWriteStatus(s, reg, w) \in Status
<1>1. \A flag \in BOOLEAN : \A m, n : SetClear(flag, w, m, n) \in BOOLEAN
  BY DEF SetClear
<1>2. /\ s.halted \in BOOLEAN /\ s.broken \in BOOLEAN /\ s.singleStep \in BOOLEAN
      /\ s.interruptOnBreak \in BOOLEAN
  BY DEF Status
<1>3. statusWrite(s, w) \in Status
  <2> DEFINE Signals ==
        {k \in 0..7 : SetClear(k \in s.signal, w, 9 + 2*k, 10 + 2*k)}
  <2>1. PICK halted \in BOOLEAN : halted = SetClear(s.halted, w, 0, 1)
    BY <1>1, <1>2, Zenon
  <2>2. PICK broken \in BOOLEAN : broken = (s.broken /\ 2 \notin w)
    <3>1. (s.broken /\ 2 \notin w) \in BOOLEAN
      OBVIOUS
    <3>2. QED
      BY <3>1, Zenon
  <2>3. PICK single \in BOOLEAN : single = SetClear(s.singleStep, w, 5, 6)
    BY <1>1, <1>2, Zenon
  <2>4. PICK onBreak \in BOOLEAN : onBreak = SetClear(s.interruptOnBreak, w, 7, 8)
    BY <1>1, <1>2, Zenon
  <2>5. Signals \in SUBSET (0..7)
    OBVIOUS
  <2>6. statusWrite(s, w) =
           [semaphore |-> s.semaphore, halted |-> halted, broken |-> broken,
            full |-> s.full, singleStep |-> single, interruptOnBreak |-> onBreak,
            signal |-> Signals]
    BY <2>1, <2>2, <2>3, <2>4, Zenon DEF statusWrite
  <2> HIDE DEF Signals
  <2>7. QED
    BY <2>5, <2>6 DEF Status
<1>4. [s EXCEPT !.semaphore = FALSE] \in Status
  BY DEF Status
<1>5. QED
  BY <1>3, <1>4 DEF ioWriteStatus

LEMMA OtherStatusTypes ==
    ASSUME NEW s \in Status
    PROVE  /\ BREAK(s) \in Status
           /\ \A reg : ioReadStatus(s, reg) \in Status
           /\ \A isHalted \in BOOLEAN : [s EXCEPT !.halted = isHalted] \in Status
  BY DEF BREAK, ioReadStatus, Status

(* Where ioRead puts the flags that SP_STATUS can set and clear.           *)
LEMMA StatusBits ==
    ASSUME NEW s \in Status, NEW d
    PROVE  /\ 0 \in StatusWord(s, d) <=> s.halted
           /\ 5 \in StatusWord(s, d) <=> s.singleStep
           /\ 6 \in StatusWord(s, d) <=> s.interruptOnBreak
           /\ \A k \in 0..7 : 7 + k \in StatusWord(s, d) <=> k \in s.signal
<1>1. s.signal \in SUBSET (0..7)
  BY DEF Status
<1>2. \A k \in 0..7 : 7 + k \in At(7, s.signal) <=> k \in s.signal
  BY <1>1 DEF At
<1>3. \A n \in 0..6 : n \notin At(7, s.signal)
  BY <1>1 DEF At
<1>4. \A n \in 0..14 : n \in StatusWord(s, d) <=>
          \/ n = 0 /\ s.halted
          \/ n = 1 /\ s.broken
          \/ n = 2 /\ any(d.busy)
          \/ n = 3 /\ any(d.full)
          \/ n = 4 /\ s.full
          \/ n = 5 /\ s.singleStep
          \/ n = 6 /\ s.interruptOnBreak
          \/ n \in At(7, s.signal)
  BY DEF StatusWord, Bit
<1>5. \A k \in 0..7 : 7 + k \in 7..14
  OBVIOUS
<1>6. QED
  BY <1>2, <1>3, <1>4, <1>5
=============================================================================
