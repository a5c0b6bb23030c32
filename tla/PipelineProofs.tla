--------------------------- MODULE PipelineProofs ---------------------------
(***************************************************************************)
(* The invariants of PipelineUnit and the cost of a slot, for every set of *)
(* registers and operations.                                               *)
(***************************************************************************)
EXTENDS PipelineRefinement, RspLemmas

(* Inductive: between two slots nothing is in the current one, and what    *)
(* end() left in singleIssue covers a taken branch.                        *)
IInv ==
    /\ Settled(pipeline)
    /\ taken \in BOOLEAN
    /\ DelaySlotAlone

LEMMA InitIInv == Init => IInv
  BY InitPipelineFacts DEF Init, IInv, DelaySlotAlone

(* A slot with one operation or two, and a branch taken only if one of     *)
(* them is a branch.                                                       *)
LEMMA OneSlotKeeps ==
    ASSUME Settled(pipeline), NEW op \in Ops,
           pipeline' = OneSlot(pipeline, op),
           taken' \in BOOLEAN, taken' => Branch(op)
    PROVE  IInv' /\ SlotCharge(pipeline'.clocks)
<1>1. op \in OpInfo
  BY OpsAssumption
<1>2. /\ Settled(pipeline')
      /\ pipeline'.singleIssue = Branch(op)
      /\ SlotCharge(pipeline'.clocks)
  BY <1>1, OneSlotFacts
<1>3. QED
  BY <1>2 DEF IInv, DelaySlotAlone, Settled

LEMMA PairSlotKeeps ==
    ASSUME Settled(pipeline), NEW op0 \in Ops, NEW op1 \in Ops,
           pipeline' = PairSlot(pipeline, op0, op1),
           taken' \in BOOLEAN, taken' => Branch(op1)
    PROVE  IInv' /\ SlotCharge(pipeline'.clocks)
<1>1. op0 \in OpInfo /\ op1 \in OpInfo
  BY OpsAssumption
<1>2. /\ Settled(pipeline')
      /\ pipeline'.singleIssue = (Branch(op0) \/ Branch(op1))
      /\ SlotCharge(pipeline'.clocks)
  BY <1>1, PairSlotFacts
<1>3. QED
  BY <1>2 DEF IInv, DelaySlotAlone, Settled

LEMMA DelaySlotKeeps ==
    ASSUME Settled(pipeline), NEW op \in Ops, NEW oddTarget \in BOOLEAN,
           RetireDelaySlot(op, oddTarget)
    PROVE  /\ IInv'
           /\ \E n \in 2..5 : pipeline'.clocks = 3 * n
<1>1. op \in OpInfo
  BY OpsAssumption
<1> DEFINE q == OneSlot(pipeline, op)
<1>2. Settled(q) /\ SlotCharge(q.clocks)
  BY <1>1, OneSlotFacts
<1>3. pipeline' = DelaySlotEpilogue(q, oddTarget) /\ taken' = FALSE
  BY DEF RetireDelaySlot
<1>4. Settled(pipeline') /\ pipeline'.clocks = q.clocks + 3
  <2> HIDE DEF q
  <2>1. QED
    BY <1>2, <1>3, DelaySlotEpilogueFacts
<1>5. PICK n \in 1..4 : q.clocks = 3 * n
  BY <1>2 DEF SlotCharge
<1>6. pipeline'.clocks = 3 * (n + 1) /\ n + 1 \in 2..5
  <2> HIDE DEF q
  <2>1. QED
    BY <1>4, <1>5
<1>7. QED
  BY <1>3, <1>4, <1>6 DEF IInv, DelaySlotAlone

LEMMA NextIInv == IInv /\ [Next]_vars => IInv'
<1> SUFFICES ASSUME IInv, [Next]_vars
             PROVE  IInv'
  OBVIOUS
<1>1. Settled(pipeline) /\ taken \in BOOLEAN
  BY DEF IInv
<1>2. ASSUME NEW op \in Ops, RetireOne(op)
      PROVE  IInv'
  <2>1. /\ pipeline' = OneSlot(pipeline, op)
        /\ taken' \in BOOLEAN /\ (taken' => Branch(op))
    BY <1>2 DEF RetireOne
  <2>2. QED
    BY <1>1, <2>1, OneSlotKeeps
<1>3. ASSUME NEW op0 \in Ops, NEW op1 \in Ops, RetirePair(op0, op1)
      PROVE  IInv'
  <2>1. /\ pipeline' = PairSlot(pipeline, op0, op1)
        /\ taken' \in BOOLEAN /\ (taken' => Branch(op1))
    BY <1>3 DEF RetirePair
  <2>2. QED
    BY <1>1, <2>1, PairSlotKeeps
<1>4. ASSUME NEW op \in Ops, NEW oddTarget \in BOOLEAN, RetireDelaySlot(op, oddTarget)
      PROVE  IInv'
  BY <1>1, <1>4, DelaySlotKeeps
<1>5. ASSUME NEW op \in Ops, RetireRedirected(op)
      PROVE  IInv'
  <2>1. pipeline' = OneSlot(pipeline, op) /\ taken' = taken /\ Branch(op)
    BY <1>5 DEF RetireRedirected
  <2>2. QED
    BY <1>1, <2>1, OneSlotKeeps
<1>6. CASE UNCHANGED vars
  BY <1>6 DEF IInv, DelaySlotAlone, vars
<1>7. QED
  BY <1>2, <1>3, <1>4, <1>5, <1>6 DEF Next

THEOREM Inductive == Spec => []IInv
  BY InitIInv, NextIInv, PTL DEF Spec

(* The pipeline record stays one the C++ struct can hold.                  *)
THEOREM TypeCorrect == Spec => []TypeOK
<1>1. IInv => TypeOK
  BY DEF IInv, TypeOK, Settled
<1>2. QED
  BY <1>1, Inductive, PTL

(* Whoever enters a delay slot finds singleIssue set.                      *)
THEOREM DelaySlotIssuedAlone == Spec => []DelaySlotAlone
<1>1. IInv => DelaySlotAlone
  BY DEF IInv
<1>2. QED
  BY <1>1, Inductive, PTL

-----------------------------------------------------------------------------
(* The charge of a slot, as CostBound states it.                           *)
CostStep ==
    pipeline'.clocks \in SlotCosts \cup
        (IF taken /\ ~taken' THEN {5 * SlotClocks} ELSE {})

LEMMA SlotChargeIsCost ==
    ASSUME NEW clocks, SlotCharge(clocks)
    PROVE  clocks \in SlotCosts
  BY DEF SlotCharge, SlotCosts, SlotClocks

LEMMA NextCost == IInv /\ Next => CostStep
<1> SUFFICES ASSUME IInv, Next
             PROVE  CostStep
  OBVIOUS
<1>1. Settled(pipeline) /\ taken \in BOOLEAN
  BY DEF IInv
<1>2. ASSUME NEW op \in Ops, RetireOne(op)
      PROVE  CostStep
  <2>1. /\ pipeline' = OneSlot(pipeline, op)
        /\ taken' \in BOOLEAN /\ (taken' => Branch(op))
    BY <1>2 DEF RetireOne
  <2>2. QED
    BY <1>1, <2>1, OneSlotKeeps, SlotChargeIsCost DEF CostStep
<1>3. ASSUME NEW op0 \in Ops, NEW op1 \in Ops, RetirePair(op0, op1)
      PROVE  CostStep
  <2>1. /\ pipeline' = PairSlot(pipeline, op0, op1)
        /\ taken' \in BOOLEAN /\ (taken' => Branch(op1))
    BY <1>3 DEF RetirePair
  <2>2. QED
    BY <1>1, <2>1, PairSlotKeeps, SlotChargeIsCost DEF CostStep
<1>4. ASSUME NEW op \in Ops, NEW oddTarget \in BOOLEAN, RetireDelaySlot(op, oddTarget)
      PROVE  CostStep
  <2>1. PICK n \in 2..5 : pipeline'.clocks = 3 * n
    BY <1>1, <1>4, DelaySlotKeeps
  <2>2. taken /\ ~taken'
    BY <1>4 DEF RetireDelaySlot
  <2>3. n \in 1..4 \/ n = 5
    OBVIOUS
  <2>4. QED
    BY <2>1, <2>2, <2>3 DEF CostStep, SlotCosts, SlotClocks
<1>5. ASSUME NEW op \in Ops, RetireRedirected(op)
      PROVE  CostStep
  <2>1. pipeline' = OneSlot(pipeline, op) /\ taken' = taken /\ Branch(op)
    BY <1>5 DEF RetireRedirected
  <2>2. QED
    BY <1>1, <2>1, OneSlotKeeps, SlotChargeIsCost DEF CostStep
<1>6. QED
  BY <1>2, <1>3, <1>4, <1>5 DEF Next

(* A slot costs between 3 and 12 clocks, a delay slot 3 more, whatever     *)
(* conflicts: the interlocks overlap and never add up to more than three   *)
(* bubbles.                                                                *)
THEOREM SlotCostBounded == Spec => CostBound
<1>1. IInv /\ [Next]_vars => [CostStep]_vars
  BY NextCost
<1>2. QED
  BY <1>1, Inductive, PTL DEF Spec, CostBound, CostStep

-----------------------------------------------------------------------------
(* What the number of empty slots is enough for: no hazard is left.        *)
LEMMA NothingLeft ==
    ASSUME NEW p \in PipelineState, NEW q, NEW ops, Holding(p, q, ops)
    PROVE  NoHazardLeft(ops, end(q))
<1> DEFINE n == Bubbles(q)
           before(i) == IF i - 1 < n THEN NoStage ELSE q.previous[i - 1 - n]
<1>1. /\ q \in PipelineState /\ n \in 0..3
      /\ \A i \in 1..2 : end(q).previous[i] = before(i)
  BY EndShape DEF Holding
<1>2. /\ n >= GprNeeds(q, q.current.rRead) /\ n >= VrNeeds(q, q.current.vRead)
      /\ q.current.store => /\ n = 0 => ~q.previous[1].load
                            /\ n = 1 => ~q.previous[0].load
  <2>1. GprNeeds(q, q.current.rRead) \in 0..2 /\ VrNeeds(q, q.current.vRead) \in 0..3
    BY DEF GprNeeds, VrNeeds
  <2>2. /\ ReadNeeds(q) \in 0..3
        /\ ReadNeeds(q) >= GprNeeds(q, q.current.rRead)
        /\ ReadNeeds(q) >= VrNeeds(q, q.current.vRead)
    BY <2>1 DEF ReadNeeds, Greater
  <2>3. n >= ReadNeeds(q)
    BY <2>2 DEF Bubbles, StoreNeeds
  <2>4. q.current.store => /\ n = 0 => ~q.previous[1].load
                           /\ n = 1 => ~q.previous[0].load
    BY <2>2 DEF Bubbles, StoreNeeds
  <2>5. QED
    BY <1>1, <2>1, <2>2, <2>3, <2>4
<1>3. \A i \in 1..2 : q.current.rRead \cap before(i).rWrite = {}
  <2>1. CASE n = 0
    BY <1>2, <2>1 DEF GprNeeds
  <2>2. CASE n = 1
    <3>1. q.current.rRead \cap q.previous[0].rWrite = {}
      BY <1>2, <2>2 DEF GprNeeds
    <3>2. QED
      BY <2>2, <3>1, NoStageIsQuiet
  <2>3. CASE n \in 2..3
    BY <2>3, NoStageIsQuiet
  <2>4. QED
    BY <1>1, <2>1, <2>2, <2>3
<1>4. \A i \in 1..2 : q.current.vRead \cap before(i).vWrite = {}
  <2>1. CASE n = 0
    BY <1>2, <2>1 DEF VrNeeds
  <2>2. CASE n = 1
    <3>1. q.current.vRead \cap q.previous[0].vWrite = {}
      BY <1>2, <2>2 DEF VrNeeds
    <3>2. QED
      BY <2>2, <3>1, NoStageIsQuiet
  <2>3. CASE n \in 2..3
    BY <2>3, NoStageIsQuiet
  <2>4. QED
    BY <1>1, <2>1, <2>2, <2>3
<1>5. q.current.store => ~before(2).load
  BY <1>1, <1>2, NoStageIsQuiet
<1>6. QED
  <2> HIDE DEF before, n
  <2>1. ASSUME NEW op \in ops, NEW i \in 1..2
        PROVE  /\ op.rUse \cap end(q).previous[i].rWrite = {}
               /\ op.vUse \cap end(q).previous[i].vWrite = {}
    <3>1. op.rUse \subseteq q.current.rRead /\ op.vUse \subseteq q.current.vRead
      BY DEF Holding
    <3>2. QED
      BY <1>1, <1>3, <1>4, <3>1
  <2>2. (\E op \in ops : Store(op)) => ~end(q).previous[2].load
    BY <1>1, <1>5 DEF Holding
  <2>3. QED
    BY <2>1, <2>2 DEF NoHazardLeft

(* The slot of one operation, or of a pair, leaves none of its hazards in  *)
(* the history (readGPR, readVR and store in end()).                       *)
HazardStep ==
    /\ \A op \in Ops :
          RetireOne(op) \/ RetireRedirected(op) => NoHazardLeft({op}, pipeline')
    /\ \A op0, op1 \in Ops :
          RetirePair(op0, op1) => NoHazardLeft({op0, op1}, pipeline')

THEOREM NoHazardEntersLate == Spec => HazardFree
<1>1. IInv /\ [Next]_vars => [HazardStep]_vars
  <2> SUFFICES ASSUME IInv, Next
               PROVE  HazardStep
    OBVIOUS
  <2>1. Settled(pipeline) /\ pipeline \in PipelineState
    BY DEF IInv, Settled
  <2>2. ASSUME NEW op \in Ops, RetireOne(op) \/ RetireRedirected(op)
        PROVE  NoHazardLeft({op}, pipeline')
    <3>1. op \in OpInfo /\ pipeline' = end(issue(begin(pipeline), op))
      BY <2>2, OpsAssumption DEF RetireOne, RetireRedirected, OneSlot
    <3>2. QED
      BY <2>1, <3>1, SlotsHold, NothingLeft
  <2>3. ASSUME NEW op0 \in Ops, NEW op1 \in Ops, RetirePair(op0, op1)
        PROVE  NoHazardLeft({op0, op1}, pipeline')
    <3>1. /\ op0 \in OpInfo /\ op1 \in OpInfo
          /\ pipeline' = end(issue(issue(begin(pipeline), op0), op1))
      BY <2>3, OpsAssumption DEF RetirePair, PairSlot
    <3>2. QED
      BY <2>1, <3>1, SlotsHold, NothingLeft
  <2>4. QED
    BY <2>2, <2>3 DEF HazardStep
<1>2. QED
  BY <1>1, Inductive, PTL DEF Spec, HazardFree, HazardStep

-----------------------------------------------------------------------------
(* What the second operation waits for in a slot of its own, it waits for  *)
(* less than the first one's slot and its empty slots take.                *)
LEMMA NeedsAge ==
    ASSUME NEW p \in PipelineState, NEW first \in PipelineState, NEW n \in 0..3,
           \A i \in 1..2 : first.previous[i] =
               IF i - 1 < n THEN NoStage ELSE p.previous[i - 1 - n],
           NEW mask
    PROVE  /\ GprNeeds(p, mask) \in 0..2 /\ VrNeeds(p, mask) \in 0..3
           /\ GprNeeds(first, mask) \in 0..2 /\ VrNeeds(first, mask) \in 0..3
           /\ GprNeeds(p, mask) <= GprNeeds(first, mask) + n + 1
           /\ VrNeeds(p, mask) <= VrNeeds(first, mask) + n + 1
<1>1. /\ GprNeeds(p, mask) \in 0..2 /\ VrNeeds(p, mask) \in 0..3
      /\ GprNeeds(first, mask) \in 0..2 /\ VrNeeds(first, mask) \in 0..3
  BY DEF GprNeeds, VrNeeds
<1>2. CASE n = 0
  <2>1. first.previous[1] = p.previous[0] /\ first.previous[2] = p.previous[1]
    BY <1>2
  <2>2. GprNeeds(p, mask) <= GprNeeds(first, mask) + 1
    BY <2>1 DEF GprNeeds
  <2>3. VrNeeds(p, mask) <= VrNeeds(first, mask) + 1
    BY <2>1 DEF VrNeeds
  <2>4. QED
    BY <1>1, <1>2, <2>2, <2>3
<1>3. CASE n = 1
  <2>1. first.previous[2] = p.previous[0]
    BY <1>3
  <2>2. VrNeeds(p, mask) <= VrNeeds(first, mask) + 2
    BY <2>1 DEF VrNeeds
  <2>3. QED
    BY <1>1, <1>3, <2>2
<1>4. CASE n \in 2..3
  BY <1>1, <1>4
<1>5. QED
  BY <1>1, <1>2, <1>3, <1>4

(* Two masks wait as long as the longer of them.                           *)
LEMMA NeedsJoin ==
    ASSUME NEW p \in PipelineState, NEW a, NEW b
    PROVE  /\ GprNeeds(p, a \cup b) = Greater(GprNeeds(p, a), GprNeeds(p, b))
           /\ VrNeeds(p, a \cup b) = Greater(VrNeeds(p, a), VrNeeds(p, b))
<1>1. \A c : (a \cup b) \cap c = {} <=> a \cap c = {} /\ b \cap c = {}
  OBVIOUS
<1>2. QED
  BY <1>1 DEF GprNeeds, VrNeeds, Greater

LEMMA BubbleBounds ==
    ASSUME NEW q \in PipelineState
    PROVE  /\ GprNeeds(q, q.current.rRead) \in 0..2
           /\ VrNeeds(q, q.current.vRead) \in 0..3
           /\ Bubbles(q) \in 0..3
           /\ Bubbles(q) >= GprNeeds(q, q.current.rRead)
           /\ Bubbles(q) >= VrNeeds(q, q.current.vRead)
           /\ \A n \in Nat : /\ n >= GprNeeds(q, q.current.rRead)
                             /\ n >= VrNeeds(q, q.current.vRead)
                             /\ n >= 1
                             => Bubbles(q) <= n + 1
<1>1. GprNeeds(q, q.current.rRead) \in 0..2 /\ VrNeeds(q, q.current.vRead) \in 0..3
  BY DEF GprNeeds, VrNeeds
<1>2. QED
  BY <1>1 DEF Bubbles, StoreNeeds, ReadNeeds, Greater

LEMMA PairCost ==
    ASSUME NEW p, Settled(p), NEW op0 \in OpInfo, NEW op1 \in OpInfo
    PROVE  LET first == OneSlot(p, op0)
           IN  PairSlot(p, op0, op1).clocks
                 <= first.clocks + OneSlot(first, op1).clocks + SlotClocks
<1> DEFINE first == OneSlot(p, op0)
           q0 == issue(begin(p), op0)
           q1 == issue(begin(first), op1)
           both == issue(q0, op1)
<1>1. p \in PipelineState /\ Settled(first) /\ first \in PipelineState
  BY OneSlotFacts DEF Settled
<1>2. Holding(p, q0, {op0}) /\ Holding(p, both, {op0, op1})
  BY SlotsHold
<1>3. Holding(first, q1, {op1})
  <2> HIDE DEF first
  <2>1. QED
    BY <1>1, SlotsHold
<1>4. /\ q0 \in PipelineState /\ q0.previous = p.previous /\ q0.clocks = 0
      /\ q0.current.rRead = op0.rUse /\ q0.current.vRead = op0.vUse
      /\ q1 \in PipelineState /\ q1.previous = first.previous /\ q1.clocks = 0
      /\ q1.current.rRead = op1.rUse /\ q1.current.vRead = op1.vUse
      /\ both \in PipelineState /\ both.previous = p.previous /\ both.clocks = 0
      /\ both.current.rRead = op0.rUse \cup op1.rUse
      /\ both.current.vRead = op0.vUse \cup op1.vUse
  <2> HIDE DEF q0, q1, both, first
  <2>1. QED
    BY <1>2, <1>3 DEF Holding
<1>5. /\ first.clocks = 3 * (Bubbles(q0) + 1)
      /\ OneSlot(first, op1).clocks = 3 * (Bubbles(q1) + 1)
      /\ PairSlot(p, op0, op1).clocks = 3 * (Bubbles(both) + 1)
      /\ \A i \in 1..2 : first.previous[i] =
             IF i - 1 < Bubbles(q0) THEN NoStage ELSE q0.previous[i - 1 - Bubbles(q0)]
  <2>1. first = end(q0) /\ OneSlot(first, op1) = end(q1) /\ PairSlot(p, op0, op1) = end(both)
    BY DEF OneSlot, PairSlot
  <2>2. /\ Bubbles(q0) \in 0..3 /\ Bubbles(q1) \in 0..3 /\ Bubbles(both) \in 0..3
    <3> HIDE DEF q0, q1, both, first
    <3>1. QED
      BY <1>4, EndShape
  <2> HIDE DEF q0, q1, both, first
  <2>3. QED
    BY <1>4, <2>1, <2>2, EndShape
<1> DEFINE m == Bubbles(q0)
           n == Bubbles(q1)
<1>6. /\ m \in 0..3 /\ n \in 0..3
      /\ GprNeeds(p, op0.rUse) <= m /\ VrNeeds(p, op0.vUse) <= m
      /\ GprNeeds(first, op1.rUse) <= n /\ VrNeeds(first, op1.vUse) <= n
  <2>1. /\ GprNeeds(p, op0.rUse) = GprNeeds(q0, op0.rUse)
        /\ VrNeeds(p, op0.vUse) = VrNeeds(q0, op0.vUse)
        /\ GprNeeds(first, op1.rUse) = GprNeeds(q1, op1.rUse)
        /\ VrNeeds(first, op1.vUse) = VrNeeds(q1, op1.vUse)
    <3> HIDE DEF q0, q1, first, both
    <3>1. QED
      BY <1>4 DEF GprNeeds, VrNeeds
  <2> HIDE DEF q0, q1, first, both
  <2>2. QED
    BY <1>4, <2>1, BubbleBounds
<1>7. GprNeeds(p, op1.rUse) <= n + m + 1 /\ VrNeeds(p, op1.vUse) <= n + m + 1
  <2> HIDE DEF q0, q1, first, both
  <2>1. /\ \A mask : /\ GprNeeds(p, mask) \in 0..2 /\ VrNeeds(p, mask) \in 0..3
                     /\ GprNeeds(first, mask) \in 0..2 /\ VrNeeds(first, mask) \in 0..3
                     /\ GprNeeds(p, mask) <= GprNeeds(first, mask) + m + 1
                     /\ VrNeeds(p, mask) <= VrNeeds(first, mask) + m + 1
    BY <1>1, <1>4, <1>5, <1>6, NeedsAge
  <2>2. QED
    BY <1>6, <2>1
<1>8. /\ n + m + 1 >= GprNeeds(both, both.current.rRead)
      /\ n + m + 1 >= VrNeeds(both, both.current.vRead)
  <2>1. /\ GprNeeds(both, both.current.rRead) = GprNeeds(p, op0.rUse \cup op1.rUse)
        /\ VrNeeds(both, both.current.vRead) = VrNeeds(p, op0.vUse \cup op1.vUse)
    <3> HIDE DEF q0, q1, first, both
    <3>1. QED
      BY <1>4 DEF GprNeeds, VrNeeds
  <2>2. /\ GprNeeds(p, op0.rUse) \in 0..2 /\ GprNeeds(p, op1.rUse) \in 0..2
        /\ VrNeeds(p, op0.vUse) \in 0..3 /\ VrNeeds(p, op1.vUse) \in 0..3
    BY DEF GprNeeds, VrNeeds
  <2>3. /\ GprNeeds(p, op0.rUse \cup op1.rUse)
             = Greater(GprNeeds(p, op0.rUse), GprNeeds(p, op1.rUse))
        /\ VrNeeds(p, op0.vUse \cup op1.vUse)
             = Greater(VrNeeds(p, op0.vUse), VrNeeds(p, op1.vUse))
    <3>1. \A a, b : /\ GprNeeds(p, a \cup b) = Greater(GprNeeds(p, a), GprNeeds(p, b))
                    /\ VrNeeds(p, a \cup b) = Greater(VrNeeds(p, a), VrNeeds(p, b))
      BY <1>1, NeedsJoin
    <3>2. QED
      BY <3>1, Zenon
  <2>4. m <= n + m + 1
    BY <1>6
  <2> HIDE DEF q0, q1, first, both, m, n
  <2>5. /\ Greater(GprNeeds(p, op0.rUse), GprNeeds(p, op1.rUse)) <= n + m + 1
        /\ Greater(VrNeeds(p, op0.vUse), VrNeeds(p, op1.vUse)) <= n + m + 1
    BY <1>6, <1>7, <2>2, <2>4 DEF Greater
  <2>6. /\ Greater(GprNeeds(p, op0.rUse), GprNeeds(p, op1.rUse)) \in 0..2
        /\ Greater(VrNeeds(p, op0.vUse), VrNeeds(p, op1.vUse)) \in 0..3
    BY <2>2 DEF Greater
  <2>7. QED
    BY <1>6, <2>1, <2>3, <2>5, <2>6
<1>9. Bubbles(both) <= n + m + 2 /\ Bubbles(both) \in 0..3
  <2> HIDE DEF q0, q1, first, both, m, n
  <2>1. n + m + 1 \in Nat /\ n + m + 1 >= 1 /\ (n + m + 1) + 1 = n + m + 2
    BY <1>6
  <2>2. QED
    BY <1>4, <1>8, <2>1, BubbleBounds
<1>10. QED
  <2> HIDE DEF q0, q1, first, both
  <2>1. QED
    BY <1>5, <1>6, <1>9 DEF SlotClocks, first

(* Sharing a slot costs at most one slot over taking two.                  *)
PairStep ==
    \A op0, op1 \in Ops :
        RetirePair(op0, op1) =>
            LET first  == OneSlot(pipeline, op0)
                second == OneSlot(first, op1)
            IN  pipeline'.clocks <= first.clocks + second.clocks + SlotClocks

THEOREM PairCostBounded == Spec => PairCostBound
<1>1. IInv /\ [Next]_vars => [PairStep]_vars
  <2> SUFFICES ASSUME IInv, NEW op0 \in Ops, NEW op1 \in Ops, RetirePair(op0, op1)
               PROVE  LET first == OneSlot(pipeline, op0)
                      IN  pipeline'.clocks
                            <= first.clocks + OneSlot(first, op1).clocks + SlotClocks
    BY DEF PairStep
  <2>1. /\ op0 \in OpInfo /\ op1 \in OpInfo /\ Settled(pipeline)
        /\ pipeline' = PairSlot(pipeline, op0, op1)
    BY OpsAssumption DEF RetirePair, IInv
  <2>2. QED
    BY <2>1, PairCost
<1>2. QED
  BY <1>1, Inductive, PTL DEF Spec, PairCostBound, PairStep

-----------------------------------------------------------------------------
(* The scoreboard.  The mapped state of a pipeline: what end() and stall() *)
(* do to the waiting times and to the loads.                               *)

Left(wait, slots) == IF wait > slots THEN wait - slots ELSE 0

LEMMA EndAges ==
    ASSUME NEW q \in PipelineState
    PROVE  LET n == Bubbles(q)
           IN  /\ \A r : GprWait(end(q), r) =
                     IF r \in q.current.rWrite THEN 2 ELSE Left(GprWait(q, r), n + 1)
               /\ \A v : VrWait(end(q), v) =
                     IF v \in q.current.vWrite THEN 3 ELSE Left(VrWait(q, v), n + 1)
               /\ \A d \in 0..1 : d \in RecentLoads(end(q)) <=>
                     \/ d = 0 /\ q.current.load
                     \/ d >= n + 1 /\ d - (n + 1) \in RecentLoads(q)
<1> DEFINE n == Bubbles(q)
           e == end(q)
<1>1. /\ n \in 0..3
      /\ e.previous[0] = CurrentAsStage(q)
      /\ e.previous[1] = IF 0 < n THEN NoStage ELSE q.previous[0 - n]
      /\ e.previous[2] = IF 1 < n THEN NoStage ELSE q.previous[1 - n]
  BY EndShape
<1>2. /\ e.previous[0].rWrite = q.current.rWrite
      /\ e.previous[0].vWrite = q.current.vWrite
      /\ e.previous[0].load = q.current.load
  <2> HIDE DEF e
  <2>1. QED
    BY <1>1 DEF CurrentAsStage
<1>3. CASE n = 0
  <2>1. e.previous[1] = q.previous[0] /\ e.previous[2] = q.previous[1]
    BY <1>1, <1>3
  <2> HIDE DEF e, n
  <2>2. \A r : GprWait(e, r) =
            IF r \in q.current.rWrite THEN 2 ELSE Left(GprWait(q, r), 1)
    BY <1>2, <2>1 DEF GprWait, Left
  <2>3. \A v : VrWait(e, v) =
            IF v \in q.current.vWrite THEN 3 ELSE Left(VrWait(q, v), 1)
    BY <1>2, <2>1 DEF VrWait, Left
  <2>4. \A d \in 0..1 : d \in RecentLoads(e) <=>
            (d = 0 /\ q.current.load) \/ (d = 1 /\ 0 \in RecentLoads(q))
    BY <1>2, <2>1 DEF RecentLoads
  <2>5. QED
    BY <1>3, <2>2, <2>3, <2>4 DEF e, n
<1>4. CASE n = 1
  <2>1. e.previous[1] = NoStage /\ e.previous[2] = q.previous[0]
    BY <1>1, <1>4
  <2> HIDE DEF e, n
  <2>2. \A r : GprWait(e, r) =
            IF r \in q.current.rWrite THEN 2 ELSE Left(GprWait(q, r), 2)
    BY <1>2, <2>1 DEF GprWait, Left, NoStage
  <2>3. \A v : VrWait(e, v) =
            IF v \in q.current.vWrite THEN 3 ELSE Left(VrWait(q, v), 2)
    BY <1>2, <2>1 DEF VrWait, Left, NoStage
  <2>4. \A d \in 0..1 : d \in RecentLoads(e) <=> (d = 0 /\ q.current.load)
    BY <1>2, <2>1 DEF RecentLoads, NoStage
  <2>5. QED
    BY <1>4, <2>2, <2>3, <2>4 DEF e, n
<1>5. CASE n \in 2..3
  <2>1. e.previous[1] = NoStage /\ e.previous[2] = NoStage
    BY <1>1, <1>5
  <2> HIDE DEF e, n
  <2>2. \A r : /\ GprWait(e, r) = IF r \in q.current.rWrite THEN 2 ELSE 0
               /\ Left(GprWait(q, r), n + 1) = 0
    BY <1>2, <1>5, <2>1 DEF GprWait, Left, NoStage
  <2>3. \A v : /\ VrWait(e, v) = IF v \in q.current.vWrite THEN 3 ELSE 0
               /\ Left(VrWait(q, v), n + 1) = 0
    BY <1>2, <1>5, <2>1 DEF VrWait, Left, NoStage
  <2>4. \A d \in 0..1 : /\ d \in RecentLoads(e) <=> (d = 0 /\ q.current.load)
                        /\ ~(d >= n + 1)
    BY <1>2, <1>5, <2>1 DEF RecentLoads, NoStage
  <2>5. QED
    BY <2>2, <2>3, <2>4 DEF e, n
<1>6. QED
  BY <1>1, <1>3, <1>4, <1>5

LEMMA StallAges ==
    ASSUME NEW p \in PipelineState
    PROVE  /\ \A r : GprWait(stall(p), r) = Left(GprWait(p, r), 1)
           /\ \A v : VrWait(stall(p), v) = Left(VrWait(p, v), 1)
           /\ \A d \in 0..1 : d \in RecentLoads(stall(p)) <=> d = 1 /\ 0 \in RecentLoads(p)
<1>1. /\ stall(p).previous[0] = NoStage
      /\ stall(p).previous[1] = p.previous[0]
      /\ stall(p).previous[2] = p.previous[1]
  BY StallFacts
<1>2. \A r : GprWait(stall(p), r) = Left(GprWait(p, r), 1)
  BY <1>1 DEF GprWait, Left, NoStage
<1>3. \A v : VrWait(stall(p), v) = Left(VrWait(p, v), 1)
  BY <1>1 DEF VrWait, Left, NoStage
<1>4. QED
  BY <1>1, <1>2, <1>3 DEF RecentLoads, NoStage

-----------------------------------------------------------------------------
(* A slot may start after the empty slots in which what it reads becomes   *)
(* ready and its store comes at no forbidden distance; the interlocks find *)
(* the least number of them.                                               *)
Starts(q, bubbles) ==
    /\ \A r \in q.current.rRead : GprWait(q, r) <= bubbles
    /\ \A v \in q.current.vRead : VrWait(q, v) <= bubbles
    /\ q.current.store => \A d \in RecentLoads(q) : d + bubbles # 1

LEMMA StartsByNeeds ==
    ASSUME NEW q \in PipelineState, NEW b \in 0..3
    PROVE  Starts(q, b) <=>
              /\ GprNeeds(q, q.current.rRead) <= b
              /\ VrNeeds(q, q.current.vRead) <= b
              /\ q.current.store => /\ b = 0 => ~q.previous[1].load
                                    /\ b = 1 => ~q.previous[0].load
<1>1. (\A r \in q.current.rRead : GprWait(q, r) <= b) <=> GprNeeds(q, q.current.rRead) <= b
  <2>1. CASE q.current.rRead \cap q.previous[0].rWrite # {}
    BY <2>1 DEF GprWait, GprNeeds
  <2>2. CASE /\ q.current.rRead \cap q.previous[0].rWrite = {}
             /\ q.current.rRead \cap q.previous[1].rWrite # {}
    <3>1. \A r \in q.current.rRead :
              GprWait(q, r) = IF r \in q.previous[1].rWrite THEN 1 ELSE 0
      BY <2>2 DEF GprWait
    <3>2. \E r \in q.current.rRead : r \in q.previous[1].rWrite
      BY <2>2
    <3>3. GprNeeds(q, q.current.rRead) = 1
      BY <2>2 DEF GprNeeds
    <3>4. QED
      BY <3>1, <3>2, <3>3
  <2>3. CASE /\ q.current.rRead \cap q.previous[0].rWrite = {}
             /\ q.current.rRead \cap q.previous[1].rWrite = {}
    BY <2>3 DEF GprWait, GprNeeds
  <2>4. QED
    BY <2>1, <2>2, <2>3
<1>2. (\A v \in q.current.vRead : VrWait(q, v) <= b) <=> VrNeeds(q, q.current.vRead) <= b
  <2>1. CASE q.current.vRead \cap q.previous[0].vWrite # {}
    <3>1. PICK v \in q.current.vRead : VrWait(q, v) = 3
      BY <2>1 DEF VrWait
    <3>2. \A w \in q.current.vRead : VrWait(q, w) \in 0..3
      BY DEF VrWait
    <3>3. VrNeeds(q, q.current.vRead) = 3
      BY <2>1 DEF VrNeeds
    <3>4. QED
      BY <3>1, <3>2, <3>3
  <2>2. CASE /\ q.current.vRead \cap q.previous[0].vWrite = {}
             /\ q.current.vRead \cap q.previous[1].vWrite # {}
    <3>1. PICK v \in q.current.vRead : VrWait(q, v) = 2
      BY <2>2 DEF VrWait
    <3>2. \A w \in q.current.vRead : VrWait(q, w) \in 0..2
      BY <2>2 DEF VrWait
    <3>3. VrNeeds(q, q.current.vRead) = 2
      BY <2>2 DEF VrNeeds
    <3>4. QED
      BY <3>1, <3>2, <3>3
  <2>3. CASE /\ q.current.vRead \cap q.previous[0].vWrite = {}
             /\ q.current.vRead \cap q.previous[1].vWrite = {}
             /\ q.current.vRead \cap q.previous[2].vWrite # {}
    <3>1. PICK v \in q.current.vRead : VrWait(q, v) = 1
      BY <2>3 DEF VrWait
    <3>2. \A w \in q.current.vRead : VrWait(q, w) \in 0..1
      BY <2>3 DEF VrWait
    <3>3. VrNeeds(q, q.current.vRead) = 1
      BY <2>3 DEF VrNeeds
    <3>4. QED
      BY <3>1, <3>2, <3>3
  <2>4. CASE /\ q.current.vRead \cap q.previous[0].vWrite = {}
             /\ q.current.vRead \cap q.previous[1].vWrite = {}
             /\ q.current.vRead \cap q.previous[2].vWrite = {}
    BY <2>4 DEF VrWait, VrNeeds
  <2>5. QED
    BY <2>1, <2>2, <2>3, <2>4
<1>3. (\A d \in RecentLoads(q) : d + b # 1) <=>
          (b = 0 => ~q.previous[1].load) /\ (b = 1 => ~q.previous[0].load)
  BY DEF RecentLoads
<1>4. QED
  BY <1>1, <1>2, <1>3 DEF Starts

LEMMA BubblesAreLeast ==
    ASSUME NEW q \in PipelineState
    PROVE  /\ Bubbles(q) \in 0..3
           /\ Starts(q, Bubbles(q))
           /\ \A fewer \in 0..3 : Starts(q, fewer) => Bubbles(q) <= fewer
<1>1. GprNeeds(q, q.current.rRead) \in 0..2 /\ VrNeeds(q, q.current.vRead) \in 0..3
  BY DEF GprNeeds, VrNeeds
<1>2. Bubbles(q) \in 0..3
  BY BubbleBounds
<1> DEFINE Enough(b) ==
         /\ GprNeeds(q, q.current.rRead) <= b
         /\ VrNeeds(q, q.current.vRead) <= b
         /\ q.current.store => /\ b = 0 => ~q.previous[1].load
                               /\ b = 1 => ~q.previous[0].load
<1>3. Enough(Bubbles(q))
  BY <1>1 DEF Bubbles, StoreNeeds, ReadNeeds, Greater
<1>4. \A fewer \in 0..3 : Enough(fewer) => Bubbles(q) <= fewer
  BY <1>1 DEF Bubbles, StoreNeeds, ReadNeeds, Greater
<1>5. \A b \in 0..3 : Starts(q, b) <=> Enough(b)
  BY StartsByNeeds
<1>6. QED
  <2> HIDE DEF Enough
  <2>1. QED
    BY <1>2, <1>3, <1>4, <1>5

-----------------------------------------------------------------------------
(* The scoreboard's words for the work of a slot.                          *)
LEMMA SameWork ==
    ASSUME NEW p, NEW q, NEW ops, Holding(p, q, ops)
    PROVE  /\ Scoreboard!Reads(ops) = q.current.rRead
           /\ Scoreboard!VReads(ops) = q.current.vRead
           /\ Scoreboard!Stores(ops) <=> q.current.store
           /\ Scoreboard!Writes(ops) = q.current.rWrite
           /\ Scoreboard!VWrites(ops) = q.current.vWrite
           /\ (\E op \in ops : Scoreboard!Load(op)) <=> q.current.load
           /\ (\E op \in ops : Scoreboard!Branch(op)) <=> q.current.branch
<1>1. \A op : /\ Scoreboard!Store(op) <=> Store(op)
              /\ Scoreboard!Load(op) <=> Load(op)
              /\ Scoreboard!Branch(op) <=> Branch(op)
              /\ Scoreboard!Bypass(op) <=> Bypass(op)
  BY DEF Scoreboard!Store, Store, Scoreboard!Load, Load, Scoreboard!Branch, Branch,
         Scoreboard!Bypass, Bypass
<1>2. {o \in ops : ~Scoreboard!Bypass(o)} = {o \in ops : ~Bypass(o)}
  BY <1>1
<1>3. /\ Scoreboard!Reads(ops) = q.current.rRead
      /\ Scoreboard!VReads(ops) = q.current.vRead
      /\ Scoreboard!VWrites(ops) = q.current.vWrite
  BY DEF Holding, Scoreboard!Reads, Scoreboard!VReads, Scoreboard!VWrites
<1>4. Scoreboard!Writes(ops) = q.current.rWrite
  BY <1>2 DEF Holding, Scoreboard!Writes
<1>5. QED
  BY <1>1, <1>3, <1>4 DEF Holding, Scoreboard!Stores

LEMMA LeastOnScoreboard ==
    ASSUME pipeline \in PipelineState, NEW q, NEW ops \in SUBSET OpInfo,
           Holding(pipeline, q, ops)
    PROVE  Bubbles(q) \in 0..3 /\ Scoreboard!LeastBubbles(ops, Bubbles(q))
<1>1. /\ \A r : GprWait(q, r) = GprWait(pipeline, r)
      /\ \A v : VrWait(q, v) = VrWait(pipeline, v)
      /\ RecentLoads(q) = RecentLoads(pipeline)
      /\ q \in PipelineState
  BY DEF Holding, GprWait, VrWait, RecentLoads
<1>2. /\ q.current.rRead \subseteq Gpr /\ q.current.vRead \subseteq Vr
  BY <1>1 DEF PipelineState, CurrentStage
<1>3. \A b \in 0..3 : Scoreboard!CanStart(ops, b) <=> Starts(q, b)
  BY <1>1, <1>2, SameWork DEF Starts, Scoreboard!CanStart, Scoreboard!StoreGap
<1>4. QED
  BY <1>1, <1>3, BubblesAreLeast DEF Scoreboard!LeastBubbles, Scoreboard!VrLatency

(* The waiting times and loads after the slot.                             *)
LEMMA PassOnScoreboard ==
    ASSUME pipeline \in PipelineState, NEW q, NEW ops \in SUBSET OpInfo,
           Holding(pipeline, q, ops), pipeline' = end(q)
    PROVE  Scoreboard!Pass(Bubbles(q) + 1, ops)
<1> DEFINE n == Bubbles(q)
<1>1. /\ \A r : GprWait(q, r) = GprWait(pipeline, r)
      /\ \A v : VrWait(q, v) = VrWait(pipeline, v)
      /\ RecentLoads(q) = RecentLoads(pipeline)
      /\ q \in PipelineState /\ n \in 0..3
  BY EndShape DEF Holding, GprWait, VrWait, RecentLoads
<1>2. \A r \in Gpr : GprWait(pipeline', r) =
          IF r \in q.current.rWrite THEN 2 ELSE Left(GprWait(pipeline, r), n + 1)
  BY <1>1, EndAges
<1>3. \A v \in Vr : VrWait(pipeline', v) =
          IF v \in q.current.vWrite THEN 3 ELSE Left(VrWait(pipeline, v), n + 1)
  BY <1>1, EndAges
<1>4. RecentLoads(pipeline') =
          {d \in 0..1 : \/ d = 0 /\ q.current.load
                        \/ d >= n + 1 /\ d - (n + 1) \in RecentLoads(pipeline)}
  <2>1. \A d \in 0..1 : d \in RecentLoads(pipeline') <=>
            \/ d = 0 /\ q.current.load
            \/ d >= n + 1 /\ d - (n + 1) \in RecentLoads(pipeline)
    BY <1>1, EndAges
  <2>2. RecentLoads(pipeline') \subseteq 0..1
    BY DEF RecentLoads
  <2> HIDE DEF n
  <2>3. QED
    BY <2>1, <2>2
<1>5. QED
  <2> HIDE DEF n
  <2>1. Scoreboard!Pass(n + 1, ops)
    BY <1>2, <1>3, <1>4, SameWork
    DEF Scoreboard!Pass, Scoreboard!GprLatency, Scoreboard!VrLatency,
        Scoreboard!StoreGap, Scoreboard!Less, Left
  <2>2. QED
    BY <2>1 DEF n

(* A slot outside a delay slot.                                            *)
LEMMA SlotOnScoreboard ==
    ASSUME pipeline \in PipelineState, NEW q, NEW ops \in SUBSET OpInfo,
           Holding(pipeline, q, ops), pipeline' = end(q),
           taken' \in BOOLEAN, taken' => q.current.branch
    PROVE  Scoreboard!Slot(ops, Bubbles(q))
<1>1. q \in PipelineState /\ q.clocks = 0 /\ q.current.branch \in BOOLEAN
  BY DEF Holding, PipelineState, CurrentStage
<1>2. Bubbles(q) \in 0..3 /\ Scoreboard!LeastBubbles(ops, Bubbles(q))
  BY LeastOnScoreboard
<1>3. Scoreboard!Pass(Bubbles(q) + 1, ops)
  BY PassOnScoreboard
<1>4. pipeline'.clocks = (Bubbles(q) + 1) * 3
  BY <1>1, <1>2, EndShape
<1>5. /\ pipeline'.singleIssue = q.current.branch
      /\ (\E op \in ops : Scoreboard!Branch(op)) <=> q.current.branch
  BY <1>1, EndFacts, SameWork
<1>6. pipeline'.singleIssue = \E op \in ops : Scoreboard!Branch(op)
  BY <1>1, <1>5
<1>7. taken' \in (IF pipeline'.singleIssue THEN BOOLEAN ELSE {FALSE})
  BY <1>5
<1>8. QED
  BY <1>2, <1>3, <1>4, <1>6, <1>7 DEF Scoreboard!Slot, Scoreboard!SlotClocks

LEMMA SlotMaps ==
    ASSUME Settled(pipeline), Next,
           ~ \E op \in Ops, oddTarget \in BOOLEAN : RetireDelaySlot(op, oddTarget)
    PROVE  Scoreboard!Next
<1>1. pipeline \in PipelineState
  BY DEF Settled
<1>2. ASSUME NEW op \in Ops, RetireOne(op) \/ RetireRedirected(op)
      PROVE  Scoreboard!Next
  <2> DEFINE q == issue(begin(pipeline), op)
  <2>1. op \in OpInfo /\ {op} \in SUBSET OpInfo
    BY OpsAssumption
  <2>2. Holding(pipeline, q, {op}) /\ pipeline' = end(q)
    BY <1>2, <2>1, SlotsHold DEF RetireOne, RetireRedirected, OneSlot
  <2>3. taken' \in BOOLEAN /\ (taken' => Branch(op)) /\ (q.current.branch <=> Branch(op))
    <3>1. taken' \in BOOLEAN /\ (taken' => Branch(op))
      BY <1>2 DEF RetireOne, RetireRedirected
    <3> HIDE DEF q
    <3>2. QED
      BY <2>2, <3>1 DEF Holding
  <2> HIDE DEF q
  <2>4. Bubbles(q) \in 0..3 /\ Scoreboard!Slot({op}, Bubbles(q))
    BY <1>1, <2>1, <2>2, <2>3, SlotOnScoreboard, LeastOnScoreboard
  <2>5. QED
    BY <2>4 DEF Scoreboard!Next, Scoreboard!VrLatency
<1>3. ASSUME NEW op0 \in Ops, NEW op1 \in Ops, RetirePair(op0, op1)
      PROVE  Scoreboard!Next
  <2> DEFINE q == issue(issue(begin(pipeline), op0), op1)
  <2>1. op0 \in OpInfo /\ op1 \in OpInfo /\ {op0, op1} \in SUBSET OpInfo
    BY OpsAssumption
  <2>2. Holding(pipeline, q, {op0, op1}) /\ pipeline' = end(q)
    BY <1>3, <2>1, SlotsHold DEF RetirePair, PairSlot
  <2>3. taken' \in BOOLEAN /\ (taken' => q.current.branch)
    <3>1. taken' \in BOOLEAN /\ (taken' => Branch(op1))
      BY <1>3 DEF RetirePair
    <3> HIDE DEF q
    <3>2. QED
      BY <2>2, <3>1 DEF Holding
  <2> HIDE DEF q
  <2>4. Bubbles(q) \in 0..3 /\ Scoreboard!Slot({op0, op1}, Bubbles(q))
    BY <1>1, <2>1, <2>2, <2>3, SlotOnScoreboard, LeastOnScoreboard
  <2>5. /\ ~pipeline.singleIssue
        /\ ~Scoreboard!Branch(op0)
        /\ Scoreboard!canDualIssue(op0, op1)
    BY <1>3 DEF RetirePair, Branch, Scoreboard!Branch, canDualIssue,
        Scoreboard!canDualIssue, FakeConflict, Scoreboard!FakeConflict,
        Vector, Scoreboard!Vector
  <2>6. QED
    BY <2>4, <2>5 DEF Scoreboard!Next, Scoreboard!VrLatency
<1>4. QED
  BY <1>2, <1>3 DEF Next

(* A delay slot, with the branch bubble behind it.                         *)
LEMMA DelaySlotMaps ==
    ASSUME Settled(pipeline), NEW op \in Ops, NEW oddTarget \in BOOLEAN,
           RetireDelaySlot(op, oddTarget)
    PROVE  Scoreboard!Next
<1> DEFINE q == issue(begin(pipeline), op)
           e == end(q)
           n == Bubbles(q)
<1>1. pipeline \in PipelineState /\ op \in OpInfo /\ {op} \in SUBSET OpInfo
  BY OpsAssumption DEF Settled
<1>2. Holding(pipeline, q, {op})
  BY <1>1, SlotsHold
<1>3. q \in PipelineState /\ q.clocks = 0 /\ q.current.branch = Branch(op)
  <2>1. q.current.branch <=> Branch(op)
    <3> HIDE DEF q
    <3>1. QED
      BY <1>2 DEF Holding
  <2> HIDE DEF q
  <2>2. q \in PipelineState /\ q.clocks = 0 /\ q.current.branch \in BOOLEAN
    BY <1>2 DEF Holding, PipelineState, CurrentStage
  <2>3. QED
    BY <2>1, <2>2 DEF Branch
<1>4. pipeline' = DelaySlotEpilogue(e, oddTarget) /\ taken /\ taken' = FALSE
  BY DEF RetireDelaySlot, OneSlot
<1>5. n \in 0..3 /\ Scoreboard!LeastBubbles({op}, n)
  <2> HIDE DEF q
  <2>1. QED
    BY <1>1, <1>2, LeastOnScoreboard
<1>6. /\ e \in PipelineState /\ e.clocks = 3 * (n + 1)
      /\ e.singleIssue = Branch(op) /\ Settled(e)
  <2> HIDE DEF q
  <2>1. QED
    BY <1>3, EndFacts, EndShape DEF Settled
<1>7. /\ pipeline'.clocks = (n + 2) * 3
      /\ pipeline'.singleIssue = (Branch(op) \/ oddTarget)
      /\ pipeline'.previous = stall(e).previous
  <2> HIDE DEF e, n
  <2>1. pipeline'.clocks = e.clocks + 3 /\ pipeline'.singleIssue = (e.singleIssue \/ oddTarget)
    BY <1>4, <1>6, DelaySlotEpilogueFacts
  <2>2. pipeline'.previous = stall(e).previous
    BY <1>4, <1>6, StallFacts DEF DelaySlotEpilogue, PipelineState
  <2>3. QED
    BY <1>5, <1>6, <2>1, <2>2
<1>8. /\ \A r : GprWait(pipeline', r) = Left(GprWait(e, r), 1)
      /\ \A v : VrWait(pipeline', v) = Left(VrWait(e, v), 1)
      /\ \A d \in 0..1 : d \in RecentLoads(pipeline') <=> d = 1 /\ 0 \in RecentLoads(e)
  <2>1. /\ \A r : GprWait(pipeline', r) = GprWait(stall(e), r)
        /\ \A v : VrWait(pipeline', v) = VrWait(stall(e), v)
        /\ RecentLoads(pipeline') = RecentLoads(stall(e))
    <3> HIDE DEF e
    <3>1. QED
      BY <1>7 DEF GprWait, VrWait, RecentLoads
  <2> HIDE DEF e
  <2>2. QED
    BY <1>6, <2>1, StallAges
<1>9. /\ \A r : GprWait(e, r) =
             IF r \in q.current.rWrite THEN 2 ELSE Left(GprWait(pipeline, r), n + 1)
      /\ \A v : VrWait(e, v) =
             IF v \in q.current.vWrite THEN 3 ELSE Left(VrWait(pipeline, v), n + 1)
      /\ 0 \in RecentLoads(e) <=> q.current.load
  <2> HIDE DEF q
  <2>1. /\ \A r : GprWait(q, r) = GprWait(pipeline, r)
        /\ \A v : VrWait(q, v) = VrWait(pipeline, v)
    BY <1>2 DEF Holding, GprWait, VrWait
  <2>2. QED
    BY <1>3, <1>5, <2>1, EndAges
<1>10. \A r \in Gpr : GprWait(pipeline', r) =
           IF r \in q.current.rWrite THEN 1 ELSE Left(GprWait(pipeline, r), n + 2)
  <2>1. \A r : GprWait(pipeline, r) \in 0..2
    BY DEF GprWait
  <2> HIDE DEF q, e, n
  <2>2. QED
    BY <1>5, <1>8, <1>9, <2>1 DEF Left
<1>11. \A v \in Vr : VrWait(pipeline', v) =
           IF v \in q.current.vWrite THEN 2 ELSE Left(VrWait(pipeline, v), n + 2)
  <2>1. \A v : VrWait(pipeline, v) \in 0..3
    BY DEF VrWait
  <2> HIDE DEF q, e, n
  <2>2. QED
    BY <1>5, <1>8, <1>9, <2>1 DEF Left
<1>12. RecentLoads(pipeline') =
           {d \in 0..1 : \/ d = 1 /\ q.current.load
                         \/ d >= n + 2 /\ d - (n + 2) \in RecentLoads(pipeline)}
  <2>1. RecentLoads(pipeline') \subseteq 0..1
    BY DEF RecentLoads
  <2> HIDE DEF q, e, n
  <2>2. \A d \in 0..1 : ~(d >= n + 2)
    BY <1>5
  <2>3. QED
    BY <1>8, <1>9, <2>1, <2>2
<1>13. /\ Scoreboard!Writes({op}) = q.current.rWrite
       /\ Scoreboard!VWrites({op}) = q.current.vWrite
       /\ Scoreboard!Load(op) <=> q.current.load
       /\ Scoreboard!Branch(op) <=> Branch(op)
  <2>1. (\E o \in {op} : Scoreboard!Load(o)) <=> Scoreboard!Load(op)
    OBVIOUS
  <2> HIDE DEF q
  <2>2. QED
    BY <1>2, <2>1, SameWork DEF Branch, Scoreboard!Branch
<1>14. Scoreboard!DelaySlot(op, n)
  <2> HIDE DEF q, e, n
  <2>1. pipeline'.singleIssue \in (IF Scoreboard!Branch(op) THEN {TRUE} ELSE BOOLEAN)
    <3>1. Branch(op) \in BOOLEAN
      BY DEF Branch
    <3>2. QED
      BY <1>7, <1>13, <3>1
  <2>2. /\ [r \in Gpr |-> GprWait(pipeline', r)] =
              [r \in Gpr |-> IF r \in Scoreboard!Writes({op}) THEN 1
                             ELSE Left(GprWait(pipeline, r), n + 2)]
        /\ [v \in Vr |-> VrWait(pipeline', v)] =
              [v \in Vr |-> IF v \in Scoreboard!VWrites({op}) THEN 2
                            ELSE Left(VrWait(pipeline, v), n + 2)]
    BY <1>10, <1>11, <1>13
  <2>3. [r \in Gpr |-> GprWait(pipeline, r)]' =
            [r \in Gpr |->
                IF r \in Scoreboard!Writes({op}) THEN Scoreboard!GprLatency - 1
                ELSE Scoreboard!Less([x \in Gpr |-> GprWait(pipeline, x)][r], n + 2)]
    BY <2>2 DEF Scoreboard!GprLatency, Scoreboard!Less, Left
  <2>4. [v \in Vr |-> VrWait(pipeline, v)]' =
            [v \in Vr |->
                IF v \in Scoreboard!VWrites({op}) THEN Scoreboard!VrLatency - 1
                ELSE Scoreboard!Less([x \in Vr |-> VrWait(pipeline, x)][v], n + 2)]
    BY <2>2 DEF Scoreboard!VrLatency, Scoreboard!Less, Left
  <2>5. RecentLoads(pipeline)' =
            {d \in 0..Scoreboard!StoreGap :
                \/ d = 1 /\ Scoreboard!Load(op)
                \/ d >= n + 2 /\ d - (n + 2) \in RecentLoads(pipeline)}
    BY <1>12, <1>13 DEF Scoreboard!StoreGap
  <2>6. pipeline.clocks' = (n + 2) * Scoreboard!SlotClocks
    BY <1>7 DEF Scoreboard!SlotClocks
  <2>7. QED
    BY <1>4, <1>5, <2>1, <2>3, <2>4, <2>5, <2>6 DEF Scoreboard!DelaySlot
<1>15. QED
  BY <1>5, <1>14 DEF Scoreboard!Next, Scoreboard!VrLatency

(* For every set of operations and registers: the interlocks of end()      *)
(* together insert the least number of empty slots that clears them all,   *)
(* and issue in order (Pipeline::end, readGPR, readVR, store).             *)
THEOREM PipelineImplementsScoreboard == Spec => ImplementsScoreboard
<1>1. Init => Scoreboard!Init
  <2>1. /\ \A r : GprWait(InitPipeline, r) = 0
        /\ \A v : VrWait(InitPipeline, v) = 0
        /\ RecentLoads(InitPipeline) = {}
        /\ InitPipeline.singleIssue = FALSE /\ InitPipeline.clocks = 0
    BY DEF InitPipeline, NoStage, GprWait, VrWait, RecentLoads
  <2>2. QED
    BY <2>1 DEF Init, Scoreboard!Init
<1>2. IInv /\ [Next]_vars => [Scoreboard!Next]_Scoreboard!vars
  <2>1. ASSUME UNCHANGED vars PROVE UNCHANGED Scoreboard!vars
    BY <2>1 DEF vars, Scoreboard!vars
  <2>2. ASSUME IInv, Next PROVE Scoreboard!Next
    BY <2>2, SlotMaps, DelaySlotMaps DEF IInv
  <2>3. QED
    BY <2>1, <2>2
<1>3. QED
  BY <1>1, <1>2, Inductive, PTL DEF Spec, ImplementsScoreboard, Scoreboard!Spec
=============================================================================
