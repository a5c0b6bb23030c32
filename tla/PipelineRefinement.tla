------------------------- MODULE PipelineRefinement -------------------------
(***************************************************************************)
(* The properties of the pipeline, and the mapping of its slot history to  *)
(* the scoreboard it implements.                                           *)
(***************************************************************************)
EXTENDS PipelineUnit

(* The youngest slot that still writes a register says how long to wait.   *)
GprWait(p, r) ==
    IF r \in p.previous[0].rWrite THEN 2
    ELSE IF r \in p.previous[1].rWrite THEN 1
    ELSE 0

VrWait(p, v) ==
    IF v \in p.previous[0].vWrite THEN 3
    ELSE IF v \in p.previous[1].vWrite THEN 2
    ELSE IF v \in p.previous[2].vWrite THEN 1
    ELSE 0

RecentLoads(p) == {d \in 0..1 : p.previous[d].load}

Scoreboard == INSTANCE PipelineScoreboard WITH
    rWait <- [r \in Gpr |-> GprWait(pipeline, r)],
    vWait <- [v \in Vr |-> VrWait(pipeline, v)],
    loads <- RecentLoads(pipeline),
    alone <- pipeline.singleIssue,
    cost  <- pipeline.clocks

(* The interlocks of end(), taken one after the other (scalar reads, then  *)
(* vector reads, then the store loop), insert exactly the least number of  *)
(* bubbles that clears all of them together, and issue in order.           *)
ImplementsScoreboard == Scoreboard!Spec

-----------------------------------------------------------------------------
(* The bounds of the interlock: a slot of instruction() costs 3 to 12      *)
(* clocks, and 3 more when a taken branch's delay slot ends.  rsp_step     *)
(* advances the clock by nothing else.                                     *)
SlotCosts == {n * SlotClocks : n \in 1..4}

CostBound ==
    [][pipeline'.clocks \in SlotCosts \cup
          (IF taken /\ ~taken' THEN {5 * SlotClocks} ELSE {})]_vars

(* A delay slot never shares its slot with a second operation: whoever     *)
(* sees the branch taken finds singleIssue set, so that the one epilogue   *)
(* between the two halves of a pair cannot be the one that jumps.          *)
DelaySlotAlone == taken => pipeline.singleIssue

(* Sharing a slot may cost clocks -- a vector operation's bubbles can push *)
(* a store onto the load distance it would have missed alone -- but never  *)
(* more than one slot over its two operations issued one after the other.  *)
PairCostBound ==
    [][\A op0, op1 \in Ops :
          RetirePair(op0, op1) =>
              LET first  == OneSlot(pipeline, op0)
                  second == OneSlot(first, op1)
              IN  pipeline'.clocks <= first.clocks + second.clocks + SlotClocks]_vars

(* The hazards the interlocks exist for, read off the history that end()   *)
(* leaves: no slot still in it writes what the slot that just entered      *)
(* reads, and a store has not come two slots after a load.  Later          *)
(* interlocks must not undo this for earlier ones, nor a pair for its      *)
(* halves.  (That a vector result needs one slot more than the history     *)
(* shows is ImplementsScoreboard's.)                                       *)
NoHazardLeft(ops, p) ==
    /\ \A op \in ops : \A d \in 1..2 : op.rUse \cap p.previous[d].rWrite = {}
    /\ \A op \in ops : \A d \in 1..2 : op.vUse \cap p.previous[d].vWrite = {}
    /\ (\E op \in ops : Store(op)) => ~p.previous[2].load

HazardFree ==
    [][/\ \A op \in Ops :
             RetireOne(op) \/ RetireRedirected(op) => NoHazardLeft({op}, pipeline')
       /\ \A op0, op1 \in Ops :
             RetirePair(op0, op1) => NoHazardLeft({op0, op1}, pipeline')]_vars
=============================================================================
