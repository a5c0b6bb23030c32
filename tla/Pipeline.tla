------------------------------ MODULE Pipeline ------------------------------
(***************************************************************************)
(* The RSP's issue pipeline: struct RSP::OpInfo, RSP::canDualIssue and     *)
(* struct RSP::Pipeline of src/src/rsp/rsp.hpp, as operators on records.   *)
(*                                                                         *)
(* A 32-bit register mask is the set of the registers whose bits are set.  *)
(* The two debugging fields `address' and `instruction' are left out: no   *)
(* timing decision reads them.                                             *)
(***************************************************************************)
EXTENDS Naturals

CONSTANTS
    Gpr,    \* scalar registers (bits of OpInfo::r masks)
    Zero,   \* register 0, which reads as zero and cannot be a hazard
    Vr,     \* vector registers (bits of OpInfo::v masks)
    Vc      \* vector control registers VCO, VCC, VCE (bits of OpInfo::vc)

ASSUME ZeroAssumption == Zero \in Gpr

-----------------------------------------------------------------------------
(* OpInfo: what the decoder says about an instruction.                     *)

Flags == {"Load", "Store", "Branch", "Vector", "VNopGroup", "Bypass"}

OpInfo ==
    [flags : SUBSET Flags, vfake : SUBSET Vr,
     rUse  : SUBSET Gpr,   rDef  : SUBSET Gpr,
     vUse  : SUBSET Vr,    vDef  : SUBSET Vr,
     vcUse : SUBSET Vc,    vcDef : SUBSET Vc]

Load(op)   == "Load"   \in op.flags
Store(op)  == "Store"  \in op.flags
Branch(op) == "Branch" \in op.flags
Vector(op) == "Vector" \in op.flags
Bypass(op) == "Bypass" \in op.flags

(* Mutant of FakeConflict: the VNOP exception is missing.                  *)
FakeConflict_Always(op0, op1) == op0.vDef \cap op1.vfake # {}

(* A VNOP as the second operation ignores the misdecoded ("fake") uses,    *)
(* unless the first is an MTC2 or an LTV.                                  *)
FakeConflict(op0, op1) ==
    /\ "VNopGroup" \in op0.flags \/ "VNopGroup" \notin op1.flags
    /\ op0.vDef \cap op1.vfake # {}

(* Mutant of canDualIssue: VCO, VCC and VCE are not compared.              *)
canDualIssue_NoControl(op0, op1) ==
    /\ Vector(op0) # Vector(op1)
    /\ op0.vDef \cap (op1.vUse \cup op1.vDef) = {}
    /\ ~FakeConflict(op0, op1)

canDualIssue(op0, op1) ==
    /\ Vector(op0) # Vector(op1)
    /\ op0.vDef  \cap (op1.vUse  \cup op1.vDef)  = {}
    /\ op0.vcDef \cap (op1.vcUse \cup op1.vcDef) = {}
    /\ ~FakeConflict(op0, op1)

-----------------------------------------------------------------------------
(* The pipeline: the slot being filled and the three slots before it.      *)

Stage == [load : BOOLEAN, rWrite : SUBSET Gpr, vWrite : SUBSET Vr]

NoStage == [load |-> FALSE, rWrite |-> {}, vWrite |-> {}]

CurrentStage ==
    [load : BOOLEAN, rWrite : SUBSET Gpr, vWrite : SUBSET Vr,
     store : BOOLEAN, branch : BOOLEAN, rRead : SUBSET Gpr, vRead : SUBSET Vr]

NoCurrent ==
    [load |-> FALSE, rWrite |-> {}, vWrite |-> {},
     store |-> FALSE, branch |-> FALSE, rRead |-> {}, vRead |-> {}]

PipelineState ==
    [clocks : Nat, singleIssue : BOOLEAN,
     previous : [0..2 -> Stage], current : CurrentStage]

InitPipeline ==
    [clocks |-> 0, singleIssue |-> FALSE,
     previous |-> [i \in 0..2 |-> NoStage], current |-> NoCurrent]

SlotClocks == 3

(* Mutant of Advance: one stage too many.                                  *)
Advance_Longer(p, s) ==
    [p EXCEPT !.clocks = @ + SlotClocks,
              !.previous = [i \in 0..3 |-> IF i = 0 THEN s ELSE p.previous[i-1]]]

(* One slot passes: the history moves back by one and s enters it.         *)
Advance(p, s) ==
    [clocks      |-> p.clocks + SlotClocks,
     singleIssue |-> p.singleIssue,
     previous    |-> [i \in 0..2 |-> IF i = 0 THEN s ELSE p.previous[i-1]],
     current     |-> p.current]

(* Mutant of begin: the clocks of the slot before are kept.                *)
begin_NoReset(p) == p

begin(p) == [p EXCEPT !.clocks = 0]

stall(p) == Advance(p, NoStage)

(* Mutant of issue: a write to $zero is a hazard.                          *)
issue_ZeroHazard(p, op) ==
    [p EXCEPT !.current =
        [load   |-> @.load   \/ Load(op),
         rWrite |-> @.rWrite \cup (IF Bypass(op) THEN {} ELSE op.rDef),
         vWrite |-> @.vWrite \cup op.vDef,
         store  |-> @.store  \/ Store(op),
         branch |-> @.branch \/ Branch(op),
         rRead  |-> @.rRead  \cup op.rUse,
         vRead  |-> @.vRead  \cup op.vUse]]

issue(p, op) ==
    [p EXCEPT !.current =
        [load   |-> @.load   \/ Load(op),
         rWrite |-> @.rWrite \cup (IF Bypass(op) THEN {} ELSE op.rDef \ {Zero}),
         vWrite |-> @.vWrite \cup op.vDef,
         store  |-> @.store  \/ Store(op),
         branch |-> @.branch \/ Branch(op),
         rRead  |-> @.rRead  \cup op.rUse,
         vRead  |-> @.vRead  \cup op.vUse]]

readGPR(p, mask) ==
    IF mask \cap p.previous[0].rWrite # {} THEN stall(stall(p))
    ELSE IF mask \cap p.previous[1].rWrite # {} THEN stall(p)
    ELSE p

readVR(p, mask) ==
    IF mask \cap p.previous[0].vWrite # {} THEN stall(stall(stall(p)))
    ELSE IF mask \cap p.previous[1].vWrite # {} THEN stall(stall(p))
    ELSE IF mask \cap p.previous[2].vWrite # {} THEN stall(p)
    ELSE p

(* Mutant of store: it waits until the load has left the history.          *)
store_LoadGone(p) ==
    IF ~p.previous[1].load THEN p ELSE stall(stall(stall(p)))

(* The loop `while(previous[1].load) stall();': one or two stalls end it,  *)
(* because a stall moves an empty stage in (StoreLoopExits proves it).     *)
store(p) ==
    IF ~p.previous[1].load THEN p
    ELSE IF ~p.previous[0].load THEN stall(p)
    ELSE stall(stall(p))

CurrentAsStage(p) ==
    [load |-> p.current.load, rWrite |-> p.current.rWrite,
     vWrite |-> p.current.vWrite]

(* Mutant of Interlock: the store loop comes before the register reads.    *)
Interlock_StoreFirst(p) ==
    LET q == IF p.current.store THEN store(p) ELSE p
    IN  readVR(readGPR(q, p.current.rRead), p.current.vRead)

(* The interlocks of one slot, in the order end() takes them.              *)
Interlock(p) ==
    LET q == readVR(readGPR(p, p.current.rRead), p.current.vRead)
    IN  IF p.current.store THEN store(q) ELSE q

(* Mutant of end: a branch does not reserve the next slot.                 *)
end_NoBranch(p) ==
    LET q == Advance(Interlock(p), CurrentAsStage(p))
    IN  [q EXCEPT !.current = NoCurrent]

end(p) ==
    LET q == Advance(Interlock(p), CurrentAsStage(p))
    IN  [clocks      |-> q.clocks,
         singleIssue |-> p.current.branch,
         previous    |-> q.previous,
         current     |-> NoCurrent]

(* What RSP::instruction does to the pipeline for one operation, and for   *)
(* a pair that shares the slot.                                            *)
OneSlot(p, op)       == end(issue(begin(p), op))
PairSlot(p, op0, op1) == end(issue(issue(begin(p), op0), op1))

(* RSP::instructionEpilogue after a delay slot: the branch bubble; a       *)
(* target in the second half of a 64-bit word cannot start a pair.         *)
DelaySlotEpilogue(p, oddTarget) ==
    [stall(p) EXCEPT !.singleIssue = @ \/ oddTarget]
=============================================================================
