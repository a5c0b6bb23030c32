---------------------------- MODULE PipelineUnit ----------------------------
(***************************************************************************)
(* The pipeline as a state machine: RSP::instruction of rsp.cpp seen from  *)
(* struct RSP::Pipeline only.  Which instructions arrive, and whether a    *)
(* branch is taken, is chosen freely from Ops; RspCore decides it.         *)
(***************************************************************************)
EXTENDS Pipeline

CONSTANT Ops    \* the decoded operations that may arrive

ASSUME OpsAssumption == Ops \subseteq OpInfo

VARIABLES
    pipeline,   \* RSP::pipeline
    taken       \* a taken branch: the next operation is its delay slot

vars == <<pipeline, taken>>

TypeOK ==
    /\ pipeline \in PipelineState
    /\ taken \in BOOLEAN

Init ==
    /\ pipeline = InitPipeline
    /\ taken = FALSE

(* instruction() with one operation outside a delay slot.  The following   *)
(* word (any one of Ops) did not qualify for the second half of the slot,  *)
(* or was not looked at.                                                   *)
RetireOne(op) ==
    /\ ~taken
    /\ \/ pipeline.singleIssue
       \/ Branch(op)
       \/ \E next \in Ops : ~canDualIssue(op, next)
    /\ pipeline' = OneSlot(pipeline, op)
    /\ taken' \in (IF Branch(op) THEN BOOLEAN ELSE {FALSE})

(* instruction() with two operations in one slot.                          *)
RetirePair(op0, op1) ==
    /\ ~taken
    /\ ~pipeline.singleIssue
    /\ ~Branch(op0)
    /\ canDualIssue(op0, op1)
    /\ pipeline' = PairSlot(pipeline, op0, op1)
    /\ taken' \in (IF Branch(op1) THEN BOOLEAN ELSE {FALSE})

(* instruction() in a delay slot: the epilogue adds the branch bubble.  A  *)
(* branch in a delay slot that is taken replaces the pending one, and then *)
(* this epilogue is the Take case (RetireRedirected).                      *)
RetireDelaySlot(op, oddTarget) ==
    /\ taken
    /\ pipeline' = DelaySlotEpilogue(OneSlot(pipeline, op), oddTarget)
    /\ taken' = FALSE

RetireRedirected(op) ==
    /\ taken
    /\ Branch(op)
    /\ pipeline' = OneSlot(pipeline, op)
    /\ UNCHANGED taken

Next ==
    \/ \E op \in Ops : RetireOne(op)
    \/ \E op0, op1 \in Ops : RetirePair(op0, op1)
    \/ \E op \in Ops, oddTarget \in BOOLEAN : RetireDelaySlot(op, oddTarget)
    \/ \E op \in Ops : RetireRedirected(op)

Spec == Init /\ [][Next]_vars
=============================================================================
