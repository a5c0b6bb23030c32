---------------------------- MODULE VectorHalves ----------------------------
(***************************************************************************)
(* Two builds of the vector unit run the same instructions on the same     *)
(* operands: one compiles the scalar half of interpreter-vpu.cpp, the      *)
(* other the SSE4.1 half.  Both start from the state after rsp_init.       *)
(***************************************************************************)
EXTENDS SimdLane

VARIABLES scalar, simd  \* the lane of either build

vars == <<scalar, simd>>

Cleared ==
    [h |-> 0, m |-> 0, l |-> 0, vcol |-> 0, vcoh |-> 0, vccl |-> 0, vcch |-> 0,
     vce |-> 0, vd |-> 0]

Init == scalar = Cleared /\ simd = Cleared

Execute(op, s, t) ==
    /\ scalar' = interpreterVU(op, scalar, s, t)
    /\ simd' = Simd(op, simd, s, t)

(* Programs made of some of the instructions.                              *)
Run(ops) == \E op \in ops, s, t \in Number : Execute(op, s, t)

Next == Run(Instructions \ {"VAND", "VOR", "VXOR"})    \* one form in both halves

Spec == Init /\ [][Next]_vars

(* No program tells the two builds apart: after every instruction the      *)
(* accumulator, the control registers and the destination are the same.    *)
HalvesAgree == scalar = simd
=============================================================================
