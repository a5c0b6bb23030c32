----------------------------- MODULE MCPipeline -----------------------------
(* A small instruction mix for the pipeline: one scalar and two vector     *)
(* registers that conflict, one of each hazard the decoder can report.     *)
EXTENDS PipelineRefinement

D == INSTANCE Decoder

w(op, rs, rt, rd, sa, func) ==
    [op |-> op, rs |-> rs, rt |-> rt, rd |-> rd, sa |-> sa, func |-> func]

Program ==
    { w(35,  9, 8, 0, 0,  0),    \* LW    $8, 0($9)
      w(35,  9, 0, 0, 0,  0),    \* LW    $0, 0($9)
      w( 9,  8, 8, 0, 0,  0),    \* ADDIU $8, $8, imm
      w(43,  9, 8, 0, 0,  0),    \* SW    $8, 0($9)
      w( 5,  8, 0, 0, 0,  0),    \* BNE   $8, $0, imm
      w(18,  4, 8, 1, 0,  0),    \* MTC2  $8, $v1
      w(18,  0, 8, 2, 0,  0),    \* MFC2  $8, $v2
      w(58,  9, 1, 4, 0,  0),    \* SQV   $v1, 0($9)
      w(18, 16, 1, 1, 2, 16),    \* VADD  $v2, $v1, $v1
      w(18, 16, 2, 1, 1, 48),    \* VRCP  $v1[1], $v2
      w(18, 16, 0, 0, 1, 55) }   \* VNOP (misread as a use of $v1)

MCGpr == {0, 8, 9}
MCVr  == {1, 2}
MCOps ==
    LET info(i) == D!decoderEXECUTE(i)
    IN  {[info(i) EXCEPT !.vUse  = @ \cap MCVr, !.vfake = @ \cap MCVr] : i \in Program}
=============================================================================
