-------------------------- MODULE ScalarSequences --------------------------
(***************************************************************************)
(* ScalarUnit under names of its own, so that it can stand beside another  *)
(* component: beside ScalarMemory in MCScalar, and beside the vector unit, *)
(* whose lemmas about Width it shares, in MoveProofs.                      *)
(***************************************************************************)
EXTENDS Width

CONSTANTS ScalarIdioms,     \* names of the sequences to run
          ScalarHighs,      \* upper words of the operands
          ScalarZeros       \* what the host may write to $0

VARIABLES registers, firstWords, secondWords, sequence, reached

Scalar == INSTANCE ScalarUnit WITH
    Idioms <- ScalarIdioms, Highs <- ScalarHighs, Zeros <- ScalarZeros,
    r <- registers, a <- firstWords, b <- secondWords, idiom <- sequence, pc <- reached

(* Compiler sequences of scalar instructions compute what they are for     *)
(* (interpreter-ipu.cpp, ADDU .. XORI).                                    *)
SequencesCompute == Scalar!SequencesCompute
=============================================================================
