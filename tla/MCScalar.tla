------------------------------ MODULE MCScalar ------------------------------
(***************************************************************************)
(* The scalar unit for TLC: its loads and stores (ScalarMemory) and its    *)
(* computational instructions (ScalarUnit).  The two share no variable, so *)
(* that interleaving them adds nothing: a behaviour chooses the part that  *)
(* runs, and the other keeps one of its initial states.                    *)
(***************************************************************************)
EXTENDS ScalarMemory, ScalarSequences

VARIABLE part

memoryVars   == vars
computedVars == <<registers, firstWords, secondWords, sequence, reached>>

(* Two words of DMEM and bytes of one bit: values matter to loads and      *)
(* stores only through the sign bit.                                       *)
MCAddresses == 0 .. 2 * Size - 1

(* Registers of four bits, so that a half has two; every lower word, and   *)
(* upper words at the ends of the signed and of the unsigned range.        *)
MCHighs == {0, Highest, Lowest, Ones}
MCZeros == {0, 5}
MCIdioms == {"sum", "difference", "less", "rotate", "magnitude", "negate", "least",
             "sign", "shift", "constant", "address", "saturated"}

IdleComputed ==
    /\ registers = [k \in 0 .. 7 |-> 0]
    /\ firstWords = [hi |-> 0, lo |-> 0] /\ secondWords = firstWords
    /\ sequence = "sum" /\ reached = 0

Start ==
    /\ part \in {"memory", "computed"}
    /\ Init
    /\ IF part = "computed" THEN Scalar!Init ELSE IdleComputed

Step ==
    /\ UNCHANGED part
    /\ \/ part = "memory" /\ Next /\ UNCHANGED computedVars
       \/ part = "computed" /\ Scalar!Next /\ UNCHANGED memoryVars

ScalarSpec == Start /\ [][Step]_<<part, memoryVars, computedVars>>

(* States that differ in the history alone have the same successors.       *)
WithoutHistory == <<part, data, r, computedVars>>
=============================================================================
