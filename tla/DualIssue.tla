------------------------------ MODULE DualIssue ------------------------------
(***************************************************************************)
(* The two words RSP::instruction looks at, their decoding, and what their *)
(* execution really touches: is the hazard information, from which the     *)
(* pipeline's timing and the pairing are computed, true to the operations? *)
(***************************************************************************)
EXTENDS Interpreter

CONSTANT FetchedWords   \* the words IMEM may hold

ASSUME FetchedWordsAssumption == FetchedWords \subseteq Word

VARIABLES
    first,      \* the word at pc
    second      \* <<>>, or the word at pc + 4 in a sequence of its own

vars == <<first, second>>

Init ==
    /\ first \in FetchedWords
    /\ second = <<>>

(* The second word is looked at unless the first is a branch.              *)
FetchSecond(w) ==
    /\ second = <<>>
    /\ ~Branch(decoderEXECUTE(first))
    /\ second' = <<w>>
    /\ UNCHANGED first

Next == \E w \in FetchedWords : FetchSecond(w)

Spec == Init /\ [][Next]_vars

-----------------------------------------------------------------------------
(* The operations the N64 documents: not those that decoder.cpp and        *)
(* interpreter.cpp list by number only, as INVALID, SPECIAL_INVALID or     *)
(* VZERO, and not the aliases of control register 2.                       *)
Documented(w) ==
    /\ w.op = 0 => w.func \notin {1, 5, 10, 11, 12} \cup (14..31)
                                   \cup {40, 41} \cup (44..63)
    /\ w.op = 18 /\ w.rs < 16  => ~(w.rs \in {2, 6} /\ w.rd % 4 = 3)
    /\ w.op = 18 /\ w.rs >= 16 => w.func \notin VZEROx

(* The decoder tells the pipeline at least about everything the            *)
(* interpreter does: each register read is a use, each register written a  *)
(* def, each access to DMEM a load or a store, each possible jump a branch *)
(* (and nothing else is one).  A missing use is a missed interlock.        *)
Covers(info, effects) ==
    /\ effects.rRead  \subseteq info.rUse  /\ effects.rWrite  \subseteq info.rDef
    /\ effects.vRead  \subseteq info.vUse  /\ effects.vWrite  \subseteq info.vDef
    /\ effects.vcRead \subseteq info.vcUse /\ effects.vcWrite \subseteq info.vcDef
    /\ effects.dmemRead  => Load(info)
    /\ effects.dmemWrite => Store(info)
    /\ effects.branches <=> Branch(info)

DecoderCovers ==
    Documented(first) => Covers(decoderEXECUTE(first), interpreterEXECUTE(first))

(* "second op cannot read/write vector registers written by the first",    *)
(* "the same logic applies to vector control registers": the two halves of *)
(* a pair are independent in what they really do, and one of them only     *)
(* uses the scalar unit's registers, so that the hardware may run them at  *)
(* once.                                                                   *)
Independent(a, b) ==
    /\ a.vWrite  \cap (b.vRead  \cup b.vWrite)  = {}
    /\ a.vcWrite \cap (b.vcRead \cup b.vcWrite) = {}
    /\ a.rWrite  \cap (b.rRead  \cup b.rWrite)  = {}
    /\ ~(a.dmemWrite /\ b.dmemRead) /\ ~(a.dmemWrite /\ b.dmemWrite)

Pair(w0, w1) == canDualIssue(decoderEXECUTE(w0), decoderEXECUTE(w1))

PairsIndependent ==
    second # <<>> /\ Documented(first) /\ Documented(second[1])
        /\ Pair(first, second[1])
    => Independent(interpreterEXECUTE(first), interpreterEXECUTE(second[1]))

(* The same for every word a program can hold, documented or not.          *)
AllPairsIndependent ==
    second # <<>> /\ Pair(first, second[1])
    => Independent(interpreterEXECUTE(first), interpreterEXECUTE(second[1]))

(* "such false conflicts only occur with VNOP if the preceding instruction *)
(* is MTC2 or LTV": of all words that write the register a VNOP misreads,  *)
(* only these two are kept from sharing a slot with it.                    *)
VnopConflicts ==
    second # <<>> =>
        LET d0 == decoderEXECUTE(first)
            d1 == decoderEXECUTE(second[1])
            isVnop == second[1].op = 18 /\ second[1].rs >= 16 /\ second[1].func = VNOP
            isMtc2 == first.op = 18 /\ first.rs = 4
            isLtv  == first.op = 50 /\ first.rd = LTV
        IN  isVnop /\ ~Vector(d0) =>
                (canDualIssue(d0, d1) <=>
                    ~(isMtc2 \/ isLtv) \/ VD(second[1]) \notin d0.vDef)
=============================================================================
