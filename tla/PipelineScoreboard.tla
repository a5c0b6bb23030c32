------------------------- MODULE PipelineScoreboard -------------------------
(***************************************************************************)
(* What struct RSP::Pipeline promises: in-order issue, one slot at a time, *)
(* where a slot starts after the least number of bubbles for which         *)
(*   - every register it reads has its result ready, and                   *)
(*   - it does not store exactly two slots after a load.                   *)
(* There is no history of slots here, only what is still being waited for. *)
(***************************************************************************)
EXTENDS Pipeline

CONSTANT Ops

VARIABLES
    rWait,      \* rWait[r]: bubbles until scalar register r can be read
    vWait,      \* vWait[v]: bubbles until vector register v can be read
    loads,      \* how many slots before the last one the recent loads were
    alone,      \* the next slot takes a single operation
    cost,       \* clocks the last instruction() charged
    taken       \* the next slot is a delay slot

vars == <<rWait, vWait, loads, alone, cost, taken>>

GprLatency == 2     \* a scalar result not bypassed is late by two slots
VrLatency  == 3     \* a vector result is late by three slots
StoreGap   == 1     \* the load distance (see loads) a store must not meet

Init ==
    /\ rWait = [r \in Gpr |-> 0]
    /\ vWait = [v \in Vr |-> 0]
    /\ loads = {}
    /\ alone = FALSE
    /\ cost = 0
    /\ taken = FALSE

(* The work of a slot: everything its one or two operations ask for.       *)
Reads(ops)  == UNION {op.rUse : op \in ops}
VReads(ops) == UNION {op.vUse : op \in ops}
Stores(ops) == \E op \in ops : Store(op)
Writes(ops) == UNION {op.rDef \ {Zero} : op \in {o \in ops : ~Bypass(o)}}
VWrites(ops) == UNION {op.vDef : op \in ops}

CanStart(ops, bubbles) ==
    /\ \A r \in Reads(ops)  : rWait[r] <= bubbles
    /\ \A v \in VReads(ops) : vWait[v] <= bubbles
    /\ Stores(ops) => \A d \in loads : d + bubbles # StoreGap

LeastBubbles(ops, bubbles) ==
    /\ CanStart(ops, bubbles)
    /\ \A fewer \in 0..VrLatency : CanStart(ops, fewer) => bubbles <= fewer

Less(wait, slots) == IF wait > slots THEN wait - slots ELSE 0

(* n slots go by, of which the last does the work of ops.                  *)
Pass(n, ops) ==
    /\ rWait' = [r \in Gpr |-> IF r \in Writes(ops) THEN GprLatency
                                                     ELSE Less(rWait[r], n)]
    /\ vWait' = [v \in Vr |-> IF v \in VWrites(ops) THEN VrLatency
                                                     ELSE Less(vWait[v], n)]
    /\ loads' = {d \in 0..StoreGap :
                    \/ d = 0 /\ \E op \in ops : Load(op)
                    \/ d >= n /\ d - n \in loads}

Slot(ops, bubbles) ==
    /\ LeastBubbles(ops, bubbles)
    /\ Pass(bubbles + 1, ops)
    /\ cost' = (bubbles + 1) * SlotClocks
    /\ alone' = \E op \in ops : Branch(op)
    /\ taken' \in (IF alone' THEN BOOLEAN ELSE {FALSE})

(* The delay slot is followed by the branch bubble, which does no work.    *)
DelaySlot(op, bubbles) ==
    /\ taken
    /\ LeastBubbles({op}, bubbles)
    /\ rWait' = [r \in Gpr |-> IF r \in Writes({op}) THEN GprLatency - 1
                                                      ELSE Less(rWait[r], bubbles + 2)]
    /\ vWait' = [v \in Vr |-> IF v \in VWrites({op}) THEN VrLatency - 1
                                                      ELSE Less(vWait[v], bubbles + 2)]
    /\ loads' = {d \in 0..StoreGap :
                    \/ d = 1 /\ Load(op)
                    \/ d >= bubbles + 2 /\ d - (bubbles + 2) \in loads}
    /\ cost' = (bubbles + 2) * SlotClocks
    /\ alone' \in (IF Branch(op) THEN {TRUE} ELSE BOOLEAN)
    /\ taken' = FALSE

Next ==
    \E bubbles \in 0..VrLatency :
        \/ \E op \in Ops : Slot({op}, bubbles)
        \/ \E op0, op1 \in Ops :
               /\ ~alone
               /\ ~Branch(op0)
               /\ canDualIssue(op0, op1)
               /\ Slot({op0, op1}, bubbles)
        \/ \E op \in Ops : DelaySlot(op, bubbles)

Spec == Init /\ [][Next]_vars
=============================================================================
