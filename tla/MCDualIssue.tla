---------------------------- MODULE MCDualIssue ----------------------------
(* Every opcode, with register fields that conflict in every position.     *)
EXTENDS DualIssue

Fields(ops, rss, rts, rds, sas, funcs) ==
    [op : ops, rs : rss, rt : rts, rd : rds, sa : sas, func : funcs]

VectorWords ==
    UNION {Fields({18}, {16}, {v[1]}, {v[2]}, {v[3]}, 0..63) :
              v \in {<<1, 2, 3>>, <<2, 1, 3>>, <<2, 3, 1>>}}

MoveWords == Fields({18}, {0, 2, 4, 6}, {1}, 0..3, {0}, {0})
                \cup Fields({18}, {1, 9}, {1}, {1}, {0}, {0})

VectorMemory == Fields({50, 58}, {1}, {1, 9}, 0..12, {0}, {0})

ScalarWords ==
    Fields({0}, {1}, {2}, {3}, {0}, 0..63)
        \cup Fields({1}, {1}, 0..31, {0}, {0}, {0})
        \cup Fields({16}, 0..31, {1}, {4, 12}, {0}, {0})
        \cup Fields((2..63) \ {16, 18, 50, 58}, {1}, {2}, {3}, {0}, {0})

MCWords == VectorWords \cup MoveWords \cup VectorMemory \cup ScalarWords
MCPairWords == VectorWords \cup MoveWords \cup VectorMemory
=============================================================================
