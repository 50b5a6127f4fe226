--------------------------- MODULE MC_SlonikXact ---------------------------
EXTENDS SlonikXact, TLC

CONSTANTS c1, c2, c3, c4, r1, r2, r3

MC_Cmd == {c1, c2, c3, c4}
MC_ReqCmd == <<r1, r2, r3>>
MC_Symmetry == Permutations(MC_Cmd)
=============================================================================
