---------------------------- MODULE MCPtyTerminal ----------------------------
EXTENDS PtyTerminal, TLC
CONSTANTS k1, k2, v1, v2, healer
MCViews == {v1, v2}
MCOneView == {v1}
MCChunkSize == [n \in 1 .. MaxOut |-> IF n = 1 THEN 2 ELSE 1]
ViewSymmetry == Permutations(MCViews)
==============================================================================
