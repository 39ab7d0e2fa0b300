--------------------------- MODULE MC_MetaxSync ----------------------------
(* Model-checking instance of MetaxSync: a record v1 with a later version *)
(* v2, and a record x whose serialisation raises.                         *)
EXTENDS MetaxSync, TLC

CONSTANTS v1, v2, x, w1, w2, h

MCPrev == [r \in Records |-> IF r = v2 THEN v1 ELSE NoRecord]

MCSymmetry == Permutations(Workers)
=============================================================================
