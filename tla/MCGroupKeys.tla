----------------------------- MODULE MCGroupKeys -----------------------------
(* GroupKeys with two or three members.                                    *)
EXTENDS GroupKeys, TLC

CONSTANTS h, a, b, c

TwoMembers   == {a, b}
ThreeMembers == {a, b, c}
Symmetry     == Permutations(Members)
=============================================================================
