----------------------------- MODULE MCRelayHub -----------------------------
(* Small instances of RelayHub for TLC: the creator and two more           *)
(* connections, each of which may join or resume.                          *)
EXTENDS HubGuarantees, TLC

CONSTANTS host0, a, b

ConnsThree == {host0, a, b}

\* The connections other than the creator's are interchangeable.
Symmetry == Permutations(Conns \ {Creator})
=============================================================================
