----------------------------- MODULE MCRateLimit -----------------------------
(* RateLimit with three addresses in a map of two.                           *)
EXTENDS RateLimit, TLC

CONSTANTS a, b, c

ThreeAddrs == {a, b, c}
Symmetry   == Permutations(Addrs)
==============================================================================
