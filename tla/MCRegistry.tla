------------------------------ MODULE MCRegistry ------------------------------
(* Registry with two session ids and two hubs, of the same id or not.      *)
EXTENDS Registry

CONSTANTS s1, s2, h1, h2

TwoSids == {s1, s2}
TwoHubs == {h1, h2}
=============================================================================
