----------------------------- MODULE MCMuxEvents -----------------------------
(* MuxEvents with two callers and up to three connections.                 *)
EXTENDS MuxEvents

CONSTANTS say1, say2, run1, run2, run3

TwoCallers == {say1, say2}
ThreeRuns  == {run1, run2, run3}
=============================================================================
