------------------------------ MODULE MCMemory ------------------------------
(* Two actors over an arena of nine units, seeded as roots of eight and *)
(* one: nothing coalesces across the seam.                                  *)
EXTENDS Memory

CONSTANTS r1, r2
MCTakeOrders == {0, 1}
MCWindow == {1, 2}
MCOps == (r1 :> 2) @@ (r2 :> 1)
MCStackAt == (r1 :> 8) @@ (r2 :> 0)
=============================================================================
