------------------------- MODULE MC_ExecutionEngine -------------------------
(* Instantiates ExecutionEngine for TLC: orders and the free-lock marker   *)
(* are model values given in the .cfg files.                               *)
EXTENDS ExecutionEngine, TLC

CONSTANTS o1, o2, o3

MCOrders2 == {o1, o2}
MCOrders3 == {o1, o2, o3}

OrderSymmetry == Permutations(Orders)
=============================================================================
