---------------------------- MODULE MC_Transpose ----------------------------
(* Model-checking instance of Transpose: x of rank 0..3, every node shape *)
(* (one or two inputs, in place or not, with or without IArgs), every     *)
(* axis vector with negative entries, and two executions of the node.     *)
EXTENDS Transpose

MCMaxRank == 3
MCMaxExec == 2
MCDimValues == {1, 3}
=============================================================================
