------------------------------ MODULE MCTConfig ------------------------------
(***************************************************************************)
(* Instances of TConfig for TLC.                                           *)
(***************************************************************************)
EXTENDS TConfig, TLC

CONSTANTS r1, r2

Symmetry == Permutations(Request)
=============================================================================
