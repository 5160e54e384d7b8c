---------------------------- MODULE MCTImageBuild ----------------------------
(***************************************************************************)
(* Instances of TImageBuild for TLC.                                       *)
(***************************************************************************)
EXTENDS TImageBuild, TLC

CONSTANTS t1, t2, t3, r1

Symmetry == Permutations(Task)
=============================================================================
