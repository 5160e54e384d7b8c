--------------------------- MODULE MCLocalVolume ---------------------------
(***************************************************************************)
(* Instances of LocalVolume for TLC. Under "Delete" the agent removes      *)
(* files only until it has seen the storage class, and nothing else        *)
(* depends on the policy: one claim will do there.                         *)
(***************************************************************************)
EXTENDS LocalVolume

CONSTANTS a, b

MCClaimsOf == [p \in Policies |-> IF p = "Retain" THEN {a, b} ELSE {a}]
=============================================================================
