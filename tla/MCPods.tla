------------------------------- MODULE MCPods -------------------------------
(***************************************************************************)
(* Instances of Pods for TLC: two specs that differ in a compared and in   *)
(* an uncompared field.                                                    *)
(***************************************************************************)
EXTENDS Pods

CONSTANTS a, b

Plain == [names |-> 1, ports |-> 1]
Renamed == [names |-> 2, ports |-> 2]

(* A TExitedRecord has nothing of the spec, a TServer is not compared. *)
MCSpecsOf == [k \in Kinds |-> IF k = "TEndpoint" THEN {Plain, Renamed} ELSE {Plain}]
MCPodsOf == [k \in Kinds |-> IF k = "TExitedRecord" THEN {a, b} ELSE {a}]
MCEditsOf == [k \in Kinds |-> IF k = "TExitedRecord" THEN 1 ELSE 2]
=============================================================================
