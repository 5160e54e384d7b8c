----------------------------- MODULE MCWorkload -----------------------------
(***************************************************************************)
(* Instances of Workload for TLC: for each kind specs that differ in every *)
(* class of fields it tells apart or does not carry over, and one that     *)
(* asks for another kind.                                                  *)
(***************************************************************************)
EXTENDS Workload

Local == [name |-> "data", local |-> TRUE, meta |-> 0]
Foreign == [name |-> "disk", local |-> FALSE, meta |-> 0]

Plain == [daemon |-> FALSE, replicas |-> 1, strategy |-> 1, policy |-> 1, image |-> 1, node |-> 1,
          volume |-> "rw", ports |-> <<"a">>, claims |-> <<Local>>]

Released == [Plain EXCEPT !.replicas = 0, !.image = 2, !.node = 2, !.policy = 2, !.volume = "ro"]

Bought == [Plain EXCEPT !.image = 2, !.ports = <<"c">>, !.claims = <<Foreign>>]

OnEveryNode == [Plain EXCEPT !.daemon = TRUE, !.strategy = 2, !.volume = "none", !.claims = <<>>]

OnNewNodes == [OnEveryNode EXCEPT !.strategy = 1, !.image = 2, !.ports = <<"a", "b">>]

MCSpecsOf ==
    [k \in Kinds |->
        CASE k = "StatefulSet" -> {Plain, Released, Bought, OnEveryNode}
          [] k = "DaemonSet" -> {OnEveryNode, OnNewNodes, Plain}
          [] k = "Service" -> {Plain, Bought, OnEveryNode}]
=============================================================================
