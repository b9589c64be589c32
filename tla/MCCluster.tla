----------------------------- MODULE MCCluster -----------------------------
(***************************************************************************)
(* Processes whose names and addresses may coincide: "d" has the name of   *)
(* "c" and the address of "b".                                             *)
(***************************************************************************)
EXTENDS Cluster

Names == [a |-> 1, b |-> 2, c |-> 3, d |-> 3]
Places == [a |-> "x", b |-> "y", c |-> "z", d |-> "y"]
Name(p) == Names[p]
Place(p) == Places[p]
=============================================================================
