------------------------------ MODULE MCProxy ------------------------------
(* Instances of Proxy: backend 1 is the default route, backend 2 the named one. *)
EXTENDS Proxy, TLC

TwoRoutes == [n \in {"creative"} |-> 2]

ClientSymmetry == Permutations(Clients)
=============================================================================
