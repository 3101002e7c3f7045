------------------------------ MODULE MCRelay ------------------------------
(* Instances of Relay: backend 1 is the default route, backend 2 the named one. *)
EXTENDS Relay

TwoRoutes == [n \in {"creative"} |-> 2]
=============================================================================
