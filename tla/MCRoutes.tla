------------------------------ MODULE MCRoutes ------------------------------
(* Configurations of up to two named routes. *)
EXTENDS Routes

\* Names of no letter and of one.
Lengths == [l \in {"", "a"} |-> IF l = "" THEN 0 ELSE 1]

\* Four addresses for the proxy and three backends, and one without a port.
SomeAddresses ==
    {[host |-> "any", port |-> 1], [host |-> "local", port |-> 1],
     [host |-> "local", port |-> 2], [host |-> "local", port |-> 3],
     [host |-> "local", port |-> 0]}
=============================================================================
