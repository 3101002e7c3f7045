------------------------------ MODULE Backend ------------------------------
(***************************************************************************)
(* The contract of the trait Backend (infra/mod.rs) between the proxy and  *)
(* a provider, for the adapters of one address in turn: one is started,    *)
(* becomes ready or fails, and is let go after a stop, or once its server  *)
(* is known to have exited.  Whichever way it is let go, its server goes   *)
(* with it.                                                                *)
(***************************************************************************)
VARIABLES
    call,       \* none, booting (start, wait_until_ready), ready or stopping
    server      \* none, up, or exited without anybody having noticed

vars == <<call, server>>

Init == call = "none" /\ server = "none"

start ==
    /\ call = "none" /\ server = "none"
    /\ call' = "booting" /\ server' = "up"

wait_until_ready == call = "booting" /\ call' = "ready" /\ UNCHANGED server

\* start or wait_until_ready returns an error, or the caller gives up.
Fail == call = "booting" /\ call' = "none" /\ server' = "none"

\* Only the answer Ok(true) has consequences.
has_exited ==
    /\ call = "ready" /\ server = "exited"
    /\ call' = "none" /\ server' = "none"

stop == call = "ready" /\ call' = "stopping" /\ UNCHANGED server

Stopped == call = "stopping" /\ call' = "none" /\ server' = "none"

ServerExits == server = "up" /\ server' = "exited" /\ UNCHANGED call

Next == start \/ wait_until_ready \/ Fail \/ has_exited \/ stop \/ Stopped \/ ServerExits

Spec == Init /\ [][Next]_vars
=============================================================================
