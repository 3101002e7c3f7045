------------------------------ MODULE OnDemand ------------------------------
(***************************************************************************)
(* What sleepytale promises, without timers, ticks or tasks: a server runs *)
(* only while it is wanted, players are only ever on a server that is up,  *)
(* a server is taken down on purpose only when nobody plays on it, and an  *)
(* address is not booted again before its previous server is down.         *)
(***************************************************************************)
CONSTANTS Backends, Clients, None

VARIABLES
    server,     \* per backend: down, booting, up or stopping
    player      \* per client: the backend it plays on, or None

vars == <<server, player>>

Becomes(b, state) == server' = [server EXCEPT ![b] = state]
Leaves(cs) == player' = [c \in Clients |-> IF c \in cs THEN None ELSE player[c]]
Joins(cs, b) ==
    player' = [c \in Clients |-> IF c \in cs /\ player[c] = None THEN b ELSE player[c]]

PlayersOn(b) == {c \in Clients : player[c] = b}

Init ==
    /\ server = [b \in Backends |-> "down"]
    /\ player = [c \in Clients |-> None]

Wake(b) == server[b] = "down" /\ Becomes(b, "booting") /\ UNCHANGED player

\* Everybody who waited for the boot gets in, or some do.
Open(b) ==
    /\ server[b] = "booting" /\ Becomes(b, "up")
    /\ \E cs \in SUBSET Clients : Joins(cs, b)

Join(c, b) == server[b] = "up" /\ Joins({c}, b) /\ UNCHANGED server

Leave(cs) == Leaves(cs) /\ UNCHANGED server

Fail(b) == server[b] = "booting" /\ Becomes(b, "down") /\ UNCHANGED player

Crash(b) ==
    /\ server[b] = "up" /\ Becomes(b, "down")
    /\ Leaves(PlayersOn(b))

\* A server is taken down only when nobody is on it.
Retire(b) ==
    /\ server[b] \in {"up", "booting"} /\ PlayersOn(b) = {}
    /\ Becomes(b, "stopping") /\ UNCHANGED player

Stopped(b) == server[b] = "stopping" /\ Becomes(b, "down") /\ UNCHANGED player

\* The proxy exits: what was up has been stopped; unfinished boots are ended.
Halt ==
    /\ \A b \in Backends : server[b] \in {"down", "booting"}
    /\ server' = [b \in Backends |-> "down"]
    /\ UNCHANGED player

Next ==
    \/ \E b \in Backends :
        \/ Wake(b) \/ Open(b) \/ Fail(b) \/ Crash(b) \/ Retire(b) \/ Stopped(b)
        \/ \E c \in Clients : Join(c, b)
    \/ \E cs \in SUBSET Clients : Leave(cs)
    \/ Halt

Spec == Init /\ [][Next]_vars
=============================================================================
