------------------------------- MODULE Routes -------------------------------
(***************************************************************************)
(* Config::validate and the tables built from a configuration it accepted  *)
(* (config.rs, and the backend map of Proxy::run): the route table by      *)
(* normalised name and the lifecycle slots by backend address.             *)
(*                                                                         *)
(* Both tables are collected into maps, which silently keep one of several *)
(* entries with the same key; validate has to rule that out.  A name is    *)
(* its letters, whether it is written in upper case, and how many dots it  *)
(* ends in.                                                                *)
(***************************************************************************)
EXTENDS Naturals, FiniteSets

CONSTANTS
    Letters,        \* names without case and trailing dots
    LetterCount,    \* how long each of them is
    MAX_SERVER_NAME,
    MaxDots,        \* bound: trailing dots of a name
    MaxRoutes,      \* bound: named routes of a configuration
    Addresses       \* socket addresses a configuration may name: host and port

ASSUME NamesAssumption ==
    /\ LetterCount \in [Letters -> Nat] /\ MAX_SERVER_NAME \in Nat
    /\ MaxDots \in Nat /\ MaxRoutes \in Nat /\ \A a \in Addresses : a.port \in Nat

Name ==
    {n \in [letters : Letters, upper : BOOLEAN, dots : 0..MaxDots] :
        LetterCount[n.letters] = 0 => ~n.upper}
Server == [backend : Addresses, command : BOOLEAN, forward_stdin : BOOLEAN]

VARIABLES
    listen,     \* config.listen
    default,    \* config.backend and config.server
    routes,     \* config.routes: a map from some names to servers
    verdict     \* unread, or what load made of it

vars == <<listen, default, routes, verdict>>

\* strip_suffix('.') and to_ascii_lowercase
normalize(name) ==
    [letters |-> name.letters, upper |-> FALSE,
     dots |-> IF name.dots > 0 THEN name.dots - 1 ELSE 0]

-----------------------------------------------------------------------------
(* validate *)

\* The length of the name as it is written, with all its dots.
FitsLength(name) == LetterCount[name.letters] + name.dots \in 1..MAX_SERVER_NAME

\* Faulty variant: names are compared as they are written.
RawNamesDiffer == TRUE

\* names.insert(normalize(name), name)
NamesDiffer ==
    \A n, m \in DOMAIN routes : n # m => normalize(n) # normalize(m)

\* Faulty variant: the default backend is not in the map of addresses.
RouteAddressesDiffer ==
    \A n, m \in DOMAIN routes : n # m => routes[n].backend # routes[m].backend

\* backends starts with the default and gets the address of every route.
AddressesDiffer ==
    /\ \A n \in DOMAIN routes : routes[n].backend # default.backend
    /\ \A n, m \in DOMAIN routes : n # m => routes[n].backend # routes[m].backend

Interactive ==
    Cardinality({n \in DOMAIN routes : routes[n].forward_stdin})
        + (IF default.forward_stdin THEN 1 ELSE 0)

validate ==
    /\ listen # default.backend /\ listen.port # 0
    /\ default.backend.port # 0 /\ default.command
    /\ \A n \in DOMAIN routes :
        /\ FitsLength(n) /\ routes[n].command
        /\ routes[n].backend.port # 0 /\ routes[n].backend # listen
    /\ NamesDiffer /\ AddressesDiffer
    /\ Interactive <= 1

-----------------------------------------------------------------------------
(* The tables *)

\* What the route table may hold for a name: one of the routes with its key.
Entries(name) ==
    {routes[m] : m \in {m \in DOMAIN routes : normalize(m) = normalize(name)}}

resolve(name) == IF Entries(name) = {} THEN {default} ELSE Entries(name)

\* Whose server may end up in the slot of an address.
SlotOf(address) ==
    {s \in {routes[n] : n \in DOMAIN routes} \cup {default} : s.backend = address}

-----------------------------------------------------------------------------
Init ==
    /\ listen \in Addresses /\ default \in Server
    /\ \E names \in {ns \in SUBSET Name : Cardinality(ns) <= MaxRoutes} :
        routes \in [names -> Server]
    /\ verdict = "unread"

load ==
    /\ verdict = "unread"
    /\ verdict' = IF validate THEN "accepted" ELSE "rejected"
    /\ UNCHANGED <<listen, default, routes>>

Loaded == verdict # "unread" /\ UNCHANGED vars

Next == load \/ Loaded

Spec == Init /\ [][Next]_vars

-----------------------------------------------------------------------------
\* In an accepted configuration every named route is reached by its own name,
\* however it is written: none is hidden behind another or by the default.
RoutesReachable ==
    verdict = "accepted" =>
        \A n \in DOMAIN routes : resolve(n) = {routes[n]}

\* A name resolves to a server whose slot, found by its address, is its own:
\* the wake of one route never starts the server of another.
SlotsUnambiguous ==
    verdict = "accepted" =>
        \A n \in Name : \A s \in resolve(n) : SlotOf(s.backend) = {s}
=============================================================================
