---------------------------- MODULE RoutesProofs ----------------------------
(***************************************************************************)
(* What Config::validate rules out, for any number of routes and any       *)
(* spelling of their names.                                                *)
(***************************************************************************)
EXTENDS Routes, TLAPS

\* An accepted configuration has passed validate.
AcceptedInv == verdict = "accepted" => validate

\* The invariant of the only step there is.
LEMMA Acceptance == Spec => []AcceptedInv
<1>1. Init => AcceptedInv
  BY DEF Init, AcceptedInv
<1>2. AcceptedInv /\ [Next]_vars => AcceptedInv'
  <2> SUFFICES ASSUME AcceptedInv, [Next]_vars
               PROVE  AcceptedInv'
    OBVIOUS
  <2>1. UNCHANGED <<listen, default, routes>>
    BY DEF Next, load, Loaded, vars
  <2>2. validate' <=> validate
    BY <2>1 DEF validate, FitsLength, NamesDiffer, AddressesDiffer, Interactive
  <2>3. verdict' = "accepted" => validate
    BY DEF Next, load, Loaded, vars, AcceptedInv
  <2> QED
    BY <2>2, <2>3 DEF AcceptedInv
<1> QED
  BY <1>1, <1>2, PTL DEF Spec

\* In an accepted configuration every route is reached by its own name: the map
\* by normalised names kept every one of them.
THEOREM Reachable == Spec => []RoutesReachable
<1>1. AcceptedInv => RoutesReachable
  <2> SUFFICES ASSUME AcceptedInv, verdict = "accepted", NEW n \in DOMAIN routes
               PROVE  resolve(n) = {routes[n]}
    BY DEF RoutesReachable
  <2>1. \A m \in DOMAIN routes : normalize(m) = normalize(n) <=> m = n
    BY DEF AcceptedInv, validate, NamesDiffer
  <2>2. {m \in DOMAIN routes : normalize(m) = normalize(n)} = {n}
    BY <2>1
  <2>3. Entries(n) = {routes[n]}
    BY <2>2 DEF Entries
  <2> QED
    BY <2>3 DEF resolve
<1> QED
  BY <1>1, Acceptance, PTL

\* In an accepted configuration the slot of the server a name resolves to is that
\* server's own: the map by address kept every backend.
THEOREM Unambiguous == Spec => []SlotsUnambiguous
<1>1. AcceptedInv => SlotsUnambiguous
  <2> SUFFICES ASSUME AcceptedInv, verdict = "accepted", NEW n \in Name, NEW s \in resolve(n)
               PROVE  SlotOf(s.backend) = {s}
    BY DEF SlotsUnambiguous
  <2> DEFINE servers == {routes[m] : m \in DOMAIN routes} \cup {default}
  <2>1. s \in servers
    BY DEF resolve, Entries
  <2>2. \A t \in servers : t.backend = s.backend => t = s
    BY <2>1 DEF AcceptedInv, validate, AddressesDiffer
  <2> QED
    BY <2>1, <2>2 DEF SlotOf
<1> QED
  BY <1>1, Acceptance, PTL
=============================================================================
