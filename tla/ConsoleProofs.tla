--------------------------- MODULE ConsoleProofs ---------------------------
(***************************************************************************)
(* The pipe protocol of Console, for any number of servers and chunks.     *)
(***************************************************************************)
EXTENDS Console, TLAPS

\* The forwarding task holds a pipe exactly while it writes and puts it back.
HolderInv == (pipe # None) <=> at \in {"write", "put"}

\* A server is numbered when it is spawned and attached only after that.
FreshInv ==
    /\ \A p \in {stdin, pipe, attachedTo} \ {None} :
           p <= started /\ (adapter = "starting" => p # started)
    /\ alive \subseteq 1..started
    /\ adapter # "none" => started \in Servers

\* The counter tells whether the pipe that is held is still the current one.
GenerationInv ==
    pipe # None =>
        /\ seen <= generation
        /\ seen = generation => pipe = attachedTo /\ stdin = None
        /\ seen < generation => pipe # attachedTo

\* A write fails only on a server that is gone, and gone for good.
OutcomeInv == at = "put" /\ ~outcome => pipe \notin alive

Inv ==
    /\ TypeOK /\ HolderInv /\ FreshInv /\ GenerationInv /\ OutcomeInv
    /\ OnlyCurrentPipe /\ PipeNotLost

\* With nothing attached and nothing taken the invariant holds.
LEMMA InvInitially == Init => Inv
<1> SUFFICES ASSUME Init PROVE Inv
  OBVIOUS
<1> USE ConsoleAssumption DEF Init
<1>1. TypeOK
  <2>1. started \in 0..MaxStarts /\ alive \in SUBSET Servers
    OBVIOUS
  <2>2. generation \in Nat /\ seen \in Nat /\ incoming \in Nat /\ typed \in Nat
    OBVIOUS
  <2> QED
    BY <2>1, <2>2 DEF TypeOK
<1>2. FreshInv
  BY DEF FreshInv
<1>3. HolderInv /\ GenerationInv /\ OutcomeInv /\ OnlyCurrentPipe /\ PipeNotLost
  BY DEF HolderInv, GenerationInv, OutcomeInv, OnlyCurrentPipe, PipeNotLost
<1> QED
  BY <1>1, <1>2, <1>3 DEF Inv

\* Every step of the reader, the forwarding task and the adapters keeps it.
LEMMA InvStep == Inv /\ [Next]_vars => Inv'
<1> SUFFICES ASSUME Inv, [Next]_vars
             PROVE  Inv'
  OBVIOUS
<1> USE ConsoleAssumption
<1> USE DEF Inv, TypeOK, HolderInv, FreshInv, GenerationInv, OutcomeInv,
            OnlyCurrentPipe, PipeNotLost, Servers
<1>1. CASE ReadTerminal
  BY <1>1 DEF ReadTerminal, mutex, forwarder, server
<1>2. CASE TerminalEnds
  BY <1>2 DEF TerminalEnds, mutex, forwarder, server
<1>3. CASE Receive
  BY <1>3 DEF Receive, mutex, server
<1>4. CASE ChannelClosed
  BY <1>4 DEF ChannelClosed, mutex, terminal, server
<1>5. CASE TakeNothing
  BY <1>5 DEF TakeNothing, mutex, terminal, server
<1>6. CASE TakePipe
  <2>1. TypeOK' /\ HolderInv'
    BY <1>6 DEF TakePipe, ReleaseLock, terminal, server
  <2>2. FreshInv'
    BY <1>6 DEF TakePipe, terminal, server
  <2>3. GenerationInv' /\ OutcomeInv' /\ OnlyCurrentPipe' /\ PipeNotLost'
    BY <1>6 DEF TakePipe, terminal, server
  <2> QED
    BY <2>1, <2>2, <2>3
<1>7. ASSUME NEW ok \in BOOLEAN, Write(ok)
      PROVE  Inv'
  BY <1>7 DEF Write, mutex, terminal, server
<1>8. CASE PutBack
  <2>1. stdin' = stdin \/ (stdin' = pipe /\ generation = seen)
    BY <1>8 DEF PutBack, Stale, DropStale
  <2>2. TypeOK' /\ HolderInv'
    BY <1>8, <2>1 DEF PutBack, terminal, server
  <2>3. FreshInv' /\ GenerationInv' /\ OutcomeInv' /\ OnlyCurrentPipe'
    BY <1>8, <2>1 DEF PutBack, terminal, server
  <2>4. PipeNotLost'
    BY <1>8 DEF PutBack, Stale, DropStale, terminal, server
  <2> QED
    BY <2>2, <2>3, <2>4
<1>9. CASE Spawn
  BY <1>9 DEF Spawn, mutex, forwarder, terminal
<1>10. CASE attach
  BY <1>10 DEF attach, replace, forwarder, terminal
<1>11. CASE Stop
  BY <1>11 DEF Stop, mutex, forwarder, terminal
<1>12. CASE detach
  BY <1>12 DEF detach, replace, forwarder, terminal
<1>13. CASE Stopped \/ ServerExits \/ DropAdapter
  <2>1. /\ alive' \subseteq alive /\ adapter' \in {adapter, "none"}
        /\ UNCHANGED <<mutex, forwarder, terminal, started, attachedTo>>
    BY <1>13 DEF Stopped, ServerExits, DropAdapter
  <2> QED
    BY <2>1 DEF mutex, forwarder, terminal
<1>14. CASE UNCHANGED vars
  BY <1>14 DEF vars, mutex, forwarder, terminal, server
<1> QED
  BY <1>1, <1>2, <1>3, <1>4, <1>5, <1>6, <1>7, <1>8, <1>9, <1>10, <1>11, <1>12,
     <1>13, <1>14
  DEF Next, Forwarding, Stopping, AtRest

\* The inductive invariant, with its account of generations, is never broken.
THEOREM Invariance == Spec => []Inv
<1> QED
  BY InvInitially, InvStep, PTL DEF Spec

\* Types, generations included, hold however attaches, detaches and writes interleave.
THEOREM TypeCorrect == Spec => []TypeOK
<1>1. Inv => TypeOK
  BY DEF Inv
<1> QED
  BY <1>1, Invariance, PTL

\* Console input never goes to a server that was detached or replaced.
THEOREM CurrentPipe == Spec => []OnlyCurrentPipe
<1>1. Inv => OnlyCurrentPipe
  BY DEF Inv
<1> QED
  BY <1>1, Invariance, PTL

\* A running, attached server never loses its console.
THEOREM PipeKept == Spec => []PipeNotLost
<1>1. Inv => PipeNotLost
  BY DEF Inv
<1> QED
  BY <1>1, Invariance, PTL
=============================================================================
