-------------------------- MODULE ProxyRefinement --------------------------
(***************************************************************************)
(* Proxy implements OnDemand, for every set of backends and clients, every *)
(* route table and every value of the timeouts.                            *)
(***************************************************************************)
EXTENDS ProxyProofs

\* Steps that touch neither a session nor what a server looks like from outside.
Hidden == UNCHANGED <<serverState, sessionBackend>>

Simulated == Promise!Next \/ Hidden

\* What serverState amounts to while the invariant holds: a server without a
\* lifecycle, a startup task and a stop in progress is down.
controlState ==
    [b \in Backends |->
        IF parked = "stop" /\ cur = b THEN "stopping"
        ELSE IF lifecycle[b] = "Running" THEN "up"
        ELSE IF task[b] # "idle" THEN "booting" ELSE "down"]

\* No server runs without an owner.
LEMMA StateIsControl == ASSUME Inv, Inv' PROVE /\ serverState = controlState
                                               /\ serverState' = controlState'
<1>1. serverState = controlState
  BY DEF Inv, TypeOK, Structure, LifecycleInv, ProcInv, Joinable, serverState, controlState
<1>2. serverState' = controlState'
  BY DEF Inv, TypeOK, Structure, LifecycleInv, ProcInv, Joinable, serverState, controlState
<1> QED
  BY <1>1, <1>2

\* Every server is down and nobody plays.
LEMMA InitRefines == Init => Promise!Init
  BY RoutesAssumption DEF Init, Promise!Init, serverState

\* A datagram is a Join of its client, a Wake of its target or hidden.
LEMMA DatagramRefines ==
    ASSUME Inv, Inv', NEW c \in Clients, NEW n \in Names \cup {None}, NEW i \in BOOLEAN,
           HandleDatagram(c, n, i)
    PROVE  Simulated
<1> DEFINE b == Target(c, n)
<1>1. b \in Backends /\ phase = "serve" /\ parked = "no"
  BY TargetType DEF Inv, Structure, ControlInv, TypeOK, HandleDatagram
<1> HIDE DEF b
<1>2. CASE ForwardDatagram(c, b)
  <2>1. UNCHANGED serverState
    BY StateIsControl, <1>2 DEF ForwardDatagram, controlState, managed, startup, main
  <2>2. serverState[b] = "up"
    BY StateIsControl, <1>1, <1>2 DEF ForwardDatagram, controlState
  <2>3. PICK bound \in SUBSET {c} : session_for({c}, b, bound)
    BY <1>2 DEF ForwardDatagram
  <2>4. CASE bound = {c}
    <3>1. Promise!Joins({c}, b)
      BY <2>3, <2>4 DEF session_for, PinOrKeep, Promise!Joins
    <3> QED
      BY <1>1, <2>1, <2>2, <3>1 DEF Promise!Join, Promise!Next, Simulated
  <2>5. CASE bound = {}
    BY <2>1, <2>3, <2>5
    DEF session_for, PinOrKeep, Simulated, Hidden, Inv, TypeOK
  <2> QED
    BY <2>4, <2>5
<1>3. CASE KnockOnSleeping(c, b)
  <2>1. serverState[b] = "down"
    BY StateIsControl, <1>1, <1>3 DEF KnockOnSleeping, controlState, Inv, Structure, LifecycleInv
  <2>2. serverState' = [serverState EXCEPT ![b] = "booting"]
    BY StateIsControl, <1>1, <1>3 DEF KnockOnSleeping, controlState, main, Inv, TypeOK
  <2> QED
    BY <1>1, <1>3, <2>1, <2>2
    DEF KnockOnSleeping, sessions, Promise!Wake, Promise!Becomes, Promise!Next, Simulated
<1>4. CASE HoldWhileWaking(c, b)
  BY StateIsControl, <1>4 DEF HoldWhileWaking, controlState, sessions, startup, main, Simulated, Hidden
<1>5. CASE DropDatagram(b)
  BY StateIsControl, <1>5 DEF DropDatagram, controlState, vars, managed, sessions, startup, main,
              Simulated, Hidden
<1> QED
  BY <1>2, <1>3, <1>4, <1>5 DEF HandleDatagram, b

\* The reaper and the end of the select loop are Leave steps.
LEMMA DropRefines ==
    ASSUME Inv, Inv', TickStart \/ BeginShutdown
    PROVE  Simulated
<1>1. PICK cs \in SUBSET Clients : DropSessions(cs)
  BY DEF TickStart, BeginShutdown, Expired
<1>2. UNCHANGED serverState
  BY StateIsControl DEF TickStart, BeginShutdown, controlState, managed, startup
<1> QED
  BY <1>1, <1>2
  DEF DropSessions, Promise!Leave, Promise!Leaves, Promise!Next, Simulated

\* A pass over the backends opens, fails, retires and buries servers.
LEMMA TickRefines ==
    ASSUME Inv, Inv', NEW b \in Backends, Tick(b)
    PROVE  Simulated
<1> USE DEF Simulated
<1>1. CASE SettleReady(b)
  <2>1. parked = "no" /\ serverState[b] = "booting"
    BY StateIsControl, <1>1 DEF SettleReady, Settling, controlState, Inv, Structure, ControlInv, TypeOK
  <2>2. serverState' = [serverState EXCEPT ![b] = "up"]
    BY StateIsControl, <1>1, <2>1 DEF SettleReady, controlState, Inv, TypeOK
  <2>3. PICK bound \in SUBSET held[b] : session_for(held[b], b, bound)
    BY <1>1 DEF SettleReady, deliver_held
  <2>4. bound \in SUBSET Clients /\ Promise!Joins(bound, b)
    BY <2>3 DEF session_for, PinOrKeep, Promise!Joins, Inv, TypeOK
  <2> QED
    BY <2>1, <2>2, <2>4 DEF Promise!Open, Promise!Becomes, Promise!Next
<1>2. CASE SettleFailed(b)
  <2>1. parked = "no" /\ serverState[b] = "booting"
    BY StateIsControl, <1>2 DEF SettleFailed, Settling, controlState, Inv, Structure, ControlInv, TypeOK
  <2>2. serverState' = [serverState EXCEPT ![b] = "down"]
    BY StateIsControl, <1>2, <2>1 DEF SettleFailed, controlState, Inv, TypeOK
  <2> QED
    BY <1>2, <2>1, <2>2
    DEF SettleFailed, sessions, Promise!Fail, Promise!Becomes, Promise!Next
<1>3. CASE WatchExited(b)
  <2>1. parked = "no" /\ serverState[b] = "up" /\ task[b] = "idle"
    BY StateIsControl, <1>3 DEF WatchExited, Watched, Watching, controlState, Inv, Structure, LifecycleInv
  <2>2. serverState' = [serverState EXCEPT ![b] = "down"]
    BY StateIsControl, <1>3, <2>1 DEF WatchExited, NextBackend, controlState, Inv, TypeOK
  <2>3. Promise!Leaves(Promise!PlayersOn(b))
    BY <1>3 DEF WatchExited, DropSessions, SessionsOf, Promise!Leaves, Promise!PlayersOn
  <2> QED
    BY <2>1, <2>2, <2>3 DEF Promise!Crash, Promise!Becomes, Promise!Next
<1>4. CASE WatchIdle(b)
  <2>1. parked = "no" /\ serverState[b] = "up" /\ Promise!PlayersOn(b) = {}
    BY StateIsControl, <1>4 DEF WatchIdle, Watched, Watching, NoSessions, controlState, Promise!PlayersOn
  <2>2. serverState' = [serverState EXCEPT ![b] = "stopping"]
    BY StateIsControl, <1>4, <2>1 DEF WatchIdle, AwaitStop, startup, controlState, Inv, TypeOK
  <2> QED
    BY <1>4, <2>1, <2>2
    DEF WatchIdle, sessions, Promise!Retire, Promise!Becomes, Promise!Next
<1>5. CASE SettleNothing(b) \/ WatchOther(b) \/ WatchError(b) \/ WatchBusy(b) \/ WatchEmpty(b)
  BY StateIsControl, <1>5 DEF SettleNothing, WatchOther, WatchError, WatchBusy, WatchEmpty, controlState,
     managed, sessions, startup, Hidden
<1> QED
  BY <1>1, <1>2, <1>3, <1>4, <1>5 DEF Tick

\* Shutdown retires what runs, waits for boots and buries what it stopped.
LEMMA ShutdownRefines ==
    ASSUME Inv, Inv', NEW b \in Backends, Shutdown(b) \/ StopDone(b)
    PROVE  Simulated
<1> USE DEF Simulated
<1>1. CASE CloseRunning(b)
  <2>1. parked = "no" /\ serverState[b] = "up"
    BY StateIsControl, <1>1 DEF CloseRunning, Closing, controlState
  <2>2. Promise!PlayersOn(b) = {}
    BY <1>1, RoutesAssumption
    DEF CloseRunning, Closing, Inv, Structure, SessionInv, Promise!PlayersOn
  <2>3. serverState' = [serverState EXCEPT ![b] = "stopping"]
    BY StateIsControl, <1>1, <2>1 DEF CloseRunning, AwaitStop, startup, controlState, Inv, TypeOK
  <2> QED
    BY <1>1, <2>1, <2>2, <2>3
    DEF CloseRunning, sessions, Promise!Retire, Promise!Becomes, Promise!Next
<1>2. CASE CloseWaking(b)
  <2>1. parked = "no" /\ task[b] # "idle"
    BY <1>2 DEF CloseWaking, Closing, Inv, Structure, LifecycleInv
  <2> QED
    BY StateIsControl, <1>2, <2>1 DEF CloseWaking, AwaitTask, sessions, startup, controlState, Inv, TypeOK,
       Hidden
<1>3. CASE JoinReady(b)
  <2>1. phase = "close" /\ lifecycle[b] = "Sleeping" /\ serverState[b] = "booting"
    BY StateIsControl, <1>3 DEF JoinReady, controlState, Inv, Structure, ControlInv, LifecycleInv
  <2>2. Promise!PlayersOn(b) = {}
    BY <2>1, RoutesAssumption DEF Inv, Structure, SessionInv, Promise!PlayersOn
  <2>3. serverState' = [serverState EXCEPT ![b] = "stopping"]
    BY StateIsControl, <1>3, <2>1 DEF JoinReady, AwaitStop, managed, controlState, Inv, TypeOK
  <2> QED
    BY <1>3, <2>1, <2>2, <2>3
    DEF JoinReady, sessions, Promise!Retire, Promise!Becomes, Promise!Next
<1>4. CASE JoinFailed(b)
  <2>1. lifecycle[b] = "Sleeping" /\ serverState[b] = "booting"
    BY StateIsControl, <1>4 DEF JoinFailed, controlState, Inv, Structure, LifecycleInv
  <2>2. serverState' = [serverState EXCEPT ![b] = "down"]
    BY StateIsControl, <1>4, <2>1 DEF JoinFailed, Unpark, managed, controlState, Inv, TypeOK
  <2> QED
    BY <1>4, <2>1, <2>2
    DEF JoinFailed, sessions, Promise!Fail, Promise!Becomes, Promise!Next
<1>5. CASE CloseSleeping(b) \/ JoinGivesUp(b)
  BY StateIsControl, <1>5 DEF CloseSleeping, JoinGivesUp, Unpark, controlState, managed, sessions, startup,
     Hidden
<1>6. CASE StopDone(b)
  <2>1. serverState[b] = "stopping" /\ lifecycle[b] = "Sleeping" /\ task[b] = "idle"
    BY StateIsControl, <1>6 DEF StopDone, controlState, Inv, Structure, LifecycleInv
  <2>2. serverState' = [serverState EXCEPT ![b] = "down"]
    BY StateIsControl, <1>6, <2>1 DEF StopDone, Unpark, managed, controlState, Inv, TypeOK
  <2> QED
    BY <1>6, <2>1, <2>2
    DEF StopDone, sessions, Promise!Stopped, Promise!Becomes, Promise!Next
<1> QED
  BY <1>1, <1>2, <1>3, <1>4, <1>5, <1>6 DEF Shutdown

\* A startup task is invisible, until it ends with nobody to tell.
LEMMA StartupRefines ==
    ASSUME Inv, Inv', NEW b \in Backends, Startup(b) \/ ProcessExits(b)
    PROVE  Simulated
<1> USE DEF Simulated
<1>1. CASE TaskSpawns(b) \/ ProcessExits(b)
  BY StateIsControl, <1>1 DEF TaskSpawns, ProcessExits, controlState, managed, sessions, main, Inv, TypeOK,
     Hidden
<1>2. CASE (TaskReady(b) \/ TaskFails(b)) /\ Joinable(b)
  BY StateIsControl, <1>2 DEF TaskReady, TaskFails, controlState, managed, sessions, main, Inv, TypeOK,
     Hidden
<1>3. CASE (TaskReady(b) \/ TaskFails(b)) /\ ~Joinable(b)
  <2>1. /\ task[b] \in {"starting", "booting"}
        /\ task' = [task EXCEPT ![b] = "idle"]
        /\ UNCHANGED <<lifecycle, parked, cur, sessionBackend>>
    BY <1>3 DEF TaskReady, TaskFails, managed, sessions, main
  <2>2. lifecycle[b] = "Sleeping" /\ ~(parked = "stop" /\ cur = b)
    BY <1>3, <2>1 DEF Joinable, Inv, TypeOK, Structure, LifecycleInv
  <2>3. serverState[b] = "booting" /\ serverState' = [serverState EXCEPT ![b] = "down"]
    BY StateIsControl, <2>1, <2>2 DEF controlState, Inv, TypeOK
  <2> QED
    BY <2>1, <2>3 DEF Promise!Fail, Promise!Becomes, Promise!Next
<1> QED
  BY <1>1, <1>2, <1>3 DEF Startup

\* The exit of the proxy is Halt; the clock and the signal are invisible.
LEMMA OtherRefines ==
    ASSUME Inv, Inv', Exit \/ Exited \/ Signal \/ Elapse \/ UNCHANGED vars
    PROVE  Simulated
<1> USE DEF Simulated
<1>1. CASE Exit
  <2>1. parked = "no" /\ \A b \in Backends : lifecycle[b] = "Sleeping"
    BY <1>1 DEF Exit, Inv, Structure, ControlInv, LifecycleInv, TypeOK
  <2>2. /\ \A b \in Backends : serverState[b] \in {"down", "booting"}
        /\ serverState' = [b \in Backends |-> "down"]
    BY StateIsControl, <1>1, <2>1 DEF Exit, managed, controlState
  <2> QED
    BY <1>1, <2>2 DEF Exit, sessions, Promise!Halt, Promise!Next
<1>2. CASE Exited \/ Signal \/ Elapse \/ UNCHANGED vars
  BY StateIsControl, <1>2 DEF Exited, Signal, Elapse, controlState, vars, managed, sessions, startup, main,
     Hidden
<1> QED
  BY <1>1, <1>2

\* The proxy keeps the promise of OnDemand: players only on servers that are
\* up, deliberate stops only of empty servers, no boot beside a stop.
THEOREM Refinement == Spec => KeepsPromise
<1>1. Inv /\ Inv' /\ [Next]_vars => [Promise!Next]_(Promise!vars)
  <2> SUFFICES ASSUME Inv, Inv', [Next]_vars
               PROVE  Simulated
    BY DEF Simulated, Hidden, Promise!vars
  <2> QED
    BY DatagramRefines, DropRefines, TickRefines, ShutdownRefines, StartupRefines,
       OtherRefines
    DEF Next, Internal
<1> QED
  BY <1>1, InitRefines, Invariance, PTL DEF Spec, KeepsPromise, Promise!Spec

-----------------------------------------------------------------------------
(* The contract of the trait Backend, for the adapter of every address.      *)

\* The step of one adapter the proxy's step amounts to, if it has any.
Contracted(b) == Adapter(b)!Next \/ UNCHANGED <<adapterCall(b), proc[b]>>

\* Datagrams, the reaper, the clock and the signal reach no adapter.
LEMMA LoopContracted ==
    ASSUME Inv, NEW b \in Backends,
           \/ \E c \in Clients, n \in Names \cup {None}, i \in BOOLEAN : HandleDatagram(c, n, i)
           \/ TickStart \/ BeginShutdown \/ Signal \/ Exited \/ Elapse \/ UNCHANGED vars
    PROVE  Contracted(b)
<1>1. ASSUME NEW c \in Clients, NEW n \in Names \cup {None}, NEW i \in BOOLEAN,
             HandleDatagram(c, n, i)
      PROVE  Contracted(b)
  <2> DEFINE o == Target(c, n)
  <2>1. o \in Backends /\ phase = "serve" /\ parked = "no"
    BY <1>1, TargetType DEF Inv, Structure, ControlInv, TypeOK, HandleDatagram
  <2> HIDE DEF o
  <2>2. CASE ForwardDatagram(c, o) \/ HoldWhileWaking(c, o) \/ DropDatagram(o)
    BY <2>2 DEF ForwardDatagram, HoldWhileWaking, DropDatagram, vars, managed, startup, main,
       adapterCall, Contracted
  <2>3. CASE KnockOnSleeping(c, o)
    BY <2>1, <2>3 DEF KnockOnSleeping, main, adapterCall, Contracted, Inv, TypeOK, Structure,
       LifecycleInv
  <2> QED
    BY <1>1, <2>2, <2>3 DEF HandleDatagram, o
<1>2. CASE TickStart \/ BeginShutdown \/ Signal \/ Exited \/ Elapse \/ UNCHANGED vars
  BY <1>2 DEF TickStart, BeginShutdown, Signal, Exited, Elapse, vars, managed, startup, main,
     adapterCall, Contracted
<1> QED
  BY <1>1, <1>2

\* A tick lets go of an adapter whose server has exited, or stops one.
LEMMA TickContracted ==
    ASSUME Inv, NEW b \in Backends, NEW o \in Backends, Tick(o)
    PROVE  Contracted(b)
<1> USE DEF Contracted, adapterCall, Inv, TypeOK, Structure, LifecycleInv
<1>1. CASE SettleReady(o)
  BY <1>1 DEF SettleReady, Settling, ControlInv
<1>2. CASE SettleFailed(o)
  BY <1>2 DEF SettleFailed, Settling, ControlInv
<1>3. CASE WatchExited(o)
  <2>1. parked = "no" /\ parked' = "no"
    BY <1>3 DEF WatchExited, Watched, Watching
  <2>2. CASE b = o
    BY <1>3, <2>1, <2>2 DEF WatchExited, Watched, Adapter!Next, Adapter!has_exited
  <2>3. CASE b # o
    BY <1>3, <2>1, <2>3 DEF WatchExited
  <2> QED
    BY <2>2, <2>3
<1>4. CASE WatchIdle(o)
  <2>1. parked = "no"
    BY <1>4 DEF WatchIdle, Watched, Watching
  <2>2. CASE b = o
    BY <1>4, <2>1, <2>2 DEF WatchIdle, AwaitStop, Watched, startup, Adapter!Next, Adapter!stop
  <2>3. CASE b # o
    BY <1>4, <2>1, <2>3 DEF WatchIdle, AwaitStop, startup
  <2> QED
    BY <2>2, <2>3
<1>5. CASE SettleNothing(o) \/ WatchOther(o) \/ WatchError(o) \/ WatchBusy(o) \/ WatchEmpty(o)
  BY <1>5 DEF SettleNothing, WatchOther, WatchError, WatchBusy, WatchEmpty, managed, startup
<1> QED
  BY <1>1, <1>2, <1>3, <1>4, <1>5 DEF Tick

\* Shutdown stops what is ready and waits for what is not.
LEMMA ShutdownContracted ==
    ASSUME Inv, NEW b \in Backends, NEW o \in Backends, Shutdown(o) \/ StopDone(o)
    PROVE  Contracted(b)
<1> USE DEF Contracted, adapterCall, Inv, TypeOK, Structure, LifecycleInv
<1>1. CASE CloseRunning(o)
  BY <1>1 DEF CloseRunning, Closing, AwaitStop, startup, Adapter!Next, Adapter!stop
<1>2. CASE CloseWaking(o)
  BY <1>2 DEF CloseWaking, Closing, AwaitTask, startup
<1>3. CASE JoinReady(o)
  BY <1>3 DEF JoinReady, AwaitStop, managed, Adapter!Next, Adapter!stop
<1>4. CASE JoinFailed(o)
  BY <1>4 DEF JoinFailed, Unpark, managed
<1>5. CASE CloseSleeping(o) \/ JoinGivesUp(o)
  BY <1>5 DEF CloseSleeping, JoinGivesUp, Unpark, managed, startup
<1>6. CASE StopDone(o)
  BY <1>6 DEF StopDone, Unpark, managed, Adapter!Next, Adapter!Stopped
<1> QED
  BY <1>1, <1>2, <1>3, <1>4, <1>5, <1>6 DEF Shutdown

\* A startup task starts an adapter, and hands it on, loses or gives it up.
LEMMA StartupContracted ==
    ASSUME Inv, NEW b \in Backends, NEW o \in Backends, Startup(o) \/ ProcessExits(o)
    PROVE  Contracted(b)
<1> USE DEF Contracted, adapterCall, Inv, TypeOK, Structure, LifecycleInv
<1>1. CASE TaskSpawns(o)
  BY <1>1 DEF TaskSpawns, managed, main, ProcInv, Adapter!Next, Adapter!start
<1>2. CASE TaskReady(o)
  BY <1>2 DEF TaskReady, Joinable, managed, main, Adapter!Next, Adapter!wait_until_ready,
     Adapter!Fail
<1>3. CASE TaskFails(o)
  BY <1>3 DEF TaskFails, Joinable, managed, main, ProcInv, Adapter!Next, Adapter!Fail
<1>4. CASE ProcessExits(o)
  BY <1>4 DEF ProcessExits, managed, main, Adapter!Next, Adapter!ServerExits
<1> QED
  BY <1>1, <1>2, <1>3, <1>4 DEF Startup

\* The exit of the proxy gives up the boots that are left; nothing else is.
LEMMA ExitContracted ==
    ASSUME Inv, NEW b \in Backends, Exit
    PROVE  Contracted(b)
<1>1. parked = "no" /\ lifecycle[b] = "Sleeping" /\ task[b] \notin {"ok", "err"}
  BY DEF Exit, Inv, Structure, ControlInv, LifecycleInv, Joinable, TypeOK
<1>2. task[b] = "booting" \/ proc[b] = "none"
  BY <1>1 DEF Inv, Structure, ProcInv, TypeOK
<1> QED
  BY <1>1, <1>2 DEF Exit, managed, Contracted, adapterCall, Adapter!Next, Adapter!Fail, Inv, TypeOK

\* The proxy keeps the caller's side of the trait Backend for every address: no
\* adapter is started beside another, and one that became ready is let go only by
\* a stop or after its exit was noticed.
THEOREM ContractKept == Spec => KeepsContract
<1>1. Init => \A b \in Backends : Adapter(b)!Init
  BY RoutesAssumption DEF Init, Adapter!Init, adapterCall
<1>2. Inv /\ [Next]_vars => \A b \in Backends : [Adapter(b)!Next]_(Adapter(b)!vars)
  <2> SUFFICES ASSUME Inv, [Next]_vars, NEW b \in Backends
               PROVE  Contracted(b)
    BY DEF Contracted, Adapter!vars
  <2> QED
    BY LoopContracted, TickContracted, ShutdownContracted, StartupContracted, ExitContracted
    DEF Next, Internal
<1> QED
  BY <1>1, <1>2, Invariance, PTL DEF Spec, KeepsContract
=============================================================================
