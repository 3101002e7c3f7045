---------------------------- MODULE ProxyProofs ----------------------------
(***************************************************************************)
(* Proofs about Proxy, for every set of backends and clients, every route  *)
(* table and every value of the timeouts.                                  *)
(***************************************************************************)
EXTENDS Proxy, FiniteSetTheorems, TLAPS

-----------------------------------------------------------------------------
(* Type correctness *)

FiniteHeld == \A b \in Backends : IsFiniteSet(held[b])

\* hold never grows a set of held Initials past MAX_HELD_CLIENTS.
LEMMA HoldRespectsCap ==
    ASSUME TypeOK, FiniteHeld, NEW b \in Backends, NEW c \in Clients
    PROVE  /\ hold(b, c) \in SUBSET Clients
           /\ IsFiniteSet(hold(b, c))
           /\ Cardinality(hold(b, c)) <= MAX_HELD_CLIENTS
<1>1. IsFiniteSet(held[b]) /\ held[b] \in SUBSET Clients
      /\ Cardinality(held[b]) <= MAX_HELD_CLIENTS
  BY DEF TypeOK, FiniteHeld
<1>2. Cardinality(held[b]) \in Nat
  BY <1>1, FS_CardinalityType
<1>3. IsFiniteSet(held[b] \cup {c})
      /\ Cardinality(held[b] \cup {c}) =
           IF c \in held[b] THEN Cardinality(held[b]) ELSE Cardinality(held[b]) + 1
  BY <1>1, FS_AddElement
<1> QED
  BY <1>1, <1>2, <1>3, TimesAssumption DEF hold

\* session_for keeps the session table well typed.
LEMMA SessionForType ==
    ASSUME TypeOK, NEW cs \in SUBSET Clients, NEW b \in Backends, NEW bound,
           session_for(cs, b, bound)
    PROVE  /\ sessionBackend' \in [Clients -> Backends \cup {None}]
           /\ lastSeen' \in [Clients -> 0..SessionTimeout]
<1> QED
  BY TimesAssumption DEF TypeOK, session_for, PinOrKeep, Refresh

\* Dropping sessions keeps the session table well typed.
LEMMA DropSessionsType ==
    ASSUME TypeOK, NEW cs, DropSessions(cs)
    PROVE  /\ sessionBackend' \in [Clients -> Backends \cup {None}]
           /\ lastSeen' \in [Clients -> 0..SessionTimeout]
<1> QED
  BY TimesAssumption DEF TypeOK, DropSessions

\* Target picks a configured backend: resolve is total.
LEMMA TargetType ==
    ASSUME TypeOK, NEW c \in Clients, NEW n \in Names \cup {None}
    PROVE  Target(c, n) \in Backends
<1> QED
  BY RoutesAssumption DEF TypeOK, Target, resolve

\* Every handler, task step and clock step keeps the types and the cap.
LEMMA TypeStep == TypeOK /\ FiniteHeld /\ [Next]_vars => TypeOK' /\ FiniteHeld'
<1> SUFFICES ASSUME TypeOK, FiniteHeld, [Next]_vars
             PROVE  TypeOK' /\ FiniteHeld'
  OBVIOUS
<1> USE RoutesAssumption, TimesAssumption
<1>1. ASSUME NEW c \in Clients, NEW n \in Names \cup {None}, NEW i \in BOOLEAN,
             HandleDatagram(c, n, i)
      PROVE  TypeOK' /\ FiniteHeld'
  <2> DEFINE b == Target(c, n)
  <2>1. b \in Backends
    BY TargetType
  <2> HIDE DEF b
  <2>2. CASE ForwardDatagram(c, b)
    <3>1. PICK bound \in SUBSET {c} : session_for({c}, b, bound)
      BY <2>2 DEF ForwardDatagram
    <3>2. /\ sessionBackend' \in [Clients -> Backends \cup {None}]
          /\ lastSeen' \in [Clients -> 0..SessionTimeout]
      BY <2>1, <3>1, SessionForType
    <3> QED
      BY <2>1, <2>2, <3>2
      DEF TypeOK, FiniteHeld, ForwardDatagram, managed, startup, main
  <2>3. CASE KnockOnSleeping(c, b)
    BY <2>1, <2>3, HoldRespectsCap
    DEF TypeOK, FiniteHeld, KnockOnSleeping, sessions, main, history
  <2>4. CASE HoldWhileWaking(c, b)
    BY <2>1, <2>4, HoldRespectsCap
    DEF TypeOK, FiniteHeld, HoldWhileWaking, sessions, startup, main, history
  <2>5. CASE DropDatagram(b)
    BY <2>5 DEF TypeOK, FiniteHeld, DropDatagram, vars, managed, sessions,
                startup, main, history
  <2> QED
    BY <1>1, <2>2, <2>3, <2>4, <2>5 DEF HandleDatagram, b
<1>2. CASE TickStart
  BY <1>2, DropSessionsType
  DEF TypeOK, FiniteHeld, TickStart, managed, startup, history
<1>3. ASSUME NEW b \in Backends, Tick(b)
      PROVE  TypeOK' /\ FiniteHeld'
  <2>1. CASE SettleNothing(b)
    BY <2>1 DEF TypeOK, FiniteHeld, SettleNothing, managed, sessions, startup, history
  <2>2. CASE SettleReady(b)
    <3>1. PICK bound \in SUBSET held[b] : session_for(held[b], b, bound)
      BY <2>2 DEF SettleReady, deliver_held
    <3>2. /\ sessionBackend' \in [Clients -> Backends \cup {None}]
          /\ lastSeen' \in [Clients -> 0..SessionTimeout]
      <4>1. held[b] \in SUBSET Clients
        BY DEF TypeOK
      <4> QED
        BY <3>1, <4>1, SessionForType
    <3> QED
      BY <2>2, <3>2, FS_EmptySet DEF TypeOK, FiniteHeld, SettleReady
  <2>3. CASE SettleFailed(b)
    BY <2>3, FS_EmptySet
    DEF TypeOK, FiniteHeld, SettleFailed, FailureClearsHeld, sessions, history
  <2>4. CASE WatchOther(b)
    BY <2>4 DEF TypeOK, FiniteHeld, WatchOther, NextBackend, managed, sessions,
                startup, history
  <2>5. CASE WatchExited(b)
    BY <2>5, DropSessionsType
    DEF TypeOK, FiniteHeld, WatchExited, NextBackend, history
  <2>6. CASE WatchError(b)
    BY <2>6 DEF TypeOK, FiniteHeld, WatchError, ErrorSkipsBackend, NextBackend,
                managed, sessions, startup, history
  <2>7. CASE WatchBusy(b)
    BY <2>7 DEF TypeOK, FiniteHeld, WatchBusy, IdleClockWithPlayers, NextBackend,
                sessions, startup, history
  <2>8. CASE WatchEmpty(b)
    BY <2>8 DEF TypeOK, FiniteHeld, WatchEmpty, EmptySince, NextBackend,
                sessions, startup, history
  <2>9. CASE WatchIdle(b)
    BY <2>9 DEF TypeOK, FiniteHeld, WatchIdle, AwaitStop, sessions, startup, history
  <2> QED
    BY <1>3, <2>1, <2>2, <2>3, <2>4, <2>5, <2>6, <2>7, <2>8, <2>9 DEF Tick
<1>4. ASSUME NEW b \in Backends, Shutdown(b)
      PROVE  TypeOK' /\ FiniteHeld'
  <2>1. CASE CloseSleeping(b)
    BY <2>1 DEF TypeOK, FiniteHeld, CloseSleeping, managed, sessions, startup, history
  <2>2. CASE CloseRunning(b)
    BY <2>2
    DEF TypeOK, FiniteHeld, CloseRunning, AwaitStop, sessions, startup, history
  <2>3. CASE CloseWaking(b)
    BY <2>3 DEF TypeOK, FiniteHeld, CloseWaking, AwaitTask, sessions, startup, history
  <2>4. CASE JoinReady(b)
    BY <2>4 DEF TypeOK, FiniteHeld, JoinReady, AwaitStop, managed, sessions, history
  <2>5. CASE JoinFailed(b)
    BY <2>5 DEF TypeOK, FiniteHeld, JoinFailed, Unpark, managed, sessions, history
  <2>6. CASE JoinGivesUp(b)
    BY <2>6 DEF TypeOK, FiniteHeld, JoinGivesUp, Unpark, managed, sessions, startup,
                history
  <2> QED
    BY <1>4, <2>1, <2>2, <2>3, <2>4, <2>5, <2>6 DEF Shutdown
<1>5. ASSUME NEW b \in Backends, StopDone(b)
      PROVE  TypeOK' /\ FiniteHeld'
  <2>1. phase' \in {phase, "serve", "settle"} /\ todo' = todo \ {b}
    BY <1>5 DEF StopDone, NextBackend
  <2> QED
    BY <1>5, <2>1 DEF TypeOK, FiniteHeld, StopDone, Unpark, managed, sessions, history
<1>6. ASSUME NEW b \in Backends, Startup(b) \/ ProcessExits(b)
      PROVE  TypeOK' /\ FiniteHeld'
  BY <1>6 DEF TypeOK, FiniteHeld, Startup, TaskSpawns, TaskReady, TaskFails,
              ProcessExits, managed, sessions, main, history
<1>7. CASE Signal
  BY <1>7 DEF TypeOK, FiniteHeld, Signal, managed, sessions, startup, main, history
<1>8. CASE BeginShutdown
  BY <1>8, DropSessionsType
  DEF TypeOK, FiniteHeld, BeginShutdown, managed, startup, history
<1>9. CASE Exit
  BY <1>9 DEF TypeOK, FiniteHeld, Exit, managed, sessions, history
<1>10. CASE Elapse
  BY <1>10 DEF TypeOK, FiniteHeld, Elapse, Saturate, CountDown, startup
<1>11. CASE UNCHANGED vars
  BY <1>11 DEF TypeOK, FiniteHeld, vars, managed, sessions, startup, main, history
<1> QED
  BY <1>1, <1>2, <1>3, <1>4, <1>5, <1>6, <1>7, <1>8, <1>9, <1>10, <1>11
  DEF Next, Internal, Exited

\* The state built by run() before its loop is well typed.
LEMMA TypeInitially == Init => TypeOK /\ FiniteHeld
<1> SUFFICES ASSUME Init PROVE TypeOK /\ FiniteHeld
  OBVIOUS
<1>1. FiniteHeld /\ \A b \in Backends : Cardinality(held[b]) <= MAX_HELD_CLIENTS
  BY FS_EmptySet, TimesAssumption DEF Init, FiniteHeld
<1>2. /\ empty_since \in [Backends -> (0..IdleTimeout) \cup {None}]
      /\ sessionBackend \in [Clients -> Backends \cup {None}]
      /\ lastSeen \in [Clients -> 0..SessionTimeout]
      /\ quiet \in [Backends -> 0..IdleTimeout]
      /\ readyFor \in [Backends -> Nat]
      /\ graceLeft \in 0..ShutdownGrace /\ untilTick \in 0..TICK
  BY TimesAssumption DEF Init
<1>3. /\ lifecycle \in [Backends -> {"Sleeping", "Waking", "Running"}]
      /\ task \in [Backends -> {"idle", "starting", "booting", "ok", "err"}]
      /\ proc \in [Backends -> {"none", "up", "exited"}]
      /\ held \in [Backends -> SUBSET Clients]
      /\ cur \in Backends
  BY RoutesAssumption DEF Init
<1> QED
  BY <1>1, <1>2, <1>3 DEF Init, TypeOK

\* In every reachable state the variables are well typed and no boot holds
\* more Initials than MAX_HELD_CLIENTS (ManagedBackend::hold).
THEOREM TypeCorrect == Spec => []TypeOK
<1> QED
  BY TypeInitially, TypeStep, PTL DEF Spec

-----------------------------------------------------------------------------
(* The inductive invariant *)

\* The main task awaits a backend of the pass it is in, and a startup task only
\* while it shuts down.
ControlInv ==
    /\ parked # "no" => phase \in {"watch", "close"} /\ cur \in todo
    /\ parked = "join" => phase = "close"
    /\ phase = "exited" => todo = {}

\* Waking is exactly having a startup task, until shutdown replaces a Waking
\* lifecycle by Sleeping; a finished startup task always has a receiver.
LifecycleInv ==
    \A b \in Backends :
        /\ lifecycle[b] = "Waking" => task[b] # "idle"
        /\ lifecycle[b] = "Running" => task[b] = "idle"
        /\ lifecycle[b] = "Sleeping" /\ task[b] # "idle" =>
               phase = "close" /\ (b \notin todo \/ (parked = "join" /\ cur = b))
        /\ phase \in {"close", "exited"} /\ b \notin todo => lifecycle[b] = "Sleeping"
        /\ parked # "no" /\ cur = b => lifecycle[b] = "Sleeping"
        /\ parked = "stop" /\ cur = b => task[b] = "idle"
        /\ task[b] \in {"ok", "err"} => Joinable(b)

\* A sleeping backend without a startup task has no process, unless the main
\* task is stopping it right now.
ProcInv ==
    \A b \in Backends :
        /\ task[b] \in {"starting", "err"} => proc[b] = "none"
        /\ lifecycle[b] = "Sleeping" /\ task[b] = "idle" /\ ~(parked = "stop" /\ cur = b)
               => proc[b] = "none"

\* Sessions exist only with running backends, and not once the select loop ended.
SessionInv ==
    /\ SessionsOnlyToRunning
    /\ phase \in {"close", "exited"} => \A c \in Clients : sessionBackend[c] = None

Structure == ControlInv /\ LifecycleInv /\ ProcInv /\ SessionInv /\ HeldOnlyWhileWaking

Inv == TypeOK /\ FiniteHeld /\ Structure

\* Every step keeps the relations between lifecycles, tasks, processes,
\* sessions and held Initials.
LEMMA StructureStep == Inv /\ [Next]_vars => Structure'
<1> SUFFICES ASSUME TypeOK, Structure, [Next]_vars
             PROVE  Structure'
  BY DEF Inv
<1> USE DEF TypeOK, Structure, ControlInv, LifecycleInv, ProcInv, SessionInv,
            SessionsOnlyToRunning, HeldOnlyWhileWaking, Open, Joinable
<1> USE RoutesAssumption
<1>1. ASSUME NEW c \in Clients, NEW n \in Names \cup {None}, NEW i \in BOOLEAN,
             HandleDatagram(c, n, i)
      PROVE  Structure'
  <2> DEFINE b == Target(c, n)
  <2>1. b \in Backends /\ phase = "serve"
    BY <1>1, TargetType DEF HandleDatagram
  <2> HIDE DEF b
  <2>2. CASE ForwardDatagram(c, b)
    BY <2>1, <2>2 DEF ForwardDatagram, session_for, PinOrKeep, managed, startup, main
  <2>3. CASE KnockOnSleeping(c, b)
    BY <2>1, <2>3 DEF KnockOnSleeping, sessions, main, history
  <2>4. CASE HoldWhileWaking(c, b)
    BY <2>1, <2>4 DEF HoldWhileWaking, sessions, startup, main, history
  <2>5. CASE DropDatagram(b)
    BY <2>5 DEF DropDatagram, vars, managed, sessions, startup, main, history
  <2> QED
    BY <1>1, <2>2, <2>3, <2>4, <2>5 DEF HandleDatagram, b
<1>2. CASE TickStart
  BY <1>2 DEF TickStart, DropSessions, managed, startup, history
<1>3. ASSUME NEW b \in Backends, Tick(b)
      PROVE  Structure'
  <2>1. CASE SettleNothing(b)
    BY <2>1
    DEF SettleNothing, Settling, is_finished, managed, sessions, startup, history
  <2>2. CASE SettleReady(b)
    BY <2>2 DEF SettleReady, deliver_held, Settling, is_finished, session_for, PinOrKeep
  <2>3. CASE SettleFailed(b)
    BY <2>3
    DEF SettleFailed, Settling, is_finished, FailureClearsHeld, sessions, history
  <2>4. CASE WatchOther(b)
    BY <2>4
    DEF WatchOther, Watching, First, NextBackend, managed, sessions, startup, history
  <2>5. CASE WatchExited(b)
    BY <2>5
    DEF WatchExited, Watching, Watched, First, NextBackend, DropSessions, SessionsOf, history
  <2>6. CASE WatchError(b)
    BY <2>6
    DEF WatchError, Watching, Watched, First, ErrorSkipsBackend, NextBackend,
        managed, sessions, startup, history
  <2>7. CASE WatchBusy(b)
    BY <2>7
    DEF WatchBusy, Watching, Watched, First, NextBackend, sessions, startup, history
  <2>8. CASE WatchEmpty(b)
    BY <2>8
    DEF WatchEmpty, Watching, Watched, First, NextBackend, sessions, startup, history
  <2>9. CASE WatchIdle(b)
    BY <2>9
    DEF WatchIdle, Watching, Watched, First, AwaitStop, NoSessions, sessions, startup, history
  <2> QED
    BY <1>3, <2>1, <2>2, <2>3, <2>4, <2>5, <2>6, <2>7, <2>8, <2>9 DEF Tick
<1>4. ASSUME NEW b \in Backends, Shutdown(b)
      PROVE  Structure'
  <2>1. CASE CloseSleeping(b)
    BY <2>1 DEF CloseSleeping, Closing, First, managed, sessions, startup, history
  <2>2. CASE CloseRunning(b)
    BY <2>2 DEF CloseRunning, Closing, First, AwaitStop, sessions, startup, history
  <2>3. CASE CloseWaking(b)
    BY <2>3 DEF CloseWaking, Closing, First, AwaitTask, sessions, startup, history
  <2>4. CASE JoinReady(b)
    BY <2>4 DEF JoinReady, AwaitStop, managed, sessions, history
  <2>5. CASE JoinFailed(b)
    BY <2>5 DEF JoinFailed, Unpark, managed, sessions, history
  <2>6. CASE JoinGivesUp(b)
    BY <2>6 DEF JoinGivesUp, Unpark, managed, sessions, startup, history
  <2> QED
    BY <1>4, <2>1, <2>2, <2>3, <2>4, <2>5, <2>6 DEF Shutdown
<1>5. ASSUME NEW b \in Backends, StopDone(b)
      PROVE  Structure'
  BY <1>5 DEF StopDone, Unpark, NextBackend, managed, sessions, history
<1>6. ASSUME NEW b \in Backends, Startup(b)
      PROVE  Structure'
  <2>1. CASE TaskSpawns(b)
    BY <2>1 DEF TaskSpawns, managed, sessions, main, history
  <2>2. CASE TaskReady(b)
    BY <2>2 DEF TaskReady, managed, sessions, main, history
  <2>3. CASE TaskFails(b)
    BY <2>3 DEF TaskFails, managed, sessions, main, history
  <2> QED
    BY <1>6, <2>1, <2>2, <2>3 DEF Startup
<1>7. ASSUME NEW b \in Backends, ProcessExits(b)
      PROVE  Structure'
  BY <1>7 DEF ProcessExits, managed, sessions, main, history
<1>8. CASE Signal
  BY <1>8 DEF Signal, managed, sessions, startup, main, history
<1>9. CASE BeginShutdown
  BY <1>9 DEF BeginShutdown, ShutdownDue, DropSessions, managed, startup, history
<1>10. CASE Exit
  BY <1>10 DEF Exit, managed, sessions, history
<1>11. CASE Elapse
  BY <1>11 DEF Elapse, startup
<1>12. CASE UNCHANGED vars
  BY <1>12 DEF vars, managed, sessions, startup, main, history
<1> QED
  BY <1>1, <1>2, <1>3, <1>4, <1>5, <1>6, <1>7, <1>8, <1>9, <1>10, <1>11, <1>12
  DEF Next, Internal, Exited

\* They hold while every backend sleeps.
LEMMA InvInitially == Init => Inv
<1>1. Init => TypeOK /\ FiniteHeld
  BY TypeInitially
<1>2. Init => Structure
  BY DEF Init, Structure, ControlInv, LifecycleInv, ProcInv, SessionInv,
         SessionsOnlyToRunning, HeldOnlyWhileWaking, Joinable
<1> QED
  BY <1>1, <1>2 DEF Inv

\* The inductive invariant holds in every reachable state.
THEOREM Invariance == Spec => []Inv
<1>1. Inv /\ [Next]_vars => Inv'
  BY TypeStep, StructureStep DEF Inv
<1> QED
  BY <1>1, InvInitially, PTL DEF Spec

-----------------------------------------------------------------------------
(* Safety *)

\* No Initial outlives the boot it was held for (state.rs, tick).
THEOREM HeldSafe == Spec => []HeldOnlyWhileWaking
<1>1. Inv => HeldOnlyWhileWaking
  BY DEF Inv, Structure
<1> QED
  BY <1>1, Invariance, PTL

\* No session is ever pinned to a backend that is not running.
THEOREM SessionsSafe == Spec => []SessionsOnlyToRunning
<1>1. Inv => SessionsOnlyToRunning
  BY DEF Inv, Structure, SessionInv
<1> QED
  BY <1>1, Invariance, PTL

\* A server is spawned only once the previous one of its address is gone.
THEOREM SpawnSafe == Spec => []SpawnFindsAddressFree
<1>1. Inv => SpawnFindsAddressFree
  BY DEF Inv, Structure, ProcInv, SpawnFindsAddressFree
<1> QED
  BY <1>1, Invariance, PTL

\* When the shutdown pass is over, every server whose boot ended is down.
THEOREM ShutdownLeavesNothing == Spec => []NothingLeftBehind
<1>1. Inv => NothingLeftBehind
  <2> SUFFICES ASSUME Inv, phase = "close", todo = {},
                      NEW b \in Backends, proc[b] # "none"
               PROVE  task[b] = "booting"
    BY DEF NothingLeftBehind
  <2>1. lifecycle[b] = "Sleeping" /\ parked = "no"
    BY DEF Inv, Structure, ControlInv, LifecycleInv, TypeOK
  <2>2. task[b] \notin {"ok", "err"}
    BY <2>1 DEF Inv, Structure, LifecycleInv, Joinable
  <2> QED
    BY <2>1, <2>2 DEF Inv, Structure, ProcInv, TypeOK
<1> QED
  BY <1>1, Invariance, PTL

-----------------------------------------------------------------------------
(* Action properties *)

\* What every step does to the session table: it is left alone, some sessions
\* are dropped for a reason, or clients without a session are pinned.
LEMMA SessionStep ==
    ASSUME Inv, [Next]_vars, NEW c \in Clients
    PROVE  LostForCause(c) /\ KeepsItsBackend(c)
<1> USE DEF LostForCause, KeepsItsBackend
<1>1. sessionBackend[c] \in Backends \cup {None} /\ None \notin Backends
      /\ lastSeen[c] \in 0..SessionTimeout
      /\ sessionBackend \in [Clients -> Backends \cup {None}]
  BY RoutesAssumption DEF Inv, TypeOK
<1>2. ASSUME NEW d \in Clients, NEW n \in Names \cup {None}, NEW i \in BOOLEAN,
             HandleDatagram(d, n, i)
      PROVE  LostForCause(c) /\ KeepsItsBackend(c)
  BY <1>1, <1>2 DEF HandleDatagram, ForwardDatagram, session_for, PinOrKeep,
     KnockOnSleeping, HoldWhileWaking, DropDatagram, vars, sessions
<1>3. CASE TickStart
  BY <1>1, <1>3, TimesAssumption DEF TickStart, DropSessions, Expired
<1>4. ASSUME NEW b \in Backends, SettleReady(b)
      PROVE  LostForCause(c) /\ KeepsItsBackend(c)
  BY <1>1, <1>4 DEF SettleReady, deliver_held, session_for, PinOrKeep
<1>5. ASSUME NEW b \in Backends, WatchExited(b)
      PROVE  LostForCause(c) /\ KeepsItsBackend(c)
  BY <1>1, <1>5 DEF WatchExited, DropSessions, SessionsOf
<1>6. CASE BeginShutdown
  BY <1>1, <1>6 DEF BeginShutdown, ShutdownDue, DropSessions
<1>7. CASE UNCHANGED sessionBackend
  BY <1>1, <1>7
<1>8. ASSUME NEW b \in Backends, Tick(b), ~SettleReady(b), ~WatchExited(b)
      PROVE  UNCHANGED sessionBackend
  BY <1>8 DEF Tick, SettleNothing, SettleFailed, WatchOther, WatchError, WatchBusy,
     WatchEmpty, WatchIdle, sessions
<1>9. ASSUME NEW b \in Backends, Shutdown(b) \/ StopDone(b) \/ Startup(b) \/ ProcessExits(b)
      PROVE  UNCHANGED sessionBackend
  BY <1>9 DEF Shutdown, CloseSleeping, CloseRunning, CloseWaking, JoinReady, JoinFailed,
     JoinGivesUp, StopDone, Startup, TaskSpawns, TaskReady, TaskFails, ProcessExits, sessions
<1>10. CASE Signal \/ Exit \/ Exited \/ Elapse \/ UNCHANGED vars
  BY <1>1, <1>10 DEF Signal, Exit, Exited, Elapse, vars, sessions
<1> QED
  BY <1>2, <1>3, <1>4, <1>5, <1>6, <1>7, <1>8, <1>9, <1>10 DEF Next, Internal

\* A session is lost only to its own silence, to the exit of its own backend
\* or to the shutdown of the proxy.
THEOREM SessionLossJustified == Spec => SessionLossHasCause
<1>1. Inv /\ [Next]_vars => [\A c \in Clients : LostForCause(c)]_vars
  BY SessionStep
<1> QED
  BY <1>1, Invariance, PTL DEF Spec, SessionLossHasCause

\* A session is never moved to another backend.
THEOREM PinStable == Spec => PinIsStable
<1>1. Inv /\ [Next]_vars => [\A c \in Clients : KeepsItsBackend(c)]_vars
  BY SessionStep
<1> QED
  BY <1>1, Invariance, PTL DEF Spec, PinIsStable
=============================================================================
