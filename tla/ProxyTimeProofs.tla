-------------------------- MODULE ProxyTimeProofs --------------------------
(***************************************************************************)
(* What Proxy promises of time, for every value of the timeouts: that the  *)
(* idle clock is right, and that a finished boot is noticed in time.       *)
(***************************************************************************)
EXTENDS ProxyProofs

-----------------------------------------------------------------------------
(* The idle clock.  If a status check never fails and a session outlives a  *)
(* ticker period, a tick stops a live server only after idle_timeout        *)
(* without a session.  Without the second condition it may not: a session   *)
(* can come and go between two ticks.                                       *)

\* The clock runs only for a Running backend, ...
ClockInv == Open => \A b \in Backends : empty_since[b] # None => lifecycle[b] = "Running"

\* ... a session it does not know of yet is younger than the last tick, ...
YoungInv ==
    phase = "serve" =>
        \A c \in Clients :
            sessionBackend[c] # None /\ empty_since[sessionBackend[c]] # None =>
                lastSeen[c] + untilTick <= TICK

\* ... a pass has told it of the sessions of every backend it visited, ...
VisitedInv ==
    phase \in {"settle", "watch"} =>
        \A c \in Clients :
            sessionBackend[c] # None /\ sessionBackend[c] \notin todo =>
                empty_since[sessionBackend[c]] = None

\* ... so that it never runs ahead of the time without sessions.
QuietInv ==
    Open => \A b \in Backends :
        lifecycle[b] = "Running" /\ NoSessions(b) /\ empty_since[b] # None =>
            quiet[b] >= empty_since[b]

IdleInv == ClockInv /\ YoungInv /\ VisitedInv /\ QuietInv

\* Before the first tick nothing runs and no clock is running.
LEMMA IdleInitially == Init => IdleInv
<1> QED
  BY DEF Init, IdleInv, ClockInv, YoungInv, VisitedInv, QuietInv

\* Every step keeps the idle clocks no older than the silence they measure.
LEMMA IdleStep ==
    ASSUME ~StatusMayFail, SessionTimeout > TICK, Inv, IdleInv, [Next]_vars
    PROVE  IdleInv'
<1> USE RoutesAssumption, TimesAssumption
<1> USE DEF IdleInv, ClockInv, YoungInv, VisitedInv, QuietInv, Open, NoSessions
<1>t. TypeOK
  BY DEF Inv
<1>s. SessionsOnlyToRunning
  BY DEF Inv, Structure, SessionInv
<1>p. parked # "no" => phase \in {"watch", "close"} /\ cur \in todo
  BY DEF Inv, Structure, ControlInv
<1>1. ASSUME NEW c \in Clients, NEW n \in Names \cup {None}, NEW i \in BOOLEAN,
             HandleDatagram(c, n, i)
      PROVE  IdleInv'
  <2> DEFINE b == Target(c, n)
  <2>1. b \in Backends /\ phase = "serve"
    BY <1>1, <1>t, TargetType DEF HandleDatagram
  <2> HIDE DEF b
  <2>2. CASE ForwardDatagram(c, b)
    BY <1>t, <2>1, <2>2
    DEF TypeOK, ForwardDatagram, session_for, PinOrKeep, Refresh, managed, startup, main
  <2>3. CASE KnockOnSleeping(c, b)
    BY <1>t, <2>1, <2>3 DEF TypeOK, KnockOnSleeping, sessions, main, history
  <2>4. CASE HoldWhileWaking(c, b)
    BY <1>t, <2>1, <2>4 DEF TypeOK, HoldWhileWaking, sessions, startup, main, history
  <2>5. CASE DropDatagram(b)
    BY <2>5 DEF DropDatagram, vars, managed, sessions, startup, main, history
  <2> QED
    BY <1>1, <2>2, <2>3, <2>4, <2>5 DEF HandleDatagram, b
<1>2. CASE TickStart
  <2>1. \A c \in Clients :
            sessionBackend[c] # None /\ empty_since[sessionBackend[c]] # None =>
                c \notin Expired
    BY <1>2, <1>t DEF TickStart, Expired, TypeOK
  <2> QED
    BY <1>2, <1>t, <2>1 DEF TickStart, DropSessions, TypeOK, managed, startup, history
<1>3. ASSUME NEW b \in Backends, Tick(b)
      PROVE  IdleInv'
  <2>1. CASE SettleNothing(b)
    BY <2>1, <1>t DEF SettleNothing, Settling, TypeOK, managed, sessions, startup, history
  <2>2. CASE SettleReady(b)
    BY <2>2, <1>t DEF SettleReady, deliver_held, Settling, First, session_for, PinOrKeep, Refresh,
        TypeOK
  <2>3. CASE SettleFailed(b)
    BY <2>3, <1>t DEF SettleFailed, Settling, TypeOK, sessions, history
  <2>4. CASE WatchOther(b)
    BY <2>4, <1>t, <1>s DEF WatchOther, Watching, NextBackend, TypeOK,
       SessionsOnlyToRunning, managed, sessions, startup, history
  <2>5. CASE WatchExited(b)
    BY <2>5, <1>t DEF WatchExited, Watched, Watching, NextBackend, DropSessions,
       SessionsOf, TypeOK, history
  <2>6. CASE WatchError(b)
    BY <2>6 DEF WatchError
  <2>7. CASE WatchBusy(b)
    BY <2>7, <1>t DEF WatchBusy, Watched, Watching, NextBackend, IdleClockWithPlayers,
       TypeOK, sessions, startup, history
  <2>8. CASE WatchEmpty(b)
    BY <2>8, <1>t DEF WatchEmpty, Watched, Watching, NextBackend, EmptySince, TypeOK,
       sessions, startup, history
  <2>9. CASE WatchIdle(b)
    BY <2>9, <1>t DEF WatchIdle, Watched, Watching, AwaitStop, TypeOK, sessions, startup,
       history
  <2> QED
    BY <1>3, <2>1, <2>2, <2>3, <2>4, <2>5, <2>6, <2>7, <2>8, <2>9 DEF Tick
<1>4. ASSUME NEW b \in Backends, Shutdown(b)
      PROVE  IdleInv'
  <2>1. phase = "close" /\ phase' = "close"
    BY <1>4, <1>p DEF Shutdown, CloseSleeping, CloseRunning, CloseWaking, Closing,
       JoinReady, JoinFailed, JoinGivesUp, AwaitStop, AwaitTask, Inv, Structure, ControlInv
  <2> QED
    BY <2>1
<1>5. ASSUME NEW b \in Backends, StopDone(b)
      PROVE  IdleInv'
  <2>1. phase \in {"watch", "close"} /\ lifecycle[b] = "Sleeping"
    BY <1>5, <1>p DEF StopDone, Inv, Structure, LifecycleInv
  <2> QED
    BY <1>5, <1>t, <1>s, <2>1 DEF StopDone, NextBackend, TypeOK, SessionsOnlyToRunning,
       managed, sessions, history
<1>6. ASSUME NEW b \in Backends, Startup(b) \/ ProcessExits(b)
      PROVE  IdleInv'
  BY <1>6 DEF Startup, TaskSpawns, TaskReady, TaskFails, ProcessExits, managed, sessions,
     main, history
<1>7. CASE BeginShutdown \/ Exit
  BY <1>7 DEF BeginShutdown, Exit
<1>8. CASE Elapse
  BY <1>8, <1>t, <1>p DEF Elapse, Parked, Saturate, CountDown, TypeOK
<1>9. CASE Signal \/ UNCHANGED vars
  BY <1>9 DEF Signal, vars, managed, sessions, startup, main, history
<1> QED
  BY <1>1, <1>2, <1>3, <1>4, <1>5, <1>6, <1>7, <1>8, <1>9 DEF Next, Internal, Exited

\* Under IdleInv every stop by a tick is due.
LEMMA StopStep ==
    ASSUME ~StatusMayFail, Inv, IdleInv, [Next]_vars, NEW b \in Backends
    PROVE  StopIsDue(b)
<1> SUFFICES ASSUME StopsLiveServer(b)
             PROVE  quiet[b] >= IdleTimeout
  BY DEF StopIsDue
<1> USE DEF StopsLiveServer
<1>t. TypeOK
  BY DEF Inv
<1>1. WatchIdle(b)
  <2>1. PICK d \in Backends : WatchIdle(d) \/ WatchExited(d)
    BY <1>t DEF TypeOK, Next, Internal, HandleDatagram, ForwardDatagram, KnockOnSleeping,
       HoldWhileWaking, DropDatagram, TickStart, Tick, SettleNothing, SettleReady,
       SettleFailed, Settling, WatchOther, WatchError, WatchBusy, WatchEmpty, Shutdown,
       CloseSleeping, CloseRunning, CloseWaking, Closing, JoinReady, JoinFailed,
       JoinGivesUp, StopDone, Startup, TaskSpawns, TaskReady, TaskFails, ProcessExits,
       Signal, BeginShutdown, ShutdownDue, Exit, Exited, Elapse, vars, managed
  <2>2. d = b
    BY <2>1, <1>t DEF WatchIdle, WatchExited, TypeOK
  <2> QED
    BY <2>1, <2>2 DEF WatchExited
<1>2. empty_since[b] = None \/ empty_since[b] \in Nat
  BY <1>t, TimesAssumption DEF TypeOK
<1> QED
  BY <1>1, <1>2, <1>t, TimesAssumption
  DEF WatchIdle, EmptySince, IdleInv, QuietInv, Open, TypeOK

\* A tick stops a live server only after idle_timeout without a session, for
\* every session_timeout longer than the ticker period.
THEOREM StopsAreDue ==
    ASSUME ~StatusMayFail, SessionTimeout > TICK
    PROVE  Spec => StopsOnlyWhenIdle
<1>1. Inv /\ IdleInv /\ [Next]_vars => IdleInv'
  BY IdleStep
<1>2. Inv /\ IdleInv /\ [Next]_vars => [\A b \in Backends : StopIsDue(b)]_vars
  BY StopStep
<1> QED
  BY <1>1, <1>2, IdleInitially, Invariance, PTL DEF Spec, StopsOnlyWhenIdle
-----------------------------------------------------------------------------
(* Noticing a finished boot.  It may end just after its backend was visited: *)
(* then the stops of the backends after it in address order delay the end of *)
(* this pass, and those before it their turn in the next.                    *)

\* The longest n stops in a row can take.
Stops(n) == ShutdownGrace * n

\* A pass visits the backends in order, and the main task awaits the first of
\* those that are left.
OrderInv ==
    Open => /\ \A o \in Backends, b \in todo : b < o => o \in todo
            /\ phase = "serve" => todo = {}
            /\ parked # "no" => \A o \in todo : cur <= o

\* Only a boot that has succeeded waits, and not past its own turn.
ReadyInv ==
    Open => \A b \in Backends :
        /\ readyFor[b] # 0 => lifecycle[b] = "Waking" /\ task[b] = "ok"
        /\ phase = "watch" /\ First(b) => readyFor[b] = 0

\* The backends whose stops b may have waited for since its last turn: those
\* after it in the pass of that turn, and those before it in the next.
Spent(b) ==
    {o \in Backends : IF b \in todo THEN b < o \/ o \notin todo
                                    ELSE b < o /\ o \notin todo}

\* How much of the stop it awaits the main task has used up.
Spending == IF parked = "no" THEN 0 ELSE ShutdownGrace - graceLeft

\* What is left of the period before the pass that visits b.
Ahead(b) == IF b \in todo THEN 0 ELSE untilTick

DelayInv ==
    Open => \A b \in Backends :
        readyFor[b] + Ahead(b) <= TICK + Stops(Cardinality(Spent(b))) + Spending

NoticeInv == OrderInv /\ ReadyInv /\ DelayInv

\* More backends take at least as long to stop.
LEMMA StopsGrow ==
    ASSUME NEW S, NEW T \in SUBSET Backends, S \subseteq T
    PROVE  /\ Stops(Cardinality(S)) \in Nat /\ Stops(Cardinality(T)) \in Nat
           /\ Stops(Cardinality(S)) <= Stops(Cardinality(T))
<1>1. IsFiniteSet(T)
  BY RoutesAssumption, FS_Subset
<1>2. IsFiniteSet(S) /\ Cardinality(S) <= Cardinality(T)
  BY <1>1, FS_Subset
<1>3. Cardinality(S) \in Nat /\ Cardinality(T) \in Nat
  BY <1>1, <1>2, FS_CardinalityType
<1>4. \A g, m, n \in Nat : m <= n => g * m \in Nat /\ g * n \in Nat /\ g * m <= g * n
  OBVIOUS
<1> QED
  BY <1>2, <1>3, <1>4, TimesAssumption DEF Stops

\* One backend more, one grace more.
LEMMA StopsGrowByOne ==
    ASSUME NEW S, NEW T \in SUBSET Backends, S \subseteq T, NEW x \in T, x \notin S
    PROVE  /\ Stops(Cardinality(S)) \in Nat /\ Stops(Cardinality(T)) \in Nat
           /\ Stops(Cardinality(S)) + ShutdownGrace <= Stops(Cardinality(T))
<1>1. IsFiniteSet(S) /\ IsFiniteSet(T)
  BY RoutesAssumption, FS_Subset
<1>2. Cardinality(S) \in Nat /\ Cardinality(S \cup {x}) = Cardinality(S) + 1
  BY <1>1, FS_AddElement, FS_CardinalityType
<1>3. Stops(Cardinality(S \cup {x})) <= Stops(Cardinality(T))
      /\ Stops(Cardinality(S \cup {x})) \in Nat /\ Stops(Cardinality(T)) \in Nat
  BY StopsGrow
<1>4. \A g, n \in Nat : g * n \in Nat /\ g * (n + 1) = g * n + g
  OBVIOUS
<1> QED
  BY <1>2, <1>3, <1>4, TimesAssumption DEF Stops

\* Nothing has been started.
LEMMA NoticeInitially == Init => NoticeInv
<1> SUFFICES ASSUME Init PROVE NoticeInv
  OBVIOUS
<1>1. OrderInv /\ ReadyInv
  BY DEF Init, OrderInv, ReadyInv, First
<1>2. ASSUME NEW b \in Backends
      PROVE  readyFor[b] + Ahead(b) <= TICK + Stops(Cardinality(Spent(b))) + Spending
  <2>1. Stops(Cardinality(Spent(b))) \in Nat
    BY StopsGrow DEF Spent
  <2> QED
    BY <2>1, <1>2, TimesAssumption DEF Init, Ahead, Spending
<1> QED
  BY <1>1, <1>2 DEF NoticeInv, DelayInv

\* The order of the pass and the turn of a backend, step by step.
LEMMA TurnStep ==
    ASSUME Inv, OrderInv, ReadyInv, [Next]_vars
    PROVE  OrderInv' /\ ReadyInv'
<1> USE RoutesAssumption
<1> USE DEF OrderInv, ReadyInv, Open, First
<1>t. TypeOK
  BY DEF Inv
<1>p. parked # "no" => phase \in {"watch", "close"} /\ cur \in todo
  BY DEF Inv, Structure, ControlInv
<1>l. parked # "no" => lifecycle[cur] = "Sleeping"
  BY <1>t DEF Inv, Structure, LifecycleInv, TypeOK
<1>m. ASSUME NEW b \in Backends, phase = "watch", parked' = "no", First(b), NextBackend(b),
             UNCHANGED <<lifecycle, task, readyFor>>
      PROVE  OrderInv' /\ ReadyInv'
  <2>1. /\ todo' = todo \ {b} /\ phase' \in {"serve", "settle"}
        /\ phase' = "serve" => todo' = {}
    BY <1>m DEF NextBackend
  <2> QED
    BY <1>m, <1>t, <2>1 DEF TypeOK
<1>1. ASSUME NEW c \in Clients, NEW n \in Names \cup {None}, NEW i \in BOOLEAN,
             HandleDatagram(c, n, i)
      PROVE  OrderInv' /\ ReadyInv'
  <2>1. Target(c, n) \in Backends /\ phase = "serve"
    BY <1>1, <1>t, TargetType DEF HandleDatagram
  <2> QED
    BY <1>1, <1>t, <2>1 DEF HandleDatagram, ForwardDatagram, KnockOnSleeping, HoldWhileWaking,
       DropDatagram, TypeOK, vars, managed, sessions, startup, main, history
<1>2. CASE TickStart
  BY <1>2, <1>t, <1>p DEF TickStart, TypeOK, managed, startup, history
<1>3. ASSUME NEW b \in Backends, Tick(b)
      PROVE  OrderInv' /\ ReadyInv'
  <2>1. CASE SettleNothing(b)
    BY <2>1, <1>t DEF SettleNothing, Settling, is_finished, TypeOK, managed, startup, history
  <2>2. CASE SettleReady(b)
    BY <2>2, <1>t DEF SettleReady, Settling, TypeOK
  <2>3. CASE SettleFailed(b)
    BY <2>3, <1>t DEF SettleFailed, Settling, TypeOK, history
  <2>4. CASE WatchOther(b) \/ WatchError(b) \/ WatchBusy(b) \/ WatchEmpty(b)
    <3>1. /\ phase = "watch" /\ parked' = "no" /\ First(b) /\ NextBackend(b)
          /\ UNCHANGED <<lifecycle, task, readyFor>>
      BY <2>4 DEF WatchOther, WatchError, WatchBusy, WatchEmpty, ErrorSkipsBackend,
         Watched, Watching, managed, startup, history
    <3> QED
      BY <1>m, <3>1
  <2>5. CASE WatchExited(b)
    BY <2>5, <1>t DEF WatchExited, Watched, Watching, NextBackend, TypeOK, history
  <2>6. CASE WatchIdle(b)
    BY <2>6, <1>t DEF WatchIdle, Watched, Watching, AwaitStop, TypeOK, startup, history
  <2> QED
    BY <1>3, <2>1, <2>2, <2>3, <2>4, <2>5, <2>6 DEF Tick
<1>4. ASSUME NEW b \in Backends, Shutdown(b)
      PROVE  OrderInv' /\ ReadyInv'
  <2>1. phase' = "close"
    BY <1>4, <1>p DEF Shutdown, CloseSleeping, CloseRunning, CloseWaking, Closing,
       JoinReady, JoinFailed, JoinGivesUp, AwaitStop, AwaitTask, Inv, Structure, ControlInv
  <2> QED
    BY <2>1
<1>5. ASSUME NEW b \in Backends, StopDone(b)
      PROVE  OrderInv' /\ ReadyInv'
  <2>1. phase \in {"watch", "close"} /\ cur = b /\ cur \in todo
    BY <1>5, <1>p DEF StopDone
  <2>2. CASE phase = "watch"
    <3>1. /\ parked' = "no" /\ First(b) /\ NextBackend(b)
          /\ UNCHANGED <<lifecycle, task, readyFor>>
      BY <1>5, <2>1, <2>2 DEF StopDone, Unpark, managed, history
    <3> QED
      BY <1>m, <2>2, <3>1
  <2>3. CASE phase = "close"
    BY <1>5, <2>3 DEF StopDone
  <2> QED
    BY <2>1, <2>2, <2>3
<1>6. ASSUME NEW b \in Backends, Startup(b) \/ ProcessExits(b)
      PROVE  OrderInv' /\ ReadyInv'
  <2>1. UNCHANGED <<lifecycle, readyFor, phase, todo, parked, cur>>
    BY <1>6 DEF Startup, TaskSpawns, TaskReady, TaskFails, ProcessExits, managed, main, history
  <2>2. \A o \in Backends : task[o] = "ok" => task'[o] = "ok"
    BY <1>6, <1>t DEF Startup, TaskSpawns, TaskReady, TaskFails, ProcessExits, TypeOK
  <2> QED
    BY <2>1, <2>2
<1>7. CASE BeginShutdown \/ Exit
  BY <1>7 DEF BeginShutdown, Exit
<1>8. CASE Elapse
  BY <1>8, <1>t, <1>p, <1>l DEF Elapse, Parked, TypeOK, startup
<1>9. CASE Signal \/ UNCHANGED vars
  BY <1>9 DEF Signal, vars, managed, sessions, startup, main, history
<1> QED
  BY <1>1, <1>2, <1>3, <1>4, <1>5, <1>6, <1>7, <1>8, <1>9 DEF Next, Internal, Exited

\* A step that moves neither the pass nor the clock moves no bound.
LEMMA DelayStutter ==
    ASSUME DelayInv, NEW b \in Backends, Open, UNCHANGED <<todo, untilTick, Spending>>,
           readyFor'[b] \in {readyFor[b], 0}, TypeOK
    PROVE  (readyFor[b] + Ahead(b) <= TICK + Stops(Cardinality(Spent(b))) + Spending)'
<1>1. Spent(b)' = Spent(b) /\ Ahead(b)' = Ahead(b) /\ Ahead(b) \in Nat
  BY TimesAssumption DEF Spent, Ahead, TypeOK
<1>2. Stops(Cardinality(Spent(b))) \in Nat /\ Spending \in Nat /\ readyFor[b] \in Nat
  BY StopsGrow, TimesAssumption DEF Spent, Spending, TypeOK
<1>3. Stops(Cardinality(Spent(b)))' = Stops(Cardinality(Spent(b)))
  BY <1>1 DEF Stops
<1> QED
  BY <1>1, <1>2, <1>3, TimesAssumption DEF DelayInv

\* When the pass moves on, the backend it leaves has waited for nothing, and
\* every other may have waited for its stop.
LEMMA DelayMovesOn ==
    ASSUME DelayInv, OrderInv, ReadyInv, TypeOK, Open,
           NEW b \in Backends, First(b), phase = "watch", todo' = todo \ {b},
           UNCHANGED <<untilTick, readyFor>>, Spending' = 0,
           NEW o \in Backends
    PROVE  (readyFor[o] + Ahead(o) <= TICK + Stops(Cardinality(Spent(o))) + Spending)'
<1> USE TimesAssumption
<1>1. /\ readyFor[o] \in Nat /\ Ahead(o) \in Nat /\ Spending \in 0..ShutdownGrace
      /\ untilTick \in 0..TICK
  BY DEF TypeOK, Ahead, Spending
<1>2. Spent(o)' \in SUBSET Backends
  BY DEF Spent
<1>3. CASE o = b
  <2>1. readyFor[o] = 0 /\ Ahead(o)' = untilTick
    BY <1>3 DEF ReadyInv, Ahead
  <2>2. Stops(Cardinality(Spent(o)')) \in Nat
    BY <1>2, StopsGrow
  <2>3. Stops(Cardinality(Spent(o)))' = Stops(Cardinality(Spent(o)'))
    BY DEF Stops
  <2> QED
    BY <1>1, <2>1, <2>2, <2>3
<1>4. CASE o # b
  <2>1. Ahead(o)' = Ahead(o)
    BY <1>4 DEF Ahead
  <2>2. b \in Nat /\ o \in Nat
    BY RoutesAssumption
  <2>3. o \in todo => b < o
    BY <1>4, <2>2 DEF First
  <2>4. o \notin todo => o < b
    BY <1>4, <2>2 DEF OrderInv, First, Open
  <2>5. Spent(o) \subseteq Spent(o)' /\ b \in Spent(o)' /\ b \notin Spent(o)
    BY <1>4, <2>2, <2>3, <2>4 DEF Spent, First
  <2>6. /\ Stops(Cardinality(Spent(o))) \in Nat /\ Stops(Cardinality(Spent(o)')) \in Nat
        /\ Stops(Cardinality(Spent(o))) + ShutdownGrace <= Stops(Cardinality(Spent(o)'))
    BY <1>2, <2>5, StopsGrowByOne
  <2>7. Stops(Cardinality(Spent(o)))' = Stops(Cardinality(Spent(o)'))
    BY DEF Stops
  <2> QED
    BY <1>1, <2>1, <2>6, <2>7 DEF DelayInv
<1> QED
  BY <1>3, <1>4

\* Every step keeps the account of how long a finished boot has waited.
LEMMA DelayStep ==
    ASSUME Inv, NoticeInv, [Next]_vars
    PROVE  DelayInv'
<1> USE RoutesAssumption, TimesAssumption
<1> USE DEF NoticeInv
<1>t. TypeOK
  BY DEF Inv
<1>p. parked # "no" => phase \in {"watch", "close"} /\ cur \in todo
  BY DEF Inv, Structure, ControlInv
<1> SUFFICES ASSUME Open', NEW o \in Backends
             PROVE  (readyFor[o] + Ahead(o) <= TICK + Stops(Cardinality(Spent(o))) + Spending)'
  BY DEF DelayInv
<1> DEFINE Goal == (readyFor[o] + Ahead(o) <= TICK + Stops(Cardinality(Spent(o))) + Spending)'
<1> HIDE DEF Goal
<1>0. Open /\ UNCHANGED <<todo, untilTick, Spending>> /\ readyFor'[o] \in {readyFor[o], 0}
        => Goal
  BY <1>t, DelayStutter DEF Goal
<1>1. ASSUME NEW c \in Clients, NEW n \in Names \cup {None}, NEW i \in BOOLEAN,
             HandleDatagram(c, n, i)
      PROVE  Goal
  BY <1>0, <1>1 DEF HandleDatagram, ForwardDatagram, KnockOnSleeping, HoldWhileWaking,
     DropDatagram, Open, Spending, vars, main, history
<1>2. CASE TickStart
  <2>1. untilTick = 0 /\ todo = {} /\ todo' = Backends /\ Open /\ UNCHANGED readyFor
    BY <1>2 DEF TickStart, OrderInv, Open, history
  <2>2. Spent(o)' = Spent(o) /\ Ahead(o)' = 0 /\ Ahead(o) = 0 /\ Spending' = Spending
    BY <1>2, <2>1 DEF Spent, Ahead, TickStart, Spending
  <2>3. Stops(Cardinality(Spent(o)))' = Stops(Cardinality(Spent(o)))
    BY <2>2 DEF Stops
  <2> QED
    BY <2>1, <2>2, <2>3 DEF DelayInv, Goal
<1>3. ASSUME NEW b \in Backends, Tick(b)
      PROVE  Goal
  <2>1. CASE SettleNothing(b) \/ SettleFailed(b)
    BY <1>0, <2>1 DEF SettleNothing, SettleFailed, Settling, Open, Spending, history
  <2>2. CASE SettleReady(b)
    BY <1>0, <1>t, <2>2 DEF SettleReady, Settling, Open, Spending, TypeOK
  <2>3. CASE WatchOther(b) \/ WatchExited(b) \/ WatchError(b) \/ WatchBusy(b) \/ WatchEmpty(b)
    <3>1. /\ phase = "watch" /\ Open /\ First(b) /\ todo' = todo \ {b}
          /\ UNCHANGED <<untilTick, readyFor>> /\ Spending' = 0
      BY <2>3 DEF WatchOther, WatchExited, WatchError, WatchBusy, WatchEmpty, Watched, Watching,
         ErrorSkipsBackend, NextBackend, Open, Spending, history
    <3> QED
      BY <1>t, <3>1, DelayMovesOn DEF Goal
  <2>4. CASE WatchIdle(b)
    BY <1>0, <2>4 DEF WatchIdle, Watched, Watching, AwaitStop, Open, Spending, history
  <2> QED
    BY <1>3, <2>1, <2>2, <2>3, <2>4 DEF Tick
<1>4. ASSUME NEW b \in Backends, Shutdown(b)
      PROVE  FALSE
  <2>1. phase' = "close"
    BY <1>4, <1>p DEF Shutdown, CloseSleeping, CloseRunning, CloseWaking, Closing,
       JoinReady, JoinFailed, JoinGivesUp, AwaitStop, AwaitTask, Inv, Structure, ControlInv
  <2> QED
    BY <2>1 DEF Open
<1>5. ASSUME NEW b \in Backends, StopDone(b)
      PROVE  Goal
  <2>1. phase = "watch" /\ cur = b /\ cur \in todo /\ parked = "stop"
    BY <1>5, <1>p DEF StopDone, Open
  <2>2. /\ Open /\ First(b) /\ todo' = todo \ {b}
        /\ UNCHANGED <<untilTick, readyFor>> /\ Spending' = 0
    BY <1>5, <2>1 DEF StopDone, NextBackend, Unpark, OrderInv, Open, First, Spending, history
  <2> QED
    BY <1>t, <2>1, <2>2, DelayMovesOn DEF Goal
<1>6. ASSUME NEW b \in Backends, Startup(b) \/ ProcessExits(b)
      PROVE  Goal
  BY <1>0, <1>6 DEF Startup, TaskSpawns, TaskReady, TaskFails, ProcessExits, Open, Spending,
     main, history
<1>7. CASE BeginShutdown \/ Exit
  BY <1>7 DEF BeginShutdown, Exit, Open
<1>8. CASE Elapse
  <2>1. Open /\ Spent(o)' = Spent(o)
    BY <1>8 DEF Elapse, Open, Spent
  <2>2. Stops(Cardinality(Spent(o)))' = Stops(Cardinality(Spent(o)))
        /\ Stops(Cardinality(Spent(o))) \in Nat
    BY <2>1, StopsGrow DEF Stops, Spent
  <2>3. readyFor[o] \in Nat /\ readyFor'[o] \in Nat /\ readyFor'[o] <= readyFor[o] + 1
    BY <1>8, <1>t, StopsGrow DEF Elapse, Saturate, TypeOK
  <2>4. CASE phase = "serve"
    <3>1. parked = "no" /\ untilTick \in 1..TICK /\ untilTick' = untilTick - 1 /\ todo = {}
      BY <1>8, <1>t, <1>p, <2>4, <2>1 DEF Elapse, Parked, CountDown, TypeOK, OrderInv
    <3>2. Spending = 0 /\ Spending' = 0 /\ Ahead(o) = untilTick /\ Ahead(o)' = untilTick - 1
      BY <1>8, <3>1 DEF Spending, Ahead, Elapse
    <3> QED
      BY <2>1, <2>2, <2>3, <3>1, <3>2 DEF DelayInv, Goal
  <2>5. CASE phase # "serve"
    <3>1. parked # "no" /\ graceLeft \in 1..ShutdownGrace /\ graceLeft' = graceLeft - 1
      BY <1>8, <1>t, <2>5 DEF Elapse, Parked, CountDown, TypeOK
    <3>2. Spending = ShutdownGrace - graceLeft /\ Spending' = Spending + 1 /\ Spending \in Nat
      BY <1>8, <3>1 DEF Spending, Elapse
    <3>3. Ahead(o) \in Nat /\ Ahead(o)' \in Nat /\ Ahead(o)' <= Ahead(o)
      BY <1>8, <1>t DEF Ahead, Elapse, CountDown, TypeOK
    <3> QED
      BY <2>1, <2>2, <2>3, <3>2, <3>3 DEF DelayInv, Goal
  <2> QED
    BY <2>4, <2>5
<1>9. CASE Signal \/ UNCHANGED vars
  <2>1. UNCHANGED <<phase, todo, parked, graceLeft, untilTick, readyFor>>
    BY <1>9 DEF Signal, vars, main, history
  <2>2. Open /\ Spending' = Spending /\ readyFor'[o] = readyFor[o]
    BY <2>1 DEF Open, Spending
  <2> QED
    BY <1>0, <2>1, <2>2 DEF Goal
<1> QED
  BY <1>1, <1>2, <1>3, <1>4, <1>5, <1>6, <1>7, <1>8, <1>9 DEF Next, Internal, Exited, Goal

\* The account never exceeds one period and one stop of each other backend.
LEMMA NoticeBounded == Inv /\ NoticeInv => NoticedInTime
<1> SUFFICES ASSUME Inv, NoticeInv, Open, NEW b \in Backends
             PROVE  readyFor[b] <= NoticeBound
  BY DEF NoticedInTime
<1> USE TimesAssumption
<1> DEFINE Others == Backends \ {b}
<1>1. IsFiniteSet(Backends) /\ Cardinality(Others) = Cardinality(Backends) - 1
  BY RoutesAssumption, FS_RemoveElement
<1>2. NoticeBound = TICK + Stops(Cardinality(Others))
  BY <1>1 DEF NoticeBound, Stops
<1>3. readyFor[b] \in Nat /\ Ahead(b) \in Nat /\ Spending \in 0..ShutdownGrace
  BY DEF Inv, TypeOK, Ahead, Spending
<1>4. readyFor[b] <= TICK + Stops(Cardinality(Spent(b))) + Spending
  <2>1. Stops(Cardinality(Spent(b))) \in Nat
    BY StopsGrow DEF Spent
  <2> QED
    BY <1>3, <2>1 DEF NoticeInv, DelayInv
<1>5. Spent(b) \subseteq Others
  BY RoutesAssumption DEF Spent
<1>6. CASE parked = "no"
  BY <1>2, <1>3, <1>4, <1>5, <1>6, StopsGrow DEF Spending
<1>7. CASE parked # "no" /\ cur = b
  <2>1. readyFor[b] = 0
    BY <1>7 DEF Inv, Structure, LifecycleInv, NoticeInv, ReadyInv
  <2> QED
    BY <1>2, <2>1, StopsGrow
<1>8. CASE parked # "no" /\ cur # b
  <2>1. cur \in Others /\ cur \in todo
    BY <1>8 DEF Inv, TypeOK, Structure, ControlInv
  <2>2. cur \notin Spent(b)
    BY <1>8, <2>1, RoutesAssumption DEF Spent, NoticeInv, OrderInv
  <2>3. /\ Stops(Cardinality(Spent(b))) \in Nat /\ Stops(Cardinality(Others)) \in Nat
        /\ Stops(Cardinality(Spent(b))) + ShutdownGrace <= Stops(Cardinality(Others))
    BY <1>5, <2>1, <2>2, StopsGrowByOne
  <2> QED
    BY <1>2, <1>3, <1>4, <2>3
<1> QED
  BY <1>6, <1>7, <1>8

\* A finished boot is noticed within one ticker period and one stop of each
\* other backend, however many there are and whichever of them fail.
THEOREM NoticedSafe == Spec => []NoticedInTime
<1>1. Inv /\ NoticeInv /\ [Next]_vars => NoticeInv'
  BY TurnStep, DelayStep DEF NoticeInv
<1> QED
  BY <1>1, NoticeInitially, NoticeBounded, Invariance, PTL DEF Spec
=============================================================================
