---------------------------- MODULE RelayProofs ----------------------------
(***************************************************************************)
(* Relay does nothing Proxy does not do, and reaps nobody much too early,  *)
(* for any size of the receive buffer.                                     *)
(***************************************************************************)
EXTENDS Relay, ProxyTimeProofs, WellFoundedInduction

-----------------------------------------------------------------------------
(* Relay implements Proxy *)

RelayType ==
    /\ socket \in Seq(Datagram) /\ Len(socket) <= MaxWaiting
    /\ silent \in [Clients -> 0..SessionTimeout]

\* The buffer holds datagrams, and no more than it has room for.
LEMMA RelayTypeStep == RelayType /\ [RelayNext]_allVars => RelayType'
<1> SUFFICES ASSUME RelayType, [RelayNext]_allVars PROVE RelayType'
  OBVIOUS
<1> USE DEF RelayType
<1> USE TimesAssumption, BufferAssumption
<1>1. ASSUME NEW d \in Datagram, Arrive(d) PROVE RelayType'
  BY <1>1 DEF Arrive
<1>2. CASE Read
  <2>1. socket # <<>> /\ Head(socket) \in Datagram /\ socket' = Tail(socket)
        /\ silent' = [silent EXCEPT ![Head(socket).from] = 0]
    BY <1>2 DEF Read
  <2>2. Head(socket).from \in Clients
    BY <2>1 DEF Datagram
  <2> QED
    BY <2>1, <2>2
<1>3. CASE (\E c \in Clients : PumpFails(c)) \/ Beside(Internal)
  BY <1>3 DEF PumpFails, Beside
<1>4. CASE RelayElapse
  BY <1>4 DEF RelayElapse, Saturate
<1>5. CASE UNCHANGED allVars
  BY <1>5 DEF allVars, relayVars
<1> QED
  BY <1>1, <1>2, <1>3, <1>4, <1>5 DEF RelayNext

\* Every step of Relay is a step of Proxy or concerns the sockets alone.
LEMMA StepOfProxy == RelayType /\ [RelayNext]_allVars => [Next]_vars
<1> SUFFICES ASSUME RelayType, [RelayNext]_allVars PROVE [Next]_vars
  OBVIOUS
<1>1. CASE Read
  <2>1. Head(socket) \in Datagram
    BY <1>1 DEF Read, RelayType
  <2>2. /\ Head(socket).from \in Clients /\ Head(socket).name \in Names \cup {None}
        /\ Head(socket).initial \in BOOLEAN
    BY <2>1 DEF Datagram
  <2> QED
    BY <1>1, <2>2 DEF Read, Next
<1>2. CASE (\E d \in Datagram : Arrive(d)) \/ (\E c \in Clients : PumpFails(c))
           \/ UNCHANGED allVars
  BY <1>2 DEF Arrive, PumpFails, allVars
<1>3. CASE Beside(Internal) \/ RelayElapse
  BY <1>3 DEF Beside, RelayElapse, Next
<1> QED
  BY <1>1, <1>2, <1>3 DEF RelayNext

\* The socket is empty at first.
LEMMA RelayTypeInitially == RelayInit => RelayType
<1> QED
  BY TimesAssumption, BufferAssumption DEF RelayInit, RelayType

\* With its sockets the proxy still does only what Proxy does, so whatever is
\* proved of Proxy holds of it.
THEOREM RelayImplementsProxy == RelaySpec => Spec
<1>1. RelayInit => Init
  BY DEF RelayInit
<1> QED
  BY <1>1, RelayTypeInitially, RelayTypeStep, StepOfProxy, PTL DEF RelaySpec, Spec

\* In particular, however datagrams queue up, a tick stops a live server only
\* after idle_timeout without a session.
THEOREM RelayStopsAreDue ==
    ASSUME ~StatusMayFail, SessionTimeout > TICK
    PROVE  RelaySpec => StopsOnlyWhenIdle
<1> QED
  BY RelayImplementsProxy, StopsAreDue

-----------------------------------------------------------------------------
(* Reaping *)

\* Only an await has a timeout.
GraceInv == parked = "no" => graceLeft = 0

\* The first datagram of c that waits is the i-th.
FirstOf(c, i) == socket[i].from = c /\ \A j \in 1..(i - 1) : socket[j].from # c

\* The backends that may still be stopped before that datagram is read, as long
\* as no other is woken: not c's own, which has a session.
Awake(c) == {o \in Backends : o # sessionBackend[c] /\ lifecycle[o] # "Sleeping"}

\* Their stops, and what is left of the one under way.
StopsLeft(c) == Stops(Cardinality(Awake(c))) + graceLeft

\* How long the i-th datagram may still have to wait, if it is one of c: each of
\* those before it may wake one more backend.
Wait(c, i) == StopsLeft(c) + Stops(i - 1)

\* The longest the last datagram of a full buffer may have to.
QueuedWait == StopsOfOthers + ShutdownGrace * (MaxWaiting - 1)

\* While no datagram of c waits, last_seen is no older than its silence.
SeenInv ==
    \A c \in Clients : sessionBackend[c] # None /\ ~Waits(c) => lastSeen[c] <= silent[c]

\* While one does, last_seen is older by no more than it has waited so far.
LagInv ==
    \A c \in Clients : \A i \in 1..Len(socket) :
        sessionBackend[c] # None /\ FirstOf(c, i) =>
            lastSeen[c] + Wait(c, i) <= silent[c] + QueuedWait

ReapInv == GraceInv /\ SeenInv /\ LagInv

\* The waits are made of whole stops.
LEMMA QueuedWaitStops ==
    /\ QueuedWait = Stops(Cardinality(Backends) - 1) + Stops(MaxWaiting - 1)
    /\ StopsOfOthers = Stops(Cardinality(Backends) - 1)
    /\ QueuedWait \in Nat /\ Stops(Cardinality(Backends) - 1) \in Nat
    /\ Stops(MaxWaiting - 1) \in Nat
<1>1. Cardinality(Backends) - 1 \in Nat
  <2>1. IsFiniteSet(Backends) /\ Default \in Backends
    BY RoutesAssumption
  <2>2. /\ IsFiniteSet(Backends \ {Default})
        /\ Cardinality(Backends \ {Default}) = Cardinality(Backends) - 1
    BY <2>1, FS_RemoveElement
  <2> QED
    BY <2>2, FS_CardinalityType
<1>2. MaxWaiting - 1 \in Nat
  BY BufferAssumption
<1>3. \A g, m \in Nat : g * m \in Nat
  OBVIOUS
<1> QED
  BY <1>1, <1>2, <1>3, TimesAssumption DEF QueuedWait, StopsOfOthers, Stops

\* A place in the buffer is no further back than its end.
LEMMA PlaceInBuffer ==
    ASSUME NEW i \in Nat \ {0}, i <= MaxWaiting
    PROVE  Stops(i - 1) \in Nat /\ Stops(i - 1) <= Stops(MaxWaiting - 1)
<1>1. i - 1 \in Nat /\ MaxWaiting - 1 \in Nat /\ i - 1 <= MaxWaiting - 1
  BY BufferAssumption
<1>2. \A g, m, n \in Nat : m <= n => g * m \in Nat /\ g * m <= g * n
  OBVIOUS
<1> QED
  BY <1>1, <1>2, TimesAssumption DEF Stops

Room ==
    \A c \in Clients : \A i \in 1..Len(socket) :
        sessionBackend[c] # None => Wait(c, i) \in Nat /\ Wait(c, i) <= QueuedWait

\* The stop under way and one of each backend in X, none of which is c's own.
LEMMA RoomForStops ==
    ASSUME Inv, GraceInv, NEW c \in Clients, sessionBackend[c] # None, NEW X, X \subseteq Awake(c)
    PROVE  /\ Stops(Cardinality(X)) \in Nat
           /\ Stops(Cardinality(X)) + graceLeft <= Stops(Cardinality(Backends) - 1)
<1> DEFINE s == sessionBackend[c]
           Others == Backends \ {s}
<1>1. s \in Backends /\ lifecycle[s] = "Running"
  BY DEF Inv, TypeOK, Structure, SessionInv, SessionsOnlyToRunning
<1>2. Cardinality(Others) = Cardinality(Backends) - 1
  <2>1. IsFiniteSet(Backends)
    BY RoutesAssumption
  <2> HIDE DEF s
  <2> QED
    BY <1>1, <2>1, FS_RemoveElement
<1>3. X \subseteq Others
  BY DEF Awake
<1>4. graceLeft \in 0..ShutdownGrace
  BY DEF Inv, TypeOK
<1>5. CASE parked = "no"
  BY <1>2, <1>3, <1>5, StopsGrow DEF GraceInv
<1>6. CASE parked # "no"
  <2>1. lifecycle[cur] = "Sleeping" /\ cur \in Backends
    BY <1>6 DEF Inv, TypeOK, Structure, LifecycleInv
  <2>2. cur \in Others /\ cur \notin X
    BY <1>1, <2>1 DEF Awake
  <2>3. Stops(Cardinality(X)) \in Nat /\ Stops(Cardinality(Others)) \in Nat
        /\ Stops(Cardinality(X)) + ShutdownGrace <= Stops(Cardinality(Others))
    BY <1>3, <2>2, StopsGrowByOne
  <2> QED
    BY <1>2, <1>4, <2>3, TimesAssumption
<1> QED
  BY <1>5, <1>6

\* Whatever is still to wait for never exceeds the longest wait.
LEMMA RoomAlways == Inv /\ RelayType /\ GraceInv => Room
<1> SUFFICES ASSUME Inv, RelayType, GraceInv,
                    NEW c \in Clients, NEW i \in 1..Len(socket), sessionBackend[c] # None
             PROVE  Wait(c, i) \in Nat /\ Wait(c, i) <= QueuedWait
  BY DEF Room
<1>1. Stops(i - 1) \in Nat /\ Stops(i - 1) <= Stops(MaxWaiting - 1)
  <2>1. Len(socket) \in Nat /\ Len(socket) <= MaxWaiting /\ MaxWaiting \in Nat
    BY BufferAssumption DEF RelayType
  <2>2. i \in Nat \ {0} /\ i <= MaxWaiting
    BY <2>1
  <2> QED
    BY <2>2, PlaceInBuffer
<1>2. /\ Stops(Cardinality(Awake(c))) \in Nat
      /\ Stops(Cardinality(Awake(c))) + graceLeft <= Stops(Cardinality(Backends) - 1)
  BY RoomForStops
<1>3. graceLeft \in Nat
  BY TimesAssumption DEF Inv, TypeOK
<1> QED
  BY <1>1, <1>2, <1>3, QueuedWaitStops DEF Wait, StopsLeft

\* The timeout goes with the await.
LEMMA GraceStep == Inv /\ GraceInv /\ [Next]_vars => GraceInv'
<1> SUFFICES ASSUME Inv, GraceInv, [Next]_vars PROVE GraceInv'
  OBVIOUS
<1> USE DEF GraceInv
<1>1. CASE \E c \in Clients, n \in Names \cup {None}, i \in BOOLEAN : HandleDatagram(c, n, i)
  <2>1. UNCHANGED main
    BY <1>1 DEF HandleDatagram, ForwardDatagram, KnockOnSleeping, HoldWhileWaking,
       DropDatagram, vars
  <2> QED
    BY <2>1 DEF main
<1>2. ASSUME NEW b \in Backends, Tick(b) PROVE GraceInv'
  BY <1>2 DEF Tick, SettleNothing, SettleReady, SettleFailed, WatchOther, WatchExited,
     WatchError, WatchBusy, WatchEmpty, WatchIdle, AwaitStop
<1>3. ASSUME NEW b \in Backends, Shutdown(b) \/ StopDone(b) PROVE GraceInv'
  BY <1>3 DEF Shutdown, CloseSleeping, CloseRunning, CloseWaking, JoinReady, JoinFailed,
     JoinGivesUp, StopDone, AwaitStop, AwaitTask, Unpark
<1>4. ASSUME NEW b \in Backends, Startup(b) \/ ProcessExits(b) PROVE GraceInv'
  BY <1>4 DEF Startup, TaskSpawns, TaskReady, TaskFails, ProcessExits, main
<1>5. CASE TickStart \/ Signal \/ BeginShutdown \/ Exit \/ UNCHANGED vars
  BY <1>5 DEF TickStart, Signal, BeginShutdown, Exit, vars, main
<1>6. CASE Elapse
  BY <1>6 DEF Elapse, CountDown
<1> QED
  BY <1>1, <1>2, <1>3, <1>4, <1>5, <1>6 DEF Next, Internal, Exited

\* A step in which no backend wakes up, while c keeps its session.
LEMMA FewerAwake ==
    ASSUME TypeOK, NEW c \in Clients, sessionBackend'[c] = sessionBackend[c],
           graceLeft' <= graceLeft, graceLeft' \in Nat,
           \A o \in Backends : lifecycle'[o] # "Sleeping" => lifecycle[o] # "Sleeping"
    PROVE  StopsLeft(c)' <= StopsLeft(c)
<1>1. Awake(c)' \subseteq Awake(c) /\ Awake(c) \in SUBSET Backends
  BY DEF Awake
<1>2. /\ Stops(Cardinality(Awake(c)')) \in Nat /\ Stops(Cardinality(Awake(c))) \in Nat
      /\ Stops(Cardinality(Awake(c)')) <= Stops(Cardinality(Awake(c)))
  BY <1>1, StopsGrow
<1>3. Stops(Cardinality(Awake(c)))' = Stops(Cardinality(Awake(c)'))
  BY DEF Stops
<1> QED
  BY <1>2, <1>3, TimesAssumption DEF StopsLeft, TypeOK

\* No step but a read adds to what c waits for; no step but Elapse makes its
\* last_seen older.
LEMMA InternalStep ==
    ASSUME Inv, GraceInv, Internal, Open', NEW c \in Clients, sessionBackend'[c] # None
    PROVE  \/ lastSeen'[c] = 0
           \/ /\ sessionBackend'[c] = sessionBackend[c] /\ lastSeen'[c] = lastSeen[c]
              /\ StopsLeft(c)' <= StopsLeft(c)
<1> USE TimesAssumption, RoutesAssumption
<1>t. TypeOK
  BY DEF Inv
<1>p. parked # "no" => phase \in {"watch", "close"} /\ cur \in todo
  BY DEF Inv, Structure, ControlInv
<1>g. graceLeft \in Nat
  BY <1>t DEF TypeOK
<1> DEFINE Kept == sessionBackend'[c] = sessionBackend[c] /\ lastSeen'[c] = lastSeen[c]
           Goal == lastSeen'[c] = 0 \/ (Kept /\ StopsLeft(c)' <= StopsLeft(c))
<1>0. ASSUME Kept, graceLeft' <= graceLeft, graceLeft' \in Nat,
             \A o \in Backends : lifecycle'[o] # "Sleeping" => lifecycle[o] # "Sleeping"
      PROVE  Goal
  BY <1>0, <1>t, FewerAwake
<1> HIDE DEF Goal
<1>1. CASE TickStart
  BY <1>0, <1>1, <1>t, <1>g DEF Goal, TickStart, DropSessions, TypeOK, managed
<1>2. ASSUME NEW b \in Backends, Tick(b)
      PROVE  Goal
  <2>1. CASE SettleNothing(b) \/ WatchOther(b) \/ WatchError(b)
    BY <1>0, <1>g, <2>1 DEF SettleNothing, WatchOther, WatchError, managed, sessions
  <2>2. CASE SettleReady(b)
    <3>1. lastSeen'[c] = 0 \/ Kept
      BY <2>2, <1>t DEF SettleReady, deliver_held, session_for, PinOrKeep, Refresh, TypeOK
    <3>2. \A o \in Backends : lifecycle'[o] # "Sleeping" => lifecycle[o] # "Sleeping"
      BY <2>2, <1>t DEF SettleReady, TypeOK
    <3>3. graceLeft' = graceLeft
      BY <2>2 DEF SettleReady
    <3> QED
      BY <1>0, <1>g, <3>1, <3>2, <3>3 DEF Goal
  <2>3. CASE SettleFailed(b)
    BY <1>0, <1>g, <1>t, <2>3 DEF SettleFailed, TypeOK, sessions
  <2>4. CASE WatchExited(b)
    BY <1>0, <1>g, <1>t, <2>4 DEF WatchExited, DropSessions, TypeOK
  <2>5. CASE WatchBusy(b) \/ WatchEmpty(b)
    BY <1>0, <1>g, <2>5 DEF WatchBusy, WatchEmpty, sessions
  <2>6. CASE WatchIdle(b)
    <3>1. /\ Kept /\ graceLeft = 0 /\ graceLeft' = ShutdownGrace
          /\ sessionBackend[c] # b /\ lifecycle[b] = "Running"
      BY <2>6 DEF WatchIdle, Watched, Watching, AwaitStop, NoSessions, GraceInv, sessions
    <3>2. lifecycle' = [lifecycle EXCEPT ![b] = "Sleeping"]
      BY <2>6 DEF WatchIdle
    <3>3. /\ Awake(c)' \subseteq Awake(c) /\ Awake(c) \in SUBSET Backends
          /\ b \in Awake(c) /\ b \notin Awake(c)'
      BY <1>t, <3>1, <3>2 DEF Awake, TypeOK
    <3>4. /\ Stops(Cardinality(Awake(c)')) \in Nat /\ Stops(Cardinality(Awake(c))) \in Nat
          /\ Stops(Cardinality(Awake(c)')) + ShutdownGrace <= Stops(Cardinality(Awake(c)))
      BY <3>3, StopsGrowByOne
    <3>5. Stops(Cardinality(Awake(c)))' = Stops(Cardinality(Awake(c)'))
      BY DEF Stops
    <3> QED
      BY <3>1, <3>4, <3>5 DEF Goal, StopsLeft
  <2> QED
    BY <1>2, <2>1, <2>2, <2>3, <2>4, <2>5, <2>6 DEF Tick
<1>3. ASSUME NEW b \in Backends, Shutdown(b)
      PROVE  FALSE
  <2>1. phase' = "close"
    BY <1>3, <1>p DEF Shutdown, CloseSleeping, CloseRunning, CloseWaking, Closing,
       JoinReady, JoinFailed, JoinGivesUp, AwaitStop, AwaitTask, Inv, Structure, ControlInv
  <2> QED
    BY <2>1 DEF Open
<1>4. ASSUME NEW b \in Backends, StopDone(b)
      PROVE  Goal
  BY <1>0, <1>4, <1>g DEF StopDone, Unpark, managed, sessions
<1>5. ASSUME NEW b \in Backends, Startup(b) \/ ProcessExits(b)
      PROVE  Goal
  BY <1>0, <1>5, <1>g DEF Startup, TaskSpawns, TaskReady, TaskFails, ProcessExits, managed,
     sessions, main
<1>6. CASE Signal \/ Exited
  BY <1>0, <1>6, <1>g DEF Goal, Signal, Exited, vars, managed, sessions, main
<1>7. CASE BeginShutdown \/ Exit
  BY <1>7 DEF BeginShutdown, Exit, Open
<1> QED
  BY <1>1, <1>2, <1>3, <1>4, <1>5, <1>6, <1>7 DEF Internal, Goal

\* A read of another client's datagram wakes at most one backend; a read of c's
\* own brings its last_seen up to date.
LEMMA ReadStep ==
    ASSUME Inv, NEW d \in Clients, NEW n \in Names \cup {None}, NEW i \in BOOLEAN,
           HandleDatagram(d, n, i), NEW c \in Clients, sessionBackend'[c] # None
    PROVE  \/ lastSeen'[c] = 0
           \/ /\ d # c
              /\ sessionBackend'[c] = sessionBackend[c] /\ lastSeen'[c] = lastSeen[c]
              /\ StopsLeft(c)' <= StopsLeft(c) + ShutdownGrace
<1> USE TimesAssumption, RoutesAssumption
<1>t. TypeOK
  BY DEF Inv
<1>s. SessionsOnlyToRunning
  BY DEF Inv, Structure, SessionInv
<1>g. graceLeft \in Nat
  BY <1>t DEF TypeOK
<1> DEFINE b == Target(d, n)
           Kept == sessionBackend'[c] = sessionBackend[c] /\ lastSeen'[c] = lastSeen[c]
           Goal == lastSeen'[c] = 0
                   \/ (d # c /\ Kept /\ StopsLeft(c)' <= StopsLeft(c) + ShutdownGrace)
<1>b. b \in Backends /\ (sessionBackend[d] # None => lifecycle[b] = "Running")
  <2>1. b \in Backends
    BY <1>t, TargetType
  <2> QED
    BY <1>s, <2>1 DEF SessionsOnlyToRunning, Target
<1>l. StopsLeft(c) \in Nat
  BY <1>g, StopsGrow DEF StopsLeft, Awake
<1>1. ASSUME ForwardDatagram(d, b) PROVE Goal
  <2>1. lastSeen'[c] = 0 \/ (d # c /\ Kept)
    BY <1>1, <1>t DEF ForwardDatagram, session_for, PinOrKeep, Refresh, TypeOK
  <2>2. UNCHANGED <<lifecycle, graceLeft>>
    BY <1>1 DEF ForwardDatagram, managed, main
  <2>3. Kept => StopsLeft(c)' <= StopsLeft(c)
    BY <1>t, <1>g, <2>2, FewerAwake
  <2>4. StopsLeft(c)' \in Nat
    BY <1>g, <2>2, StopsGrow DEF StopsLeft, Awake
  <2> HIDE DEF Kept
  <2> QED
    BY <1>l, <2>1, <2>3, <2>4
<1>2. ASSUME KnockOnSleeping(d, b) PROVE Goal
  <2>1. Kept /\ lifecycle[b] = "Sleeping" /\ UNCHANGED graceLeft
    BY <1>2 DEF KnockOnSleeping, sessions, main
  <2>2. d # c
    BY <1>b, <2>1
  <2>3. lifecycle' = [lifecycle EXCEPT ![b] = "Waking"]
    BY <1>2 DEF KnockOnSleeping
  <2> HIDE DEF b
  <2>4. b \notin Awake(c) /\ Awake(c)' \subseteq Awake(c) \cup {b} /\ Awake(c) \subseteq Backends
    BY <1>b, <1>t, <2>1, <2>3 DEF Awake, TypeOK
  <2>5. IsFiniteSet(Awake(c)) /\ Awake(c) \cup {b} \in SUBSET Backends
    BY <1>b, <2>4, FS_Subset
  <2>6. /\ Cardinality(Awake(c) \cup {b}) = Cardinality(Awake(c)) + 1
        /\ Cardinality(Awake(c)) \in Nat
    BY <2>4, <2>5, FS_AddElement, FS_CardinalityType
  <2>7. Stops(Cardinality(Awake(c) \cup {b})) = Stops(Cardinality(Awake(c))) + ShutdownGrace
    <3>1. \A g, k \in Nat : g * (k + 1) = g * k + g
      OBVIOUS
    <3> QED
      BY <2>6, <3>1 DEF Stops
  <2>8. /\ Stops(Cardinality(Awake(c)')) <= Stops(Cardinality(Awake(c) \cup {b}))
        /\ Stops(Cardinality(Awake(c)')) \in Nat
    BY <2>4, <2>5, StopsGrow
  <2>9. Stops(Cardinality(Awake(c)))' = Stops(Cardinality(Awake(c)'))
        /\ Stops(Cardinality(Awake(c))) \in Nat
    BY <2>4, StopsGrow DEF Stops
  <2>10. StopsLeft(c)' <= StopsLeft(c) + ShutdownGrace
    BY <1>g, <2>1, <2>7, <2>8, <2>9 DEF StopsLeft
  <2> QED
    BY <2>1, <2>2, <2>10
<1>3. ASSUME HoldWhileWaking(d, b) \/ DropDatagram(b) PROVE Goal
  <2>1. Kept /\ lifecycle[b] # "Running" /\ UNCHANGED <<lifecycle, graceLeft>>
    BY <1>3 DEF HoldWhileWaking, DropDatagram, vars, managed, sessions, main
  <2>2. d # c
    BY <1>b, <2>1
  <2>3. StopsLeft(c)' <= StopsLeft(c)
    BY <1>t, <1>g, <2>1, FewerAwake
  <2>4. StopsLeft(c)' \in Nat
    BY <1>g, <2>1, StopsGrow DEF StopsLeft, Awake
  <2> QED
    BY <1>l, <2>1, <2>2, <2>3, <2>4
<1> QED
  BY <1>1, <1>2, <1>3 DEF HandleDatagram

\* Every step of the proxy and of the sockets keeps the account of the waiting.
LEMMA ReapStep == Inv /\ RelayType /\ ReapInv /\ [RelayNext]_allVars => ReapInv'
<1> SUFFICES ASSUME Inv, RelayType, ReapInv, [RelayNext]_allVars PROVE ReapInv'
  OBVIOUS
<1> USE TimesAssumption, BufferAssumption
<1>1. [Next]_vars /\ RelayType'
  BY StepOfProxy, RelayTypeStep
<1>2. Inv' /\ GraceInv'
  BY <1>1, TypeStep, StructureStep, GraceStep DEF Inv, ReapInv
<1>3. Room'
  BY <1>1, <1>2, RoomAlways, PTL
<1> SUFFICES ASSUME NEW c \in Clients, sessionBackend'[c] # None
             PROVE  /\ ~Waits(c)' => lastSeen'[c] <= silent'[c]
                    /\ \A i \in 1..Len(socket') :
                           FirstOf(c, i)' => lastSeen'[c] + Wait(c, i)' <= silent'[c] + QueuedWait
  BY <1>2 DEF ReapInv, SeenInv, LagInv, QueuedWait
<1> DEFINE Seen == ~Waits(c)' => lastSeen'[c] <= silent'[c]
           Lag(i) == FirstOf(c, i)' => lastSeen'[c] + Wait(c, i)' <= silent'[c] + QueuedWait
           Goal == Seen /\ \A i \in 1..Len(socket') : Lag(i)
<1>t. /\ lastSeen[c] \in 0..SessionTimeout /\ lastSeen'[c] \in 0..SessionTimeout
      /\ silent[c] \in 0..SessionTimeout /\ silent'[c] \in 0..SessionTimeout
      /\ QueuedWait \in Nat /\ graceLeft \in Nat /\ graceLeft' \in Nat
      /\ Len(socket) \in Nat /\ Len(socket') \in Nat
  <2>1. /\ lastSeen[c] \in 0..SessionTimeout /\ lastSeen'[c] \in 0..SessionTimeout
        /\ graceLeft \in 0..ShutdownGrace /\ graceLeft' \in 0..ShutdownGrace
    BY <1>2 DEF Inv, TypeOK
  <2>2. silent[c] \in 0..SessionTimeout /\ silent'[c] \in 0..SessionTimeout
    BY <1>1 DEF RelayType
  <2>3. Len(socket) \in Nat /\ Len(socket') \in Nat
    BY <1>1 DEF RelayType
  <2> QED
    BY <2>1, <2>2, <2>3, QueuedWaitStops
<1>o. Open'
  BY <1>2 DEF Inv, TypeOK, Structure, SessionInv, Open
<1>w. \A i \in 1..Len(socket') :
        Wait(c, i)' \in Nat /\ Wait(c, i)' <= QueuedWait
  BY <1>3 DEF Room, QueuedWait
<1>f. ASSUME lastSeen'[c] <= silent'[c] PROVE Goal
  BY <1>f, <1>t, <1>w
<1>l. StopsLeft(c) \in Nat /\ StopsLeft(c)' \in Nat
  <2>1. Awake(c) \in SUBSET Backends /\ Awake(c)' \in SUBSET Backends
    BY DEF Awake
  <2>2. Stops(Cardinality(Awake(c))) \in Nat /\ Stops(Cardinality(Awake(c)')) \in Nat
    BY <2>1, StopsGrow
  <2>3. Stops(Cardinality(Awake(c)))' = Stops(Cardinality(Awake(c)'))
    BY DEF Stops
  <2> QED
    BY <1>t, <2>2, <2>3 DEF StopsLeft
<1>n. \A i \in Nat \ {0} : /\ Stops(i - 1) \in Nat /\ Stops(i) \in Nat
                           /\ Stops(i) = Stops(i - 1) + ShutdownGrace
                           /\ Wait(c, i) = StopsLeft(c) + Stops(i - 1)
                           /\ Wait(c, i)' = StopsLeft(c)' + Stops(i - 1)
                           /\ Wait(c, i + 1) = StopsLeft(c) + Stops(i)
  <2>1. \A g \in Nat, i \in Nat \ {0} : /\ g * (i - 1) \in Nat /\ g * i \in Nat
                                        /\ g * i = g * (i - 1) + g
    OBVIOUS
  <2>2. \A i \in Nat \ {0} : (i + 1) - 1 = i
    OBVIOUS
  <2> QED
    BY <2>1, <2>2 DEF Stops, Wait
<1> HIDE DEF Goal
<1>4. ASSUME NEW d \in Datagram, Arrive(d) PROVE Goal
  <2>1. /\ socket' = Append(socket, d) /\ UNCHANGED <<sessionBackend, lastSeen, silent>>
        /\ UNCHANGED <<lifecycle, graceLeft>>
    BY <1>4 DEF Arrive, vars, managed, sessions, main
  <2>2. /\ Len(socket') = Len(socket) + 1
        /\ \A j \in 1..Len(socket) : socket'[j] = socket[j]
    BY <2>1 DEF RelayType
  <2>3. CASE ~Waits(c)
    BY <1>f, <2>1, <2>3 DEF ReapInv, SeenInv
  <2>4. CASE Waits(c)
    <3>1. PICK k \in 1..Len(socket) : socket[k].from = c
      BY <2>4 DEF Waits, RelayType
    <3>2. Waits(c)'
      BY <2>2, <3>1, <1>t, <1>1 DEF Waits, RelayType
    <3>3. ASSUME NEW i \in 1..Len(socket'), FirstOf(c, i)'
          PROVE  i \in 1..Len(socket) /\ FirstOf(c, i)
      <4>1. i <= k
        BY <3>1, <3>3, <2>2, <1>t DEF FirstOf
      <4>2. i \in 1..Len(socket) /\ \A j \in 1..(i - 1) : j \in 1..Len(socket)
        BY <4>1, <1>t
      <4>3. socket'[i] = socket[i] /\ \A j \in 1..(i - 1) : socket'[j] = socket[j]
        BY <4>2, <2>2
      <4> QED
        BY <3>3, <4>2, <4>3 DEF FirstOf
    <3>4. StopsLeft(c)' = StopsLeft(c)
      BY <2>1 DEF StopsLeft, Awake, Stops
    <3>5. ASSUME NEW i \in 1..Len(socket'), FirstOf(c, i)'
          PROVE  lastSeen'[c] + Wait(c, i)' <= silent'[c] + QueuedWait
      <4>1. i \in 1..Len(socket) /\ FirstOf(c, i)
        BY <3>3, <3>5
      <4>2. Wait(c, i)' = Wait(c, i)
        BY <3>4 DEF Wait, Stops
      <4> QED
        BY <2>1, <4>1, <4>2 DEF ReapInv, LagInv
    <3> QED
      BY <3>2, <3>5 DEF Goal
  <2> QED
    BY <2>3, <2>4
<1>5. ASSUME Read PROVE Goal
  <2> DEFINE d == Head(socket)
  <2>1. /\ socket # <<>> /\ d \in Datagram /\ socket' = Tail(socket)
        /\ HandleDatagram(d.from, d.name, d.initial)
        /\ silent' = [silent EXCEPT ![d.from] = 0]
    BY <1>5 DEF Read, RelayType
  <2>2. d.from \in Clients /\ d.name \in Names \cup {None} /\ d.initial \in BOOLEAN
    BY <2>1 DEF Datagram
  <2>3. \/ lastSeen'[c] = 0
        \/ /\ d.from # c
           /\ sessionBackend'[c] = sessionBackend[c] /\ lastSeen'[c] = lastSeen[c]
           /\ StopsLeft(c)' <= StopsLeft(c) + ShutdownGrace
    BY <2>1, <2>2, ReadStep
  <2>4. CASE lastSeen'[c] = 0
    BY <1>f, <1>t, <2>4
  <2>5. CASE lastSeen'[c] # 0
    <3>1. silent'[c] = silent[c]
      BY <2>1, <2>2, <2>3, <2>5 DEF RelayType
    <3>2. /\ Len(socket') = Len(socket) - 1
          /\ \A j \in 1..Len(socket') : socket'[j] = socket[j + 1]
          /\ socket[1] = d
      BY <2>1 DEF RelayType
    <3>3. Waits(c) => Waits(c)'
      <4>1. ASSUME Waits(c) PROVE Waits(c)'
        <5>1. PICK k \in 1..Len(socket) : socket[k].from = c
          BY <4>1 DEF Waits, RelayType
        <5>2. k # 1
          BY <2>3, <2>5, <3>2, <5>1
        <5>3. k - 1 \in 1..Len(socket') /\ (k - 1) + 1 = k
          BY <1>t, <3>2, <5>1, <5>2
        <5>4. k - 1 \in DOMAIN socket' /\ socket'[k - 1].from = c
          <6>1. DOMAIN socket' = 1..Len(socket')
            BY <1>1 DEF RelayType
          <6>2. socket'[k - 1] = socket[k]
            BY <3>2, <5>3
          <6> QED
            BY <5>1, <5>3, <6>1, <6>2
        <5> QED
          BY <5>4 DEF Waits
      <4> QED
        BY <4>1
    <3>4. ASSUME NEW i \in 1..Len(socket'), FirstOf(c, i)'
          PROVE  lastSeen'[c] + Wait(c, i)' <= silent'[c] + QueuedWait
      <4>1. i + 1 \in 1..Len(socket) /\ socket[i + 1].from = c
        <5>1. i + 1 \in 1..Len(socket)
          BY <1>t, <3>2
        <5>2. socket'[i] = socket[i + 1]
          BY <3>2
        <5> QED
          BY <5>1, <5>2, <3>4 DEF FirstOf
      <4>2. ASSUME NEW j \in 1..((i + 1) - 1) PROVE socket[j].from # c
        <5>1. CASE j = 1
          BY <2>3, <2>5, <3>2, <5>1
        <5>2. CASE j # 1
          <6>1. j - 1 \in 1..(i - 1) /\ j - 1 \in 1..Len(socket') /\ (j - 1) + 1 = j
            BY <1>t, <3>4, <5>2
          <6> QED
            BY <3>2, <3>4, <6>1 DEF FirstOf
        <5> QED
          BY <5>1, <5>2
      <4>3. FirstOf(c, i + 1)
        BY <4>1, <4>2 DEF FirstOf
      <4>4. lastSeen[c] + Wait(c, i + 1) <= silent[c] + QueuedWait
        BY <2>3, <2>5, <4>1, <4>3 DEF ReapInv, LagInv
      <4>5. i \in Nat \ {0}
        BY <1>t
      <4> QED
        <5>1. /\ Stops(i - 1) \in Nat /\ Stops(i) = Stops(i - 1) + ShutdownGrace
              /\ Wait(c, i)' = StopsLeft(c)' + Stops(i - 1)
              /\ Wait(c, i + 1) = StopsLeft(c) + Stops(i)
          BY <1>n, <4>5
        <5> QED
          <6>1. \A l, s, m, n, p, g, w \in Nat :
                    n <= m + g /\ l + (m + (p + g)) <= s + w => l + (n + p) <= s + w
            OBVIOUS
          <6>2. lastSeen[c] \in Nat /\ silent[c] \in Nat
            BY <1>t
          <6>3. lastSeen[c] + (StopsLeft(c) + (Stops(i - 1) + ShutdownGrace))
                  <= silent[c] + QueuedWait
            BY <4>4, <5>1
          <6>4. lastSeen[c] + (StopsLeft(c)' + Stops(i - 1)) <= silent[c] + QueuedWait
            BY <1>t, <1>l, <2>3, <2>5, <5>1, <6>1, <6>2, <6>3
          <6> QED
            BY <2>3, <2>5, <3>1, <5>1, <6>4
    <3>5. Seen
      BY <2>3, <2>5, <3>1, <3>3 DEF ReapInv, SeenInv
    <3> QED
      BY <3>4, <3>5 DEF Goal
  <2> QED
    BY <2>4, <2>5
<1>6. ASSUME UNCHANGED <<socket, silent>>,
             \/ lastSeen'[c] = 0
             \/ /\ sessionBackend'[c] = sessionBackend[c] /\ lastSeen'[c] = lastSeen[c]
                /\ StopsLeft(c)' <= StopsLeft(c)
      PROVE  Goal
  <2>1. CASE lastSeen'[c] = 0
    BY <1>f, <1>t, <2>1
  <2>2. CASE lastSeen'[c] # 0
    <3>1. Seen
      BY <1>6, <2>2 DEF ReapInv, SeenInv, Waits
    <3>2. ASSUME NEW i \in 1..Len(socket'), FirstOf(c, i)'
          PROVE  lastSeen'[c] + Wait(c, i)' <= silent'[c] + QueuedWait
      <4>1. i \in 1..Len(socket) /\ i \in Nat \ {0} /\ FirstOf(c, i)
        BY <1>6, <1>t, <3>2 DEF FirstOf
      <4>2. lastSeen[c] + Wait(c, i) <= silent[c] + QueuedWait
        BY <1>6, <2>2, <4>1 DEF ReapInv, LagInv
      <4> QED
        <5>1. /\ Stops(i - 1) \in Nat /\ Wait(c, i)' = StopsLeft(c)' + Stops(i - 1)
              /\ Wait(c, i) = StopsLeft(c) + Stops(i - 1)
          BY <1>n, <4>1
        <5> QED
          <6>1. \A l, s, m, n, p, w \in Nat :
                    n <= m /\ l + (m + p) <= s + w => l + (n + p) <= s + w
            OBVIOUS
          <6>2. /\ lastSeen'[c] = lastSeen[c] /\ silent'[c] = silent[c]
                /\ StopsLeft(c)' <= StopsLeft(c)
            BY <1>6, <2>2
          <6>3. lastSeen[c] \in Nat /\ silent[c] \in Nat /\ QueuedWait \in Nat
            BY <1>t
          <6>4. lastSeen[c] + (StopsLeft(c) + Stops(i - 1)) <= silent[c] + QueuedWait
            BY <4>2, <5>1
          <6>5. lastSeen[c] + (StopsLeft(c)' + Stops(i - 1)) <= silent[c] + QueuedWait
            BY <1>l, <5>1, <6>1, <6>2, <6>3, <6>4
          <6> QED
            BY <5>1, <6>2, <6>5
    <3> QED
      BY <3>1, <3>2 DEF Goal
  <2> QED
    BY <2>1, <2>2
<1>7. ASSUME Beside(Internal) PROVE Goal
  BY <1>6, <1>7, <1>o, InternalStep DEF Beside, ReapInv
<1>8. ASSUME (\E x \in Clients : PumpFails(x)) \/ UNCHANGED allVars PROVE Goal
  <2>1. UNCHANGED <<socket, silent, sessionBackend, lastSeen, lifecycle, graceLeft>>
    BY <1>8 DEF PumpFails, allVars, relayVars, vars, managed, sessions, main
  <2>2. StopsLeft(c)' = StopsLeft(c)
    BY <2>1 DEF StopsLeft, Awake, Stops
  <2> QED
    BY <1>6, <1>l, <2>1, <2>2
<1>9. ASSUME RelayElapse PROVE Goal
  <2>1. /\ Elapse /\ UNCHANGED <<socket, sessionBackend, lifecycle>>
        /\ lastSeen'[c] = Saturate(lastSeen[c], SessionTimeout)
    BY <1>9 DEF RelayElapse, Elapse
  <2>2. CASE ~Waits(c)
    <3>1. silent'[c] = Saturate(silent[c], SessionTimeout) /\ lastSeen[c] <= silent[c]
      BY <1>9, <2>1, <2>2 DEF RelayElapse, ReapInv, SeenInv
    <3> QED
      BY <1>f, <1>t, <2>1, <3>1 DEF Saturate
  <2>3. CASE Waits(c)
    <3>1. socket # <<>> /\ silent'[c] = silent[c]
      BY <1>9, <2>3 DEF RelayElapse, Waits
    <3>2. graceLeft > 0 /\ graceLeft' = graceLeft - 1
      BY <1>9, <1>t, <3>1 DEF RelayElapse, Elapse, Parked, CountDown
    <3>3. StopsLeft(c)' = StopsLeft(c) - 1
      <4>1. Awake(c)' = Awake(c) /\ Stops(Cardinality(Awake(c))) \in Nat
        BY <2>1, StopsGrow DEF Awake
      <4> QED
        BY <1>t, <3>2, <4>1 DEF StopsLeft, Stops
    <3>4. lastSeen'[c] <= lastSeen[c] + 1
      BY <1>t, <2>1 DEF Saturate
    <3>5. ASSUME NEW i \in 1..Len(socket'), FirstOf(c, i)'
          PROVE  lastSeen'[c] + Wait(c, i)' <= silent'[c] + QueuedWait
      <4>1. i \in 1..Len(socket) /\ i \in Nat \ {0} /\ FirstOf(c, i)
        <5>1. socket' = socket
          BY <2>1
        <5>2. i \in 1..Len(socket) /\ i \in Nat \ {0}
          BY <1>t, <5>1
        <5> QED
          BY <3>5, <5>1, <5>2 DEF FirstOf
      <4>2. lastSeen[c] + Wait(c, i) <= silent[c] + QueuedWait
        BY <2>1, <4>1 DEF ReapInv, LagInv
      <4> QED
        <5>1. /\ Stops(i - 1) \in Nat /\ Wait(c, i)' = StopsLeft(c)' + Stops(i - 1)
              /\ Wait(c, i) = StopsLeft(c) + Stops(i - 1)
          BY <1>n, <4>1
        <5> QED
          <6>1. \A l, k, s, m, n, p, w \in Nat :
                    k <= l + 1 /\ n = m - 1 /\ l + (m + p) <= s + w => k + (n + p) <= s + w
            OBVIOUS
          <6>2. lastSeen[c] \in Nat /\ lastSeen'[c] \in Nat /\ silent[c] \in Nat
            BY <1>t
          <6>3. lastSeen[c] + (StopsLeft(c) + Stops(i - 1)) <= silent[c] + QueuedWait
            BY <4>2, <5>1
          <6>4. lastSeen'[c] + (StopsLeft(c)' + Stops(i - 1)) <= silent[c] + QueuedWait
            BY <1>t, <1>l, <3>3, <3>4, <5>1, <6>1, <6>2, <6>3
          <6> QED
            BY <3>1, <5>1, <6>4
    <3>6. Waits(c)'
      BY <2>1, <2>3 DEF Waits
    <3> QED
      BY <3>5, <3>6 DEF Goal
  <2> QED
    BY <2>2, <2>3
<1> QED
  BY <1>4, <1>5, <1>7, <1>8, <1>9 DEF RelayNext, Goal

-----------------------------------------------------------------------------
(* With an idle_timeout longer than the stops of all the others, a backend   *)
(* that was not empty when the wait began is not stopped during it, however  *)
(* many datagrams are read meanwhile.                                        *)

\* The backends that may still be stopped before a datagram of c is read, if that
\* has waited for w: an idle clock that started after it did does not run out.
Early(c, w) ==
    {o \in Awake(c) : lifecycle[o] = "Running" /\ empty_since[o] \in Nat /\ empty_since[o] > w}

EarlyStops(c, w) == Stops(Cardinality(Early(c, w))) + graceLeft

\* last_seen is older than the silence by some w, which leaves room for the stops
\* that are still to come.
Prompt(c) ==
    \E w \in Nat : /\ lastSeen[c] <= silent[c] + w
                   /\ w + EarlyStops(c, w) <= StopsOfOthers

PromptInv == \A c \in Clients : sessionBackend[c] # None => Prompt(c)

EarlyRoom ==
    \A c \in Clients : sessionBackend[c] # None => EarlyStops(c, 0) <= StopsOfOthers

\* When the wait begins there is room for one stop of each other backend.
LEMMA EarlyRoomAlways == Inv /\ GraceInv => EarlyRoom
<1> SUFFICES ASSUME Inv, GraceInv, NEW c \in Clients, sessionBackend[c] # None
             PROVE  EarlyStops(c, 0) <= StopsOfOthers
  BY DEF EarlyRoom
<1>1. Early(c, 0) \subseteq Awake(c)
  BY DEF Early
<1> QED
  BY <1>1, RoomForStops, QueuedWaitStops DEF EarlyStops

\* A step that starts no idle clock early and no stop, while c keeps its session.
LEMMA FewerEarly ==
    ASSUME TypeOK, NEW c \in Clients, sessionBackend'[c] = sessionBackend[c],
           NEW w \in Nat, NEW v \in Nat,
           graceLeft' \in Nat,
           \A o \in Backends :
                lifecycle'[o] = "Running" /\ empty_since'[o] \in Nat /\ empty_since'[o] > v
                    => lifecycle[o] = "Running" /\ empty_since[o] \in Nat /\ empty_since[o] > w
    PROVE  /\ EarlyStops(c, v)' <= EarlyStops(c, w) - graceLeft + graceLeft'
           /\ EarlyStops(c, w) \in Nat /\ EarlyStops(c, v)' \in Nat
<1>1. Early(c, v)' \subseteq Early(c, w) /\ Early(c, w) \in SUBSET Backends
  BY DEF Early, Awake
<1>2. /\ Stops(Cardinality(Early(c, v)')) \in Nat /\ Stops(Cardinality(Early(c, w))) \in Nat
      /\ Stops(Cardinality(Early(c, v)')) <= Stops(Cardinality(Early(c, w)))
  BY <1>1, StopsGrow
<1>3. Stops(Cardinality(Early(c, v)))' = Stops(Cardinality(Early(c, v)'))
  BY DEF Stops
<1>4. graceLeft \in Nat
  BY TimesAssumption DEF TypeOK
<1> QED
  BY <1>2, <1>3, <1>4 DEF EarlyStops

\* No step of the main task but Elapse adds to what c waits for.
LEMMA InternalPrompt ==
    ASSUME Inv, GraceInv, Internal, Open', NEW c \in Clients, sessionBackend'[c] # None,
           NEW w \in Nat, w <= StopsOfOthers, IdleTimeout > StopsOfOthers
    PROVE  \/ lastSeen'[c] = 0
           \/ /\ sessionBackend'[c] = sessionBackend[c] /\ lastSeen'[c] = lastSeen[c]
              /\ EarlyStops(c, w)' <= EarlyStops(c, w)
<1> USE TimesAssumption, RoutesAssumption
<1>t. TypeOK
  BY DEF Inv
<1>p. parked # "no" => phase \in {"watch", "close"} /\ cur \in todo
  BY DEF Inv, Structure, ControlInv
<1>g. graceLeft \in Nat
  BY <1>t DEF TypeOK
<1>w. StopsOfOthers \in Nat
  BY QueuedWaitStops
<1> DEFINE Kept == sessionBackend'[c] = sessionBackend[c] /\ lastSeen'[c] = lastSeen[c]
           Counts(o) == lifecycle[o] = "Running" /\ empty_since[o] \in Nat /\ empty_since[o] > w
           CountsNext(o) ==
                lifecycle'[o] = "Running" /\ empty_since'[o] \in Nat /\ empty_since'[o] > w
           Goal == lastSeen'[c] = 0 \/ (Kept /\ EarlyStops(c, w)' <= EarlyStops(c, w))
<1>0. ASSUME Kept, graceLeft' <= graceLeft, graceLeft' \in Nat,
             \A o \in Backends : CountsNext(o) => Counts(o)
      PROVE  Goal
  <2>1. /\ EarlyStops(c, w)' <= EarlyStops(c, w) - graceLeft + graceLeft'
        /\ EarlyStops(c, w) \in Nat /\ EarlyStops(c, w)' \in Nat
    BY <1>0, <1>t, FewerEarly
  <2> QED
    BY <1>0, <1>g, <2>1
<1> HIDE DEF Goal
<1>1. CASE TickStart
  BY <1>0, <1>1, <1>t, <1>g DEF Goal, TickStart, DropSessions, TypeOK, managed
<1>2. ASSUME NEW b \in Backends, Tick(b)
      PROVE  Goal
  <2>1. CASE SettleNothing(b) \/ WatchOther(b) \/ WatchError(b)
    BY <1>0, <1>g, <2>1 DEF SettleNothing, WatchOther, WatchError, managed, sessions
  <2>2. CASE SettleReady(b)
    <3>1. lastSeen'[c] = 0 \/ Kept
      BY <2>2, <1>t DEF SettleReady, deliver_held, session_for, PinOrKeep, Refresh, TypeOK
    <3>2. \A o \in Backends : CountsNext(o) => Counts(o)
      BY <2>2, <1>t DEF SettleReady, TypeOK
    <3>3. graceLeft' <= graceLeft /\ graceLeft' \in Nat
      BY <1>g, <2>2 DEF SettleReady
    <3>4. CASE lastSeen'[c] = 0
      BY <3>4 DEF Goal
    <3> HIDE DEF Counts, CountsNext, Kept
    <3>5. CASE Kept
      BY <1>0, <3>2, <3>3, <3>5, Zenon
    <3> QED
      BY <3>1, <3>4, <3>5
  <2>3. CASE SettleFailed(b)
    BY <1>0, <1>g, <1>t, <2>3 DEF SettleFailed, TypeOK, sessions
  <2>4. CASE WatchExited(b)
    BY <1>0, <1>g, <1>t, <2>4 DEF WatchExited, DropSessions, TypeOK
  <2>5. CASE WatchBusy(b)
    BY <1>0, <1>g, <1>t, <2>5 DEF WatchBusy, IdleClockWithPlayers, sessions, TypeOK
  <2>6. CASE WatchEmpty(b)
    <3>1. Kept /\ graceLeft' = graceLeft /\ lifecycle' = lifecycle
          /\ empty_since' = [empty_since EXCEPT ![b] = EmptySince(b)]
      BY <2>6 DEF WatchEmpty, sessions
    <3>2. \A o \in Backends : CountsNext(o) => Counts(o)
      BY <1>t, <3>1 DEF EmptySince, TypeOK
    <3> QED
      BY <1>0, <1>g, <3>1, <3>2
  <2>7. CASE WatchIdle(b)
    <3>1. /\ Kept /\ graceLeft = 0 /\ graceLeft' = ShutdownGrace
          /\ sessionBackend[c] # b /\ lifecycle[b] = "Running"
          /\ EmptySince(b) >= IdleTimeout
      BY <2>7 DEF WatchIdle, Watched, Watching, AwaitStop, NoSessions, GraceInv, sessions
    <3>2. /\ lifecycle' = [lifecycle EXCEPT ![b] = "Sleeping"]
          /\ empty_since' = [empty_since EXCEPT ![b] = None]
      BY <2>7 DEF WatchIdle
    <3>3. Counts(b)
      <4>1. IdleTimeout > 0 /\ w < IdleTimeout
        BY <1>w
      <4>2. empty_since[b] \in (0..IdleTimeout) \cup {None}
        BY <1>t DEF TypeOK
      <4>3. empty_since[b] # None
        BY <3>1, <4>1 DEF EmptySince
      <4>4. empty_since[b] \in Nat /\ empty_since[b] >= IdleTimeout
        BY <3>1, <4>2, <4>3 DEF EmptySince
      <4> QED
        BY <3>1, <4>1, <4>4
    <3>4. /\ Early(c, w)' \subseteq Early(c, w) /\ Early(c, w) \in SUBSET Backends
          /\ b \in Early(c, w) /\ b \notin Early(c, w)'
      BY <1>t, <3>1, <3>2, <3>3 DEF Early, Awake, TypeOK
    <3>5. /\ Stops(Cardinality(Early(c, w)')) \in Nat /\ Stops(Cardinality(Early(c, w))) \in Nat
          /\ Stops(Cardinality(Early(c, w)')) + ShutdownGrace <= Stops(Cardinality(Early(c, w)))
      BY <3>4, StopsGrowByOne
    <3>6. Stops(Cardinality(Early(c, w)))' = Stops(Cardinality(Early(c, w)'))
      BY DEF Stops
    <3>7. EarlyStops(c, w)' <= EarlyStops(c, w)
      BY <3>1, <3>5, <3>6 DEF EarlyStops
    <3> QED
      BY <3>1, <3>7 DEF Goal
  <2> QED
    BY <1>2, <2>1, <2>2, <2>3, <2>4, <2>5, <2>6, <2>7 DEF Tick
<1>3. ASSUME NEW b \in Backends, Shutdown(b)
      PROVE  FALSE
  <2>1. phase' = "close"
    BY <1>3, <1>p DEF Shutdown, CloseSleeping, CloseRunning, CloseWaking, Closing,
       JoinReady, JoinFailed, JoinGivesUp, AwaitStop, AwaitTask, Inv, Structure, ControlInv
  <2> QED
    BY <2>1 DEF Open
<1>4. ASSUME NEW b \in Backends, StopDone(b)
      PROVE  Goal
  BY <1>0, <1>4, <1>g DEF StopDone, Unpark, managed, sessions
<1>5. ASSUME NEW b \in Backends, Startup(b) \/ ProcessExits(b)
      PROVE  Goal
  BY <1>0, <1>5, <1>g DEF Startup, TaskSpawns, TaskReady, TaskFails, ProcessExits, managed,
     sessions, main
<1>6. CASE Signal \/ Exited
  BY <1>0, <1>6, <1>g DEF Goal, Signal, Exited, vars, managed, sessions, main
<1>7. CASE BeginShutdown \/ Exit
  BY <1>7 DEF BeginShutdown, Exit, Open
<1> QED
  BY <1>1, <1>2, <1>3, <1>4, <1>5, <1>6, <1>7 DEF Internal, Goal

\* A read brings the last_seen of its client up to date and concerns nobody else:
\* what it wakes is not stopped during this wait.
LEMMA ReadPrompt ==
    ASSUME Inv, NEW d \in Clients, NEW n \in Names \cup {None}, NEW i \in BOOLEAN,
           HandleDatagram(d, n, i), NEW c \in Clients, sessionBackend'[c] # None,
           NEW w \in Nat
    PROVE  \/ lastSeen'[c] = 0
           \/ /\ d # c
              /\ sessionBackend'[c] = sessionBackend[c] /\ lastSeen'[c] = lastSeen[c]
              /\ EarlyStops(c, w)' <= EarlyStops(c, w)
<1>t. TypeOK
  BY DEF Inv
<1>1. \/ lastSeen'[c] = 0
      \/ d # c /\ sessionBackend'[c] = sessionBackend[c] /\ lastSeen'[c] = lastSeen[c]
  BY ReadStep
<1>2. graceLeft' = graceLeft /\ empty_since' = empty_since /\ graceLeft \in Nat
  BY <1>t, TimesAssumption DEF HandleDatagram, ForwardDatagram, KnockOnSleeping, HoldWhileWaking,
     DropDatagram, vars, managed, main, TypeOK
<1>3. \A o \in Backends : lifecycle'[o] = "Running" => lifecycle[o] = "Running"
  <2> DEFINE b == Target(d, n)
  <2>1. CASE KnockOnSleeping(d, b)
    BY <1>t, <2>1 DEF KnockOnSleeping, TypeOK
  <2>2. CASE ForwardDatagram(d, b) \/ HoldWhileWaking(d, b) \/ DropDatagram(b)
    BY <2>2 DEF ForwardDatagram, HoldWhileWaking, DropDatagram, vars, managed
  <2> QED
    BY <2>1, <2>2 DEF HandleDatagram
<1>4. ASSUME sessionBackend'[c] = sessionBackend[c]
      PROVE  EarlyStops(c, w)' <= EarlyStops(c, w)
  <2>1. /\ EarlyStops(c, w)' <= EarlyStops(c, w) - graceLeft + graceLeft'
        /\ EarlyStops(c, w) \in Nat /\ EarlyStops(c, w)' \in Nat
    BY <1>2, <1>3, <1>4, <1>t, FewerEarly
  <2> QED
    BY <1>2, <2>1
<1> QED
  BY <1>1, <1>4

\* Every step keeps the account.
LEMMA PromptStep ==
    ASSUME Inv, RelayType, ReapInv, PromptInv, [RelayNext]_allVars, IdleTimeout > StopsOfOthers
    PROVE  PromptInv'
<1> USE TimesAssumption, BufferAssumption
<1>1. [Next]_vars /\ RelayType' /\ ReapInv'
  BY StepOfProxy, RelayTypeStep, ReapStep
<1>2. Inv' /\ GraceInv'
  BY <1>1, TypeStep, StructureStep, GraceStep DEF Inv, ReapInv
<1> SUFFICES ASSUME NEW c \in Clients, sessionBackend'[c] # None
             PROVE  Prompt(c)'
  BY DEF PromptInv
<1>t. /\ lastSeen[c] \in 0..SessionTimeout /\ lastSeen'[c] \in 0..SessionTimeout
      /\ silent[c] \in 0..SessionTimeout /\ silent'[c] \in 0..SessionTimeout
      /\ graceLeft \in Nat /\ graceLeft' \in Nat
      /\ StopsOfOthers \in Nat
  BY <1>1, <1>2, QueuedWaitStops DEF Inv, TypeOK, RelayType
<1>o. Open'
  BY <1>2 DEF Inv, TypeOK, Structure, SessionInv, Open
<1>e. \A w \in Nat : EarlyStops(c, w) \in Nat /\ EarlyStops(c, w)' \in Nat
  <2> SUFFICES ASSUME NEW w \in Nat PROVE EarlyStops(c, w) \in Nat /\ EarlyStops(c, w)' \in Nat
    OBVIOUS
  <2>1. Early(c, w) \in SUBSET Backends /\ Early(c, w)' \in SUBSET Backends
    BY DEF Early, Awake
  <2>2. Stops(Cardinality(Early(c, w))) \in Nat /\ Stops(Cardinality(Early(c, w)')) \in Nat
    BY <2>1, StopsGrow
  <2>3. Stops(Cardinality(Early(c, w)))' = Stops(Cardinality(Early(c, w)'))
    BY DEF Stops
  <2> QED
    BY <1>t, <2>2, <2>3 DEF EarlyStops
<1>s. ASSUME NEW w \in Nat, lastSeen'[c] <= silent'[c] + w, w + EarlyStops(c, w)' <= StopsOfOthers
      PROVE  Prompt(c)'
  BY <1>s DEF Prompt, StopsOfOthers
<1>f. ASSUME lastSeen'[c] <= silent'[c] PROVE Prompt(c)'
  <2>1. EarlyStops(c, 0)' <= StopsOfOthers
    <3>1. EarlyRoom'
      BY <1>2, EarlyRoomAlways, PTL
    <3> QED
      BY <3>1 DEF EarlyRoom, StopsOfOthers
  <2> QED
    BY <1>e, <1>f, <1>s, <1>t, <2>1
<1>k. ASSUME sessionBackend[c] # None, silent'[c] = silent[c], lastSeen'[c] = lastSeen[c],
             \A w \in Nat : w <= StopsOfOthers => EarlyStops(c, w)' <= EarlyStops(c, w)
      PROVE  Prompt(c)'
  <2>1. PICK w \in Nat : lastSeen[c] <= silent[c] + w /\ w + EarlyStops(c, w) <= StopsOfOthers
    BY <1>k DEF PromptInv, Prompt
  <2>2. w <= StopsOfOthers /\ w + EarlyStops(c, w)' <= StopsOfOthers
    BY <1>e, <1>k, <1>t, <2>1
  <2> QED
    BY <1>k, <1>s, <2>1, <2>2
<1>4. ASSUME \/ \E d \in Datagram : Arrive(d)
             \/ \E x \in Clients : PumpFails(x)
             \/ UNCHANGED allVars
      PROVE  Prompt(c)'
  <2>1. UNCHANGED <<silent, sessionBackend, lastSeen, lifecycle, empty_since, graceLeft>>
    BY <1>4 DEF Arrive, PumpFails, allVars, relayVars, vars, managed, sessions, main
  <2>2. \A w \in Nat : EarlyStops(c, w)' = EarlyStops(c, w)
    BY <2>1 DEF EarlyStops, Early, Awake, Stops
  <2> QED
    BY <1>e, <1>k, <2>1, <2>2
<1>5. ASSUME Read PROVE Prompt(c)'
  <2> DEFINE d == Head(socket)
  <2>1. /\ d \in Datagram /\ HandleDatagram(d.from, d.name, d.initial)
        /\ silent' = [silent EXCEPT ![d.from] = 0]
    BY <1>5 DEF Read, RelayType
  <2>2. d.from \in Clients /\ d.name \in Names \cup {None} /\ d.initial \in BOOLEAN
    BY <2>1 DEF Datagram
  <2>3. CASE lastSeen'[c] = 0
    BY <1>f, <1>t, <2>3
  <2>4. CASE lastSeen'[c] # 0
    <3>1. \A w \in Nat : /\ d.from # c
                         /\ sessionBackend'[c] = sessionBackend[c] /\ lastSeen'[c] = lastSeen[c]
                         /\ EarlyStops(c, w)' <= EarlyStops(c, w)
      BY <2>1, <2>2, <2>4, ReadPrompt
    <3>2. d.from # c /\ sessionBackend'[c] = sessionBackend[c] /\ lastSeen'[c] = lastSeen[c]
      <4>1. 0 \in Nat
        OBVIOUS
      <4> QED
        BY <3>1, <4>1
    <3>3. silent'[c] = silent[c]
      BY <2>1, <2>2, <3>2 DEF RelayType
    <3> QED
      BY <1>k, <3>1, <3>2, <3>3
  <2> QED
    BY <2>3, <2>4
<1>6. ASSUME Beside(Internal) PROVE Prompt(c)'
  <2>1. Internal /\ UNCHANGED silent /\ GraceInv
    BY <1>6 DEF Beside, ReapInv
  <2>2. CASE lastSeen'[c] = 0
    BY <1>f, <1>t, <2>2
  <2>3. CASE lastSeen'[c] # 0
    <3>1. \A w \in Nat : w <= StopsOfOthers =>
              /\ sessionBackend'[c] = sessionBackend[c] /\ lastSeen'[c] = lastSeen[c]
              /\ EarlyStops(c, w)' <= EarlyStops(c, w)
      BY <1>o, <2>1, <2>3, InternalPrompt
    <3>2. sessionBackend'[c] = sessionBackend[c] /\ lastSeen'[c] = lastSeen[c]
      <4>1. 0 \in Nat /\ 0 <= StopsOfOthers
        BY <1>t
      <4> QED
        BY <3>1, <4>1
    <3> QED
      BY <1>k, <2>1, <3>1, <3>2
  <2> QED
    BY <2>2, <2>3
<1>7. ASSUME RelayElapse PROVE Prompt(c)'
  <2>1. /\ Elapse /\ UNCHANGED <<socket, sessionBackend, lifecycle>>
        /\ lastSeen'[c] = Saturate(lastSeen[c], SessionTimeout)
    BY <1>7 DEF RelayElapse, Elapse
  <2>2. CASE ~Waits(c)
    <3>1. silent'[c] = Saturate(silent[c], SessionTimeout) /\ lastSeen[c] <= silent[c]
      BY <1>7, <2>1, <2>2 DEF RelayElapse, ReapInv, SeenInv
    <3> QED
      BY <1>f, <1>t, <2>1, <3>1 DEF Saturate
  <2>3. CASE Waits(c)
    <3>1. socket # <<>> /\ silent'[c] = silent[c]
      BY <1>7, <2>3 DEF RelayElapse, Waits
    <3>2. graceLeft > 0 /\ graceLeft' = graceLeft - 1
      BY <1>7, <1>t, <3>1 DEF RelayElapse, Elapse, Parked, CountDown
    <3>3. lastSeen'[c] <= lastSeen[c] + 1
      BY <1>t, <2>1 DEF Saturate
    <3>4. PICK w \in Nat : lastSeen[c] <= silent[c] + w /\ w + EarlyStops(c, w) <= StopsOfOthers
      BY <2>1 DEF PromptInv, Prompt
    <3>5. \A o \in Backends :
              lifecycle'[o] = "Running" /\ empty_since'[o] \in Nat /\ empty_since'[o] > w + 1
                  => lifecycle[o] = "Running" /\ empty_since[o] \in Nat /\ empty_since[o] > w
      <4> SUFFICES ASSUME NEW o \in Backends, empty_since'[o] \in Nat, empty_since'[o] > w + 1
                   PROVE  empty_since[o] \in Nat /\ empty_since[o] > w
        BY <2>1
      <4>1. empty_since[o] \in 0..IdleTimeout \/ empty_since[o] = None
        BY DEF Inv, TypeOK
      <4>2. empty_since'[o] = IF empty_since[o] = None THEN None
                              ELSE Saturate(empty_since[o], IdleTimeout)
        BY <2>1 DEF Elapse
      <4>3. empty_since[o] # None
        BY <4>2, RoutesAssumption
      <4> QED
        BY <4>1, <4>2, <4>3 DEF Saturate
    <3>6. /\ EarlyStops(c, w + 1)' <= EarlyStops(c, w) - graceLeft + graceLeft'
          /\ w + 1 \in Nat
      BY <1>t, <2>1, <3>5, FewerEarly DEF Inv
    <3>7. (w + 1) + EarlyStops(c, w + 1)' <= StopsOfOthers
      BY <1>e, <1>t, <3>2, <3>4, <3>6
    <3>8. lastSeen'[c] <= silent'[c] + (w + 1)
      BY <1>t, <3>1, <3>3, <3>4
    <3> QED
      BY <1>s, <3>6, <3>7, <3>8
  <2> QED
    BY <2>2, <2>3
<1> QED
  BY <1>4, <1>5, <1>6, <1>7 DEF RelayNext

-----------------------------------------------------------------------------
\* A nonempty set of numbers has a least member.
LEMMA LeastOf ==
    ASSUME NEW T \in SUBSET Nat, T # {}
    PROVE  \E n \in T : \A m \in T : n <= m
<1> DEFINE R == OpToRel(<, Nat)
<1>1. IsWellFoundedOn(R, Nat)
  BY NatLessThanWellFounded
<1>2. \A m, n \in Nat : m < n => <<m, n>> \in R
  BY DEF OpToRel
<1> HIDE DEF R
<1>3. PICK n \in T : \A m \in T : ~(<<m, n>> \in R)
  BY <1>1, WFMin
<1>4. ASSUME NEW m \in T PROVE n <= m
  <2>1. m \in Nat /\ n \in Nat /\ ~(<<m, n>> \in R)
    BY <1>3
  <2>2. ~(m < n)
    BY <1>2, <2>1
  <2> QED
    BY <2>1, <2>2
<1> QED
  BY <1>4

\* If datagrams of c wait, one of them is the first.
LEMMA FirstExists ==
    ASSUME socket \in Seq(Datagram), NEW c, Waits(c)
    PROVE  \E i \in 1..Len(socket) : FirstOf(c, i)
<1> DEFINE T == {i \in 1..Len(socket) : socket[i].from = c}
<1>1. T \in SUBSET Nat /\ T # {} /\ Len(socket) \in Nat
  BY DEF Waits
<1>2. PICK n \in T : \A m \in T : n <= m
  BY <1>1, LeastOf
<1>3. ASSUME NEW j \in 1..(n - 1) PROVE socket[j].from # c
  <2>1. j \in 1..Len(socket) /\ ~(n <= j)
    BY <1>1, <1>2
  <2> QED
    BY <1>2, <2>1
<1> QED
  BY <1>2, <1>3 DEF FirstOf

PromptIfLong == IdleTimeout > StopsOfOthers => PromptInv

\* Under the accounts, whoever is reaped has been silent for nearly long enough.
LEMMA ReapDue ==
    ASSUME Inv, RelayType, ReapInv, PromptIfLong, [RelayNext]_allVars, NEW c \in Clients
    PROVE  ReapIsNearlyDue(c)
<1> SUFFICES ASSUME phase = "serve", phase' = "settle", sessionBackend[c] # None,
                    sessionBackend'[c] = None
             PROVE  silent[c] + LongestWait >= SessionTimeout
  BY DEF ReapIsNearlyDue
<1>1. LostForCause(c) /\ [Next]_vars
  BY StepOfProxy, SessionStep
<1>2. TickStart
  BY <1>1 DEF Next, Internal, HandleDatagram, ForwardDatagram, KnockOnSleeping,
     HoldWhileWaking, DropDatagram, Tick, SettleNothing, SettleReady, SettleFailed, Settling,
     WatchOther, WatchExited, WatchError, WatchBusy, WatchEmpty, WatchIdle, Watched, Watching,
     Shutdown, CloseSleeping, CloseRunning, CloseWaking, Closing, JoinReady, JoinFailed,
     JoinGivesUp, AwaitStop, StopDone, Startup, TaskSpawns, TaskReady, TaskFails, ProcessExits,
     Signal, BeginShutdown, Exit, Exited, Elapse, vars, main
<1>3. lastSeen[c] >= SessionTimeout
  BY <1>2 DEF TickStart, DropSessions, Expired, Inv, TypeOK
<1>4. /\ lastSeen[c] \in Nat /\ silent[c] \in Nat /\ SessionTimeout \in Nat
      /\ StopsOfOthers \in Nat /\ QueuedWait \in Nat
  BY QueuedWaitStops, TimesAssumption DEF Inv, TypeOK, RelayType
<1>l. CASE IdleTimeout > StopsOfOthers
  <2>1. LongestWait = StopsOfOthers
    BY <1>l DEF LongestWait
  <2>2. PICK w \in Nat : lastSeen[c] <= silent[c] + w /\ w + EarlyStops(c, w) <= StopsOfOthers
    BY <1>l DEF PromptIfLong, PromptInv, Prompt
  <2>3. EarlyStops(c, w) \in Nat
    <3>1. Stops(Cardinality(Early(c, w))) \in Nat
      BY StopsGrow DEF Early, Awake
    <3> QED
      BY <3>1, TimesAssumption DEF EarlyStops, Inv, TypeOK
  <2> QED
    BY <1>3, <1>4, <2>1, <2>2, <2>3
<1>q. CASE ~(IdleTimeout > StopsOfOthers)
  <2> SUFFICES silent[c] + QueuedWait >= SessionTimeout
    BY <1>q DEF LongestWait, QueuedWait
  <2>5. CASE ~Waits(c)
    BY <1>3, <1>4, <2>5 DEF ReapInv, SeenInv
  <2>6. CASE Waits(c)
    <3>1. PICK i \in 1..Len(socket) : FirstOf(c, i)
      BY <2>6, FirstExists DEF RelayType
    <3>2. lastSeen[c] + Wait(c, i) <= silent[c] + QueuedWait
      BY <3>1 DEF ReapInv, LagInv
    <3>3. Wait(c, i) \in Nat
      BY RoomAlways DEF ReapInv, Room
    <3> QED
      BY <1>3, <1>4, <3>2, <3>3
  <2> QED
    BY <2>5, <2>6
<1> QED
  BY <1>l, <1>q

\* Before the first datagram nobody has been seen and nothing waits.
LEMMA ReapInitially == RelayInit => ReapInv /\ PromptIfLong
<1> QED
  BY DEF RelayInit, Init, ReapInv, GraceInv, SeenInv, LagInv, PromptIfLong, PromptInv

\* Nobody is reaped before a silence of session_timeout less the longest wait
\* behind stops, for any number of backends, any grace and any buffer.  With an
\* idle_timeout longer than the stops of all the others the buffer does not matter.
THEOREM ReapingNearlyDue == RelaySpec => ReapedNearlyDue
<1>1. Inv /\ RelayType /\ ReapInv /\ PromptIfLong /\ [RelayNext]_allVars
        => [\A c \in Clients : ReapIsNearlyDue(c)]_allVars
  BY ReapDue
<1>2. RelaySpec => []Inv
  BY RelayImplementsProxy, Invariance, PTL
<1>3. Inv /\ RelayType /\ ReapInv /\ PromptIfLong /\ [RelayNext]_allVars => PromptIfLong'
  BY PromptStep DEF PromptIfLong, StopsOfOthers
<1> QED
  BY <1>1, <1>2, <1>3, RelayTypeInitially, RelayTypeStep, ReapInitially, ReapStep, PTL
  DEF RelaySpec, ReapedNearlyDue
=============================================================================
