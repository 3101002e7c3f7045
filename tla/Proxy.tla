------------------------------- MODULE Proxy -------------------------------
(***************************************************************************)
(* The main task of sleepytale: state.rs (Proxy::run, handle_datagram,     *)
(* tick, shutdown) together with the session table of relay.rs it calls    *)
(* and the route table of config.rs it consults.                           *)
(*                                                                         *)
(* One task owns all of this state, so its handlers never interleave with  *)
(* one another; what interleaves with them are the startup tasks it        *)
(* spawns, the server processes, the clock and the shutdown signal.  Every *)
(* await at which the main task can really be parked (a stop, a join) is a *)
(* state of its own here.                                                  *)
(*                                                                         *)
(* Instants are kept as ages: `x.elapsed() >= T' is `age = T' for an age   *)
(* that saturates at T.  A datagram is the server name peek_server_name    *)
(* reads from it (or None) and whether is_quic_initial accepts it.         *)
(***************************************************************************)
EXTENDS Integers, FiniteSets

CONSTANTS
    Backends,           \* backend addresses, ordered as the BTreeMap orders them
    Clients,            \* client source addresses
    Names,              \* server names a ClientHello may carry
    Route,              \* route table: some of the Names -> Backends
    Default,            \* address of the fallback backend
    None,               \* Option::None
    TICK,               \* period of the ticker
    IdleTimeout,        \* config.idle_timeout
    SessionTimeout,     \* config.session_timeout
    ShutdownGrace,      \* config.shutdown_grace
    MAX_HELD_CLIENTS,   \* clients whose Initial one boot may hold
    StatusMayFail       \* whether system calls on a child may fail: the status
                        \* checks, and the signal or the wait of a stop

ASSUME RoutesAssumption ==
    /\ Backends \subseteq Nat /\ IsFiniteSet(Backends)
    /\ Default \in Backends
    /\ DOMAIN Route \subseteq Names
    /\ \A n \in DOMAIN Route : Route[n] \in Backends
    /\ None \notin Backends /\ None \notin Names
    /\ None \notin Nat

ASSUME TimesAssumption ==
    /\ TICK \in Nat \ {0}
    /\ IdleTimeout \in Nat
    /\ SessionTimeout \in Nat
    /\ ShutdownGrace \in Nat
    /\ MAX_HELD_CLIENTS \in Nat

ASSUME StatusAssumption == StatusMayFail \in BOOLEAN

VARIABLES
    lifecycle,      \* ManagedBackend.lifecycle: Sleeping, Waking or Running
    empty_since,    \* ManagedBackend.empty_since: its age, or None
    held,           \* ManagedBackend.held: the clients with an Initial on hold
    sessionBackend, \* relay sessions: the backend a client is pinned to, or None
    lastSeen,       \* relay sessions: age of last_seen
    task,           \* the startup task of a backend
    proc,           \* the server process: none, up, or exited and not reaped
    phase,          \* where the main task is
    todo,           \* backends the current pass over the map still has to visit
    parked,         \* what the main task awaits: nothing, a stop or a join
    cur,            \* the backend it awaits
    graceLeft,      \* what is left of that await's timeout
    untilTick,      \* time to the ticker's next deadline
    signalled,      \* the shutdown future is ready
    quiet,          \* history: how long a running backend has had no session
    readyFor        \* history: how long a finished boot has gone unnoticed

managed  == <<lifecycle, empty_since, held>>
sessions == <<sessionBackend, lastSeen>>
startup  == <<task, proc>>
main     == <<phase, todo, parked, cur, graceLeft>>
history  == <<quiet, readyFor>>
vars == <<managed, sessions, startup, main, untilTick, signalled, history>>

-----------------------------------------------------------------------------
(* Helpers *)

Saturate(age, limit) == IF age < limit THEN age + 1 ELSE age
CountDown(left) == IF left > 0 THEN left - 1 ELSE 0

\* Longest a finished boot can go unnoticed: one period, plus one stop of
\* every other backend.
NoticeBound == TICK + ShutdownGrace * (Cardinality(Backends) - 1)

\* relay.session_count_for(b) == 0
NoSessions(b) == \A c \in Clients : sessionBackend[c] # b

\* A pass over the map visits backends in address order.
First(b) == b \in todo /\ \A o \in todo : b <= o

\* config.resolve.  The names of the table and of a knock are normalised already
\* (see Routes).
resolve(name) == IF name \in DOMAIN Route THEN Route[name] ELSE Default

\* The session owns the route once there is one.
Target(c, name) ==
    IF sessionBackend[c] # None THEN sessionBackend[c] ELSE resolve(name)

-----------------------------------------------------------------------------
Init ==
    /\ lifecycle = [b \in Backends |-> "Sleeping"]
    /\ empty_since = [b \in Backends |-> None]
    /\ held = [b \in Backends |-> {}]
    /\ sessionBackend = [c \in Clients |-> None]
    /\ lastSeen = [c \in Clients |-> 0]
    /\ task = [b \in Backends |-> "idle"]
    /\ proc = [b \in Backends |-> "none"]
    /\ phase = "serve" /\ todo = {}
    /\ parked = "no" /\ cur = Default /\ graceLeft = 0
    /\ untilTick = 0          \* the first tick of an interval is immediate
    /\ signalled = FALSE
    /\ quiet = [b \in Backends |-> 0]
    /\ readyFor = [b \in Backends |-> 0]

-----------------------------------------------------------------------------
(* The session table (relay.rs) *)

\* Faulty variant: a delivery re-pins a client that already has a session.
RepinAnyway(cs, b, bound) ==
    [c \in Clients |-> IF c \in cs \cap bound THEN b ELSE sessionBackend[c]]

\* session_for: a client with a session keeps its backend; another is pinned
\* to b, provided an upstream socket could be bound for it.
PinOrKeep(cs, b, bound) ==
    [c \in Clients |->
        IF c \in cs \cap bound /\ sessionBackend[c] = None
        THEN b ELSE sessionBackend[c]]

\* Faulty variant: a datagram of a client with a session does not count.
NoRefresh(cs, bound) == lastSeen

Refresh(cs, bound) ==
    [c \in Clients |->
        IF c \in cs /\ (c \in bound \/ sessionBackend[c] # None)
        THEN 0 ELSE lastSeen[c]]

session_for(cs, b, bound) ==
    /\ sessionBackend' = PinOrKeep(cs, b, bound)
    /\ lastSeen' = Refresh(cs, bound)

\* What reap_idle, drop_sessions_for and clear do to the sessions they select.
DropSessions(cs) ==
    /\ sessionBackend' = [c \in Clients |->
            IF c \in cs THEN None ELSE sessionBackend[c]]
    /\ lastSeen' = [c \in Clients |-> IF c \in cs THEN 0 ELSE lastSeen[c]]

Expired == {c \in Clients : /\ sessionBackend[c] # None
                            /\ lastSeen[c] >= SessionTimeout}

\* Faulty variant: every session is dropped, not only those of b.
AllSessions(b) == {c \in Clients : sessionBackend[c] # None}

\* Faulty variant: the sessions of a backend that exited are left behind.
LeavesSessions(b) == {}

SessionsOf(b) == {c \in Clients : sessionBackend[c] = b}

-----------------------------------------------------------------------------
(* handle_datagram: a datagram of client c, read while the main task is in *)
(* its select loop.  Waking and Sleeping answer to Initials only.          *)

\* Faulty variant: the cap is checked one too late.
HoldsOneTooMany(b, c) ==
    IF c \notin held[b] /\ Cardinality(held[b]) > MAX_HELD_CLIENTS
    THEN held[b] ELSE held[b] \cup {c}

\* ManagedBackend::hold.  Only the newest Initial of a client is kept, so a
\* client is held or it is not.
hold(b, c) ==
    IF c \notin held[b] /\ Cardinality(held[b]) >= MAX_HELD_CLIENTS
    THEN held[b] ELSE held[b] \cup {c}

ForwardDatagram(c, b) ==
    /\ lifecycle[b] = "Running"
    /\ \E bound \in SUBSET {c} : session_for({c}, b, bound)
    /\ quiet' = [quiet EXCEPT ![b] = IF sessionBackend'[c] = b THEN 0 ELSE @]
    /\ UNCHANGED <<managed, startup, main, untilTick, signalled, readyFor>>

KnockOnSleeping(c, b) ==
    /\ lifecycle[b] = "Sleeping"
    /\ lifecycle' = [lifecycle EXCEPT ![b] = "Waking"]
    /\ task' = [task EXCEPT ![b] = "starting"]
    /\ held' = [held EXCEPT ![b] = hold(b, c)]
    /\ UNCHANGED <<empty_since, sessions, proc, main, untilTick, signalled,
                   history>>

HoldWhileWaking(c, b) ==
    /\ lifecycle[b] = "Waking"
    /\ held' = [held EXCEPT ![b] = hold(b, c)]
    /\ UNCHANGED <<lifecycle, empty_since, sessions, startup, main, untilTick,
                   signalled, history>>

DropDatagram(b) ==
    /\ lifecycle[b] # "Running"
    /\ UNCHANGED vars

HandleDatagram(c, name, initial) ==
    /\ phase = "serve"
    /\ LET b == Target(c, name) IN
        \/ ForwardDatagram(c, b)
        \/ initial /\ KnockOnSleeping(c, b)
        \/ initial /\ HoldWhileWaking(c, b)
        \/ ~initial /\ DropDatagram(b)

-----------------------------------------------------------------------------
(* tick: reap, then one pass over the backends.  For each backend a startup *)
(* task that has finished is settled, then a running backend is watched.    *)

\* The ticker is due.  MissedTickBehavior::Delay: the next deadline is one
\* period from now, however late this tick is.
TickStart ==
    /\ phase = "serve" /\ untilTick = 0
    /\ untilTick' = TICK
    /\ DropSessions(Expired)
    /\ phase' = "settle" /\ todo' = Backends
    /\ UNCHANGED <<managed, startup, parked, cur, graceLeft, signalled, history>>

\* On to the next backend, or back to the select loop after the last one.
NextBackend(b) ==
    /\ todo' = todo \ {b}
    /\ phase' = IF todo = {b} THEN "serve" ELSE "settle"

Settling(b) == phase = "settle" /\ First(b)

\* Faulty variant: only a successful boot counts as finished.
FinishedWhenOk(b) == task[b] = "ok"

is_finished(b) == task[b] \in {"ok", "err"}

SettleNothing(b) ==
    /\ Settling(b)
    /\ ~(lifecycle[b] = "Waking" /\ is_finished(b))
    /\ phase' = "watch"
    /\ UNCHANGED <<managed, sessions, startup, todo, parked, cur, graceLeft,
                   untilTick, signalled, history>>

\* Every held Initial is forwarded; each may fail to get an upstream socket.
deliver_held(b) ==
    \E bound \in SUBSET held[b] : session_for(held[b], b, bound)

\* The boot succeeded: Running, the idle clock starts, the hold is delivered.
SettleReady(b) ==
    /\ Settling(b)
    /\ lifecycle[b] = "Waking" /\ is_finished(b) /\ task[b] = "ok"
    /\ lifecycle' = [lifecycle EXCEPT ![b] = "Running"]
    /\ empty_since' = [empty_since EXCEPT ![b] = 0]
    /\ held' = [held EXCEPT ![b] = {}]
    /\ task' = [task EXCEPT ![b] = "idle"]
    /\ deliver_held(b)
    /\ phase' = "watch"
    /\ quiet' = [quiet EXCEPT ![b] = 0]
    /\ readyFor' = [readyFor EXCEPT ![b] = 0]
    /\ UNCHANGED <<proc, todo, parked, cur, graceLeft, untilTick, signalled>>

\* Faulty variant: a failed boot keeps its held Initials.
FailureKeepsHeld(b) == UNCHANGED held

FailureClearsHeld(b) == held' = [held EXCEPT ![b] = {}]

\* The boot returned an error, or its task panicked.
SettleFailed(b) ==
    /\ Settling(b)
    /\ lifecycle[b] = "Waking" /\ is_finished(b) /\ task[b] = "err"
    /\ lifecycle' = [lifecycle EXCEPT ![b] = "Sleeping"]
    /\ task' = [task EXCEPT ![b] = "idle"]
    /\ FailureClearsHeld(b)
    /\ phase' = "watch"
    /\ UNCHANGED <<empty_since, sessions, proc, todo, parked, cur, graceLeft,
                   untilTick, signalled, history>>

Watching(b) == phase = "watch" /\ parked = "no" /\ First(b)
Watched(b) == Watching(b) /\ lifecycle[b] = "Running"

WatchOther(b) ==
    /\ Watching(b) /\ lifecycle[b] # "Running"
    /\ NextBackend(b)
    /\ UNCHANGED <<managed, sessions, startup, parked, cur, graceLeft,
                   untilTick, signalled, history>>

\* has_exited is Ok(true): the adapter and the backend's sessions are dropped.
WatchExited(b) ==
    /\ Watched(b) /\ proc[b] = "exited"
    /\ lifecycle' = [lifecycle EXCEPT ![b] = "Sleeping"]
    /\ empty_since' = [empty_since EXCEPT ![b] = None]
    /\ proc' = [proc EXCEPT ![b] = "none"]
    /\ DropSessions(SessionsOf(b))
    /\ NextBackend(b)
    /\ UNCHANGED <<held, task, parked, cur, graceLeft, untilTick, signalled,
                   history>>

\* Faulty variant: a failed status check ends the whole pass.
ErrorEndsPass(b) == todo' = {} /\ phase' = "serve"

ErrorSkipsBackend(b) == NextBackend(b)

\* has_exited is Err: logged, and only this backend is skipped.
WatchError(b) ==
    /\ Watched(b) /\ StatusMayFail
    /\ ErrorSkipsBackend(b)
    /\ UNCHANGED <<managed, sessions, startup, parked, cur, graceLeft,
                   untilTick, signalled, history>>

\* Faulty variant: players do not stop the idle clock.
IdleClockRunsOn(b) == empty_since[b]

IdleClockWithPlayers(b) == None

\* Alive and in use.
WatchBusy(b) ==
    /\ Watched(b) /\ proc[b] = "up" /\ ~NoSessions(b)
    /\ empty_since' = [empty_since EXCEPT ![b] = IdleClockWithPlayers(b)]
    /\ NextBackend(b)
    /\ UNCHANGED <<lifecycle, held, sessions, startup, parked, cur, graceLeft,
                   untilTick, signalled, history>>

\* Faulty variant: every look at an empty server restarts its clock.
RestartsClock(b) == 0

\* empty_since.get_or_insert_with(Instant::now)
EmptySince(b) == IF empty_since[b] = None THEN 0 ELSE empty_since[b]

\* Alive and empty, but not for long enough.
WatchEmpty(b) ==
    /\ Watched(b) /\ proc[b] = "up" /\ NoSessions(b)
    /\ EmptySince(b) < IdleTimeout
    /\ empty_since' = [empty_since EXCEPT ![b] = EmptySince(b)]
    /\ NextBackend(b)
    /\ UNCHANGED <<lifecycle, held, sessions, startup, parked, cur, graceLeft,
                   untilTick, signalled, history>>

\* Faulty variant: the stop runs in the background and the pass goes on.
StopInBackground(b) ==
    /\ NextBackend(b)
    /\ UNCHANGED <<parked, cur, graceLeft>>

\* stop_backend(..).await: the main task is parked until the server is down.
AwaitStop(b) ==
    /\ parked' = "stop" /\ cur' = b /\ graceLeft' = ShutdownGrace
    /\ UNCHANGED <<phase, todo>>

\* Alive and empty for idle_timeout: the backend is stopped.
WatchIdle(b) ==
    /\ Watched(b) /\ proc[b] = "up" /\ NoSessions(b)
    /\ EmptySince(b) >= IdleTimeout
    /\ lifecycle' = [lifecycle EXCEPT ![b] = "Sleeping"]
    /\ empty_since' = [empty_since EXCEPT ![b] = None]
    /\ AwaitStop(b)
    /\ UNCHANGED <<held, sessions, startup, untilTick, signalled, history>>

-----------------------------------------------------------------------------
(* Shutdown: the select loop ends, the sessions are cleared, and one pass   *)
(* over the backends stops whatever runs.                                   *)

Signal ==
    /\ ~signalled /\ phase # "exited"
    /\ signalled' = TRUE
    /\ UNCHANGED <<managed, sessions, startup, main, untilTick, history>>

\* Faulty variant: the select loop runs on while somebody plays.
WaitsForPlayers ==
    phase = "serve" /\ signalled /\ \A c \in Clients : sessionBackend[c] = None

ShutdownDue == phase = "serve" /\ signalled

BeginShutdown ==
    /\ ShutdownDue
    /\ DropSessions(Clients)
    /\ phase' = "close" /\ todo' = Backends
    /\ UNCHANGED <<managed, startup, parked, cur, graceLeft, untilTick,
                   signalled, history>>

Closing(b) == phase = "close" /\ parked = "no" /\ First(b)

CloseSleeping(b) ==
    /\ Closing(b) /\ lifecycle[b] = "Sleeping"
    /\ todo' = todo \ {b}
    /\ UNCHANGED <<managed, sessions, startup, phase, parked, cur, graceLeft,
                   untilTick, signalled, history>>

CloseRunning(b) ==
    /\ Closing(b) /\ lifecycle[b] = "Running"
    /\ lifecycle' = [lifecycle EXCEPT ![b] = "Sleeping"]
    /\ AwaitStop(b)
    /\ UNCHANGED <<empty_since, held, sessions, startup, untilTick, signalled,
                   history>>

\* Faulty variant: the startup task is forgotten instead of awaited.
ForgetTask(b) ==
    /\ todo' = todo \ {b}
    /\ UNCHANGED <<phase, parked, cur, graceLeft>>

AwaitTask(b) ==
    /\ parked' = "join" /\ cur' = b /\ graceLeft' = ShutdownGrace
    /\ UNCHANGED <<phase, todo>>

\* Startup is given shutdown_grace to finish, so that it can be stopped.
CloseWaking(b) ==
    /\ Closing(b) /\ lifecycle[b] = "Waking"
    /\ lifecycle' = [lifecycle EXCEPT ![b] = "Sleeping"]
    /\ AwaitTask(b)
    /\ UNCHANGED <<empty_since, held, sessions, startup, untilTick, signalled,
                   history>>

Unpark(b) == parked' = "no" /\ cur' = Default /\ graceLeft' = 0

JoinReady(b) ==
    /\ parked = "join" /\ cur = b /\ task[b] = "ok"
    /\ task' = [task EXCEPT ![b] = "idle"]
    /\ AwaitStop(b)
    /\ UNCHANGED <<managed, sessions, proc, untilTick, signalled, history>>

JoinFailed(b) ==
    /\ parked = "join" /\ cur = b /\ task[b] = "err"
    /\ task' = [task EXCEPT ![b] = "idle"]
    /\ Unpark(b) /\ todo' = todo \ {b}
    /\ UNCHANGED <<managed, sessions, proc, phase, untilTick, signalled, history>>

\* The timeout passes first; the task goes on, detached.
JoinGivesUp(b) ==
    /\ parked = "join" /\ cur = b /\ task[b] \in {"starting", "booting"}
    /\ graceLeft = 0
    /\ Unpark(b) /\ todo' = todo \ {b}
    /\ UNCHANGED <<managed, sessions, startup, phase, untilTick, signalled,
                   history>>

\* Faulty variant: a server that ignores SIGTERM is waited for.
WaitsForExit(b) == proc[b] = "exited"

\* stop returns: the process exited, the grace ran out and it was killed, or a
\* system call failed and dropping the child killed it.
StopOver(b) == proc[b] = "exited" \/ graceLeft = 0 \/ StatusMayFail

StopDone(b) ==
    /\ parked = "stop" /\ cur = b /\ StopOver(b)
    /\ proc' = [proc EXCEPT ![b] = "none"]
    /\ Unpark(b)
    /\ IF phase = "watch" THEN NextBackend(b)
                          ELSE todo' = todo \ {b} /\ UNCHANGED phase
    /\ UNCHANGED <<managed, sessions, task, untilTick, signalled, history>>

\* run returns and the runtime is dropped: tasks end, and kill_on_drop ends
\* the processes they own.  A server is one process here, the direct child;
\* what a launcher started beside it may live on (see ProcessBackend).
Exit ==
    /\ phase = "close" /\ todo = {}
    /\ phase' = "exited"
    /\ task' = [b \in Backends |-> "idle"]
    /\ proc' = [b \in Backends |-> "none"]
    /\ UNCHANGED <<managed, sessions, todo, parked, cur, graceLeft, untilTick,
                   signalled, history>>

Exited == phase = "exited" /\ UNCHANGED vars

-----------------------------------------------------------------------------
(* What runs beside the main task: startup tasks and server processes.      *)

\* Whether anybody will receive the startup task's result.
Joinable(b) == lifecycle[b] = "Waking" \/ (parked = "join" /\ cur = b)

\* create_backend and start: the process is spawned.
TaskSpawns(b) ==
    /\ task[b] = "starting"
    /\ task' = [task EXCEPT ![b] = "booting"]
    /\ proc' = [proc EXCEPT ![b] = "up"]
    /\ UNCHANGED <<managed, sessions, main, untilTick, signalled, history>>

\* wait_until_ready succeeds.  With nobody to receive the adapter it is
\* dropped, and kill_on_drop ends the process.
TaskReady(b) ==
    /\ task[b] = "booting"
    /\ task' = [task EXCEPT ![b] = IF Joinable(b) THEN "ok" ELSE "idle"]
    /\ proc' = [proc EXCEPT ![b] = IF Joinable(b) THEN @ ELSE "none"]
    /\ UNCHANGED <<managed, sessions, main, untilTick, signalled, history>>

\* Startup fails: no spawn, an early exit, or boot_timeout.  The adapter is
\* dropped with the error.
TaskFails(b) ==
    /\ task[b] \in {"starting", "booting"}
    /\ task' = [task EXCEPT ![b] = IF Joinable(b) THEN "err" ELSE "idle"]
    /\ proc' = [proc EXCEPT ![b] = "none"]
    /\ UNCHANGED <<managed, sessions, main, untilTick, signalled, history>>

\* The server exits on its own.
ProcessExits(b) ==
    /\ proc[b] = "up"
    /\ proc' = [proc EXCEPT ![b] = "exited"]
    /\ UNCHANGED <<managed, sessions, task, main, untilTick, signalled, history>>

\* Time passes only while the main task is parked: in its select loop with
\* nothing due, or in an await whose timeout has not run out.
Parked ==
    \/ phase = "serve" /\ untilTick > 0 /\ ~signalled
    \/ parked # "no" /\ graceLeft > 0

Elapse ==
    /\ Parked
    /\ lastSeen' = [c \in Clients |->
            IF sessionBackend[c] = None THEN 0
            ELSE Saturate(lastSeen[c], SessionTimeout)]
    /\ empty_since' = [b \in Backends |->
            IF empty_since[b] = None THEN None
            ELSE Saturate(empty_since[b], IdleTimeout)]
    /\ untilTick' = CountDown(untilTick)
    /\ graceLeft' = CountDown(graceLeft)
    /\ quiet' = [b \in Backends |->
            IF lifecycle[b] = "Running" /\ NoSessions(b)
            THEN Saturate(quiet[b], IdleTimeout) ELSE 0]
    /\ readyFor' = [b \in Backends |->
            IF lifecycle[b] = "Waking" /\ task[b] = "ok"
            THEN Saturate(readyFor[b], NoticeBound + 1) ELSE 0]
    /\ UNCHANGED <<lifecycle, held, sessionBackend, startup, phase, todo,
                   parked, cur, signalled>>

-----------------------------------------------------------------------------
Tick(b) ==
    \/ SettleNothing(b) \/ SettleReady(b) \/ SettleFailed(b)
    \/ WatchOther(b) \/ WatchExited(b) \/ WatchError(b)
    \/ WatchBusy(b) \/ WatchEmpty(b) \/ WatchIdle(b)

Shutdown(b) ==
    \/ CloseSleeping(b) \/ CloseRunning(b) \/ CloseWaking(b)
    \/ JoinReady(b) \/ JoinFailed(b) \/ JoinGivesUp(b)

Startup(b) == TaskSpawns(b) \/ TaskReady(b) \/ TaskFails(b)

\* Everything but the arrival of datagrams and the passing of time.
Internal ==
    \/ TickStart
    \/ \E b \in Backends :
            Tick(b) \/ Shutdown(b) \/ StopDone(b) \/ Startup(b) \/ ProcessExits(b)
    \/ Signal \/ BeginShutdown \/ Exit \/ Exited

Next ==
    \/ \E c \in Clients, n \in Names \cup {None}, i \in BOOLEAN :
            HandleDatagram(c, n, i)
    \/ Internal
    \/ Elapse

Spec == Init /\ [][Next]_vars

-----------------------------------------------------------------------------
(* Invariants *)

Open == phase \in {"serve", "settle", "watch"}

\* Every variable has its type; in particular no boot holds more than
\* MAX_HELD_CLIENTS Initials (ManagedBackend::hold), whatever the arrivals.
TypeOK ==
    /\ lifecycle \in [Backends -> {"Sleeping", "Waking", "Running"}]
    /\ empty_since \in [Backends -> (0..IdleTimeout) \cup {None}]
    /\ held \in [Backends -> SUBSET Clients]
    /\ \A b \in Backends : Cardinality(held[b]) <= MAX_HELD_CLIENTS
    /\ sessionBackend \in [Clients -> Backends \cup {None}]
    /\ lastSeen \in [Clients -> 0..SessionTimeout]
    /\ task \in [Backends -> {"idle", "starting", "booting", "ok", "err"}]
    /\ proc \in [Backends -> {"none", "up", "exited"}]
    /\ phase \in {"serve", "settle", "watch", "close", "exited"}
    /\ todo \in SUBSET Backends
    /\ parked \in {"no", "stop", "join"} /\ cur \in Backends
    /\ graceLeft \in 0..ShutdownGrace
    /\ untilTick \in 0..TICK
    /\ signalled \in BOOLEAN
    /\ quiet \in [Backends -> 0..IdleTimeout]
    /\ readyFor \in [Backends -> Nat]

\* Initials are on hold only during the boot they wait for: no failure path of
\* a boot may leave one behind for a later boot to deliver (state.rs:257-264).
HeldOnlyWhileWaking ==
    Open => \A b \in Backends : held[b] # {} => lifecycle[b] = "Waking"

\* A session is always pinned to a backend that is Running.  Sessions are
\* looked up before the route table, so a session left behind by an idle stop,
\* an exit or a shutdown would swallow the client's next knock.
SessionsOnlyToRunning ==
    \A c \in Clients :
        sessionBackend[c] # None => lifecycle[sessionBackend[c]] = "Running"

\* A startup task spawns its server only when no earlier server of that
\* address is up: the previous one was stopped, reaped or killed before the
\* route could be knocked on again.
SpawnFindsAddressFree ==
    \A b \in Backends : task[b] = "starting" => proc[b] = "none"

\* A finished boot is noticed, and its held Initials delivered, within one
\* ticker period plus one stop of each other backend: the main task is blocked
\* during a stop, and a failing backend must not end the pass over the others.
NoticedInTime ==
    Open => \A b \in Backends : readyFor[b] <= NoticeBound

\* When run() returns, the only server that may still be up is one whose
\* startup was given up on: every server that came up was taken down by
\* stop(), the one path that signals the whole process group.
NothingLeftBehind ==
    phase = "close" /\ todo = {} =>
        \A b \in Backends : proc[b] # "none" => task[b] = "booting"

-----------------------------------------------------------------------------
(* Action properties *)

LostForCause(c) ==
    sessionBackend[c] # None /\ sessionBackend'[c] = None =>
        \/ lastSeen[c] = SessionTimeout
        \/ proc[sessionBackend[c]] = "exited"
        \/ signalled

\* A session disappears for one of three causes: it was quiet for
\* session_timeout, its own backend exited, or the proxy is shutting down.
SessionLossHasCause == [][\A c \in Clients : LostForCause(c)]_vars

KeepsItsBackend(c) ==
    sessionBackend[c] # None => sessionBackend'[c] \in {sessionBackend[c], None}

\* A live session never moves to another backend, whatever name a later
\* Initial of the same client carries and whichever boot held it.
PinIsStable == [][\A c \in Clients : KeepsItsBackend(c)]_vars

StopsLiveServer(b) ==
    /\ phase = "watch" /\ proc[b] = "up"
    /\ lifecycle[b] = "Running" /\ lifecycle'[b] = "Sleeping"

StopIsDue(b) == StopsLiveServer(b) => quiet[b] >= IdleTimeout

\* A tick stops a live server only after it has really had no session for the
\* whole of idle_timeout: no session opened in between goes unnoticed.  This
\* needs status checks that succeed and a session_timeout longer than TICK: the
\* idle clock is only looked at by ticks, so a session that comes and goes
\* between two of them, or during a failed check, does not stop it.
StopsOnlyWhenIdle == [][\A b \in Backends : StopIsDue(b)]_vars

-----------------------------------------------------------------------------
(* Refinement *)

\* A server as OnDemand sees it.  One that runs with neither a lifecycle nor a
\* startup task to own it is still on its way down.
serverState ==
    [b \in Backends |->
        IF parked = "stop" /\ cur = b THEN "stopping"
        ELSE IF lifecycle[b] = "Running" THEN "up"
        ELSE IF task[b] # "idle" THEN "booting"
        ELSE IF proc[b] # "none" THEN "stopping" ELSE "down"]

Promise == INSTANCE OnDemand WITH server <- serverState, player <- sessionBackend

\* Whatever the interleaving of datagrams, ticks, boots, exits and shutdown,
\* the proxy does what OnDemand promises: players only on servers that are up,
\* deliberate stops only of empty servers, no boot beside a stop.
KeepsPromise == Promise!Spec

\* The adapter of b as its caller sees it.
adapterCall(b) ==
    IF parked = "stop" /\ cur = b THEN "stopping"
    ELSE IF lifecycle[b] = "Running" \/ task[b] = "ok" THEN "ready"
    ELSE IF task[b] = "booting" THEN "booting" ELSE "none"

Adapter(b) == INSTANCE Backend WITH call <- adapterCall(b), server <- proc[b]

\* The proxy uses an adapter only the way the Backend trait is meant to be used:
\* it starts one only where none is left, and lets go of one that became ready
\* only by stopping it or by having noticed that its server is gone.
KeepsContract ==
    /\ \A b \in Backends : Adapter(b)!Init
    /\ [][\A b \in Backends : [Adapter(b)!Next]_(Adapter(b)!vars)]_vars

-----------------------------------------------------------------------------
(* What the documentation says and the code does not do *)

\* "Each running route is stopped after `idle_timeout` with no sessions routed to
\* it" (architecture/sni-routing.md): said without StopsOnlyWhenIdle's condition on
\* the status checks, so also of a server whose checks failed while it was played
\* on.
StoppedAfterIdleTimeout == [][\A b \in Backends : StopIsDue(b)]_vars

\* "delivered the moment the backend is ready" (README.md): no time passes
\* between the end of a boot and the delivery of what it held.
DeliveredTheMomentReady == Open => \A b \in Backends : readyFor[b] = 0
=============================================================================
