------------------------------- MODULE Relay -------------------------------
(***************************************************************************)
(* The proxy between its sockets: datagrams wait in the public socket      *)
(* until the select loop reads them, which it does not while it is parked  *)
(* in a stop, and every session has a task that pumps the replies of its   *)
(* backend to its client.                                                  *)
(***************************************************************************)
EXTENDS Proxy, Sequences

CONSTANT MaxWaiting     \* datagrams the receive buffer has room for

ASSUME BufferAssumption == MaxWaiting \in Nat \ {0}

VARIABLES
    socket,     \* the datagrams in the public socket, oldest first
    pump,       \* per client: the return path, none, running or ended
    silent      \* history: how long a client sent nothing, after the last read
                \* and before the datagram that waits, if one does

relayVars == <<socket, pump, silent>>
allVars == <<vars, relayVars>>

Datagram == [from : Clients, name : Names \cup {None}, initial : BOOLEAN]

RelayInit ==
    /\ Init
    /\ socket = <<>>
    /\ pump = [c \in Clients |-> "none"]
    /\ silent = [c \in Clients |-> 0]

\* spawn_return_path runs with the session; whatever drops a session aborts it.
PumpsFollow ==
    pump' = [c \in Clients |->
        IF sessionBackend'[c] = None THEN "none"
        ELSE IF sessionBackend[c] = None THEN "running" ELSE pump[c]]

\* A full buffer loses what arrives.
Arrive(d) ==
    /\ phase # "exited" /\ Len(socket) < MaxWaiting
    /\ socket' = Append(socket, d)
    /\ UNCHANGED <<vars, pump, silent>>

\* recv_from, then the whole of handle_datagram.
Read ==
    /\ socket # <<>>
    /\ LET d == Head(socket) IN
        /\ HandleDatagram(d.from, d.name, d.initial)
        /\ silent' = [silent EXCEPT ![d.from] = 0]
    /\ socket' = Tail(socket)
    /\ PumpsFollow

\* One failed receive, or one failed send to the client, ends the return path.
PumpFails(c) ==
    /\ pump[c] = "running"
    /\ pump' = [pump EXCEPT ![c] = "ended"]
    /\ UNCHANGED <<vars, socket, silent>>

\* A step of the proxy beside the sockets.
Beside(A) == A /\ PumpsFollow /\ UNCHANGED <<socket, silent>>

Waits(c) == \E i \in DOMAIN socket : socket[i].from = c

\* The select loop does not rest while a datagram waits.
RelayElapse ==
    /\ Elapse
    /\ phase = "serve" => socket = <<>>
    /\ silent' = [c \in Clients |->
            IF Waits(c) THEN silent[c] ELSE Saturate(silent[c], SessionTimeout)]
    /\ UNCHANGED <<socket, pump>>

RelayNext ==
    \/ \E d \in Datagram : Arrive(d)
    \/ Read
    \/ \E c \in Clients : PumpFails(c)
    \/ Beside(Internal)
    \/ RelayElapse

(***************************************************************************)
(* Fairness.  The main task never abandons a handler and tokio polls a     *)
(* task that can run; a boot ends at boot_timeout at the latest.  select!  *)
(* polls its branches in random order, so a ready branch cannot be passed  *)
(* over for ever (strong fairness).  Only finitely many datagrams arrive   *)
(* at one instant: the loop has read them all at some time, and time goes  *)
(* on.                                                                     *)
(***************************************************************************)
\* What the main task does next inside a handler.
HandlerStep ==
    (\E b \in Backends : Tick(b) \/ Shutdown(b) \/ StopDone(b)) \/ Exit

Fairness ==
    /\ WF_allVars(Beside(TickStart)) /\ WF_allVars(Beside(HandlerStep))
    /\ SF_allVars(Read) /\ SF_allVars(Beside(BeginShutdown))
    /\ SF_allVars(RelayElapse) /\ []<>(phase = "serve" => socket = <<>>)
    /\ \A b \in Backends : WF_allVars(Beside(Startup(b)))

RelaySpec == RelayInit /\ [][RelayNext]_allVars /\ Fairness

-----------------------------------------------------------------------------
\* One stop of each backend but the client's own.
StopsOfOthers == ShutdownGrace * (Cardinality(Backends) - 1)

\* The longest a datagram in the socket can wait.  Time passes for it only in
\* stops, and a backend that boots meanwhile is not stopped again before
\* idle_timeout has passed: unless idle_timeout is as short as the stops of all
\* the others, each of them is stopped at most once.  Otherwise every datagram
\* read before it may have woken a backend that is stopped again.
LongestWait ==
    IF IdleTimeout > StopsOfOthers THEN StopsOfOthers
    ELSE StopsOfOthers + ShutdownGrace * (MaxWaiting - 1)

ReapIsNearlyDue(c) ==
    phase = "serve" /\ phase' = "settle" /\ sessionBackend[c] # None
            /\ sessionBackend'[c] = None =>
        silent[c] + LongestWait >= SessionTimeout

\* last_seen is the time of the read, not of the arrival, and an overdue tick
\* may reap before the socket is read.  Still a client is reaped only if nothing
\* of it reached the socket for session_timeout less the longest wait behind
\* stops.  What a full buffer lost never reached it and counts as silence.
ReapedNearlyDue == [][\A c \in Clients : ReapIsNearlyDue(c)]_allVars

Full == Len(socket) = MaxWaiting

\* A full socket does not stay full, unless the proxy is told to stop: no boot
\* and no server that ignores SIGTERM keeps the loop from reading.
SocketIsDrained == Full ~> (~Full \/ signalled)

\* A held Initial does not wait for ever: its boot is settled one way or the
\* other, or the proxy is told to stop.
HeldIsSettled ==
    \A b \in Backends, c \in Clients :
        c \in held[b] ~> (c \notin held[b] \/ signalled)

\* A running backend nobody plays on goes to sleep, unless somebody joins.
EmptyServerSleeps ==
    \A b \in Backends :
        lifecycle[b] = "Running" /\ NoSessions(b)
            ~> (lifecycle[b] = "Sleeping" \/ ~NoSessions(b))

\* Shutdown completes from every state, whatever boots and servers do.
ShutdownCompletes == signalled ~> phase = "exited"

-----------------------------------------------------------------------------
(* What the comments say and the code does not do *)

\* "Pump backend replies for one session back to its client" (relay.rs): as
\* long as a session is in the table its return path runs.
SessionHasPump ==
    \A c \in Clients : sessionBackend[c] # None => pump[c] = "running"

Opened(c) == sessionBackend[c] = None /\ sessionBackend'[c] # None

\* "The backend selected from the connection's first Initial packet" (relay.rs):
\* a session is opened by an Initial, read now or held during the boot.
PinnedByInitial ==
    [][\A c \in Clients : Opened(c) =>
        \/ \E b \in Backends : c \in held[b]
        \/ socket # <<>> /\ Head(socket).initial]_allVars
=============================================================================
