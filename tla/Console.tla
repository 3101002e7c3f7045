------------------------------ MODULE Console ------------------------------
(***************************************************************************)
(* ConsoleInput (infra/console.rs): one thread reads the terminal, one     *)
(* task forwards what it read to the standard input of the backend that is *)
(* attached, and adapters attach and detach that pipe from other tasks.    *)
(*                                                                         *)
(* The forwarding task takes the pipe out of the mutex while it writes.    *)
(* A server that does not read its input parks the write for ever, so      *)
(* nothing else may ever wait for it.                                      *)
(*                                                                         *)
(* At most one backend may ask for the console (Config::validate) and its  *)
(* servers follow one another (Proxy), so its servers are numbered.        *)
(***************************************************************************)
EXTENDS Integers

CONSTANTS
    MaxStarts,      \* bound: servers started in one behaviour
    MaxChunks,      \* bound: chunks typed in one behaviour
    None            \* no pipe

ASSUME ConsoleAssumption ==
    /\ MaxStarts \in Nat /\ MaxChunks \in Nat
    /\ None \notin Nat

Servers == 1..MaxStarts

VARIABLES
    stdin,          \* Attached.stdin: the pipe in the mutex, or None
    generation,     \* Attached.generation
    incoming,       \* chunks in the channel
    typed,          \* chunks the reader thread has sent
    reading,        \* the reader thread is running
    at,             \* forwarding task: recv, take, write, put or done
    pipe,           \* the pipe it holds, or None
    seen,           \* the generation it saw when it took the pipe
    outcome,        \* whether its last write succeeded
    locked,         \* the forwarding task holds the mutex
    started,        \* servers started so far; the last one is the current one
    adapter,        \* its adapter: none, starting, up, stopping or signalled
    alive,          \* servers whose end of the pipe is open
    attachedTo      \* history: the server of the last attach not yet detached

mutex == <<stdin, generation>>
forwarder == <<at, pipe, seen, outcome, locked>>
terminal == <<incoming, typed, reading>>
server == <<started, adapter, alive, attachedTo>>
vars == <<mutex, forwarder, terminal, server>>

Init ==
    /\ stdin = None /\ generation = 0
    /\ incoming = 0 /\ typed = 0 /\ reading = TRUE
    /\ at = "recv" /\ pipe = None /\ seen = 0 /\ outcome = TRUE /\ locked = FALSE
    /\ started = 0 /\ adapter = "none" /\ alive = {} /\ attachedTo = None

-----------------------------------------------------------------------------
(* The reader thread *)

ReadTerminal ==
    /\ reading /\ typed < MaxChunks
    /\ typed' = typed + 1 /\ incoming' = incoming + 1
    /\ UNCHANGED <<mutex, forwarder, reading, server>>

\* End of input, or a read error: the thread ends and closes the channel.
TerminalEnds ==
    /\ reading
    /\ reading' = FALSE
    /\ UNCHANGED <<mutex, forwarder, incoming, typed, server>>

-----------------------------------------------------------------------------
(* The forwarding task *)

Receive ==
    /\ at = "recv" /\ incoming > 0
    /\ incoming' = incoming - 1
    /\ at' = "take"
    /\ UNCHANGED <<mutex, pipe, seen, outcome, locked, typed, reading, server>>

ChannelClosed ==
    /\ at = "recv" /\ incoming = 0 /\ ~reading
    /\ at' = "done"
    /\ UNCHANGED <<mutex, pipe, seen, outcome, locked, terminal, server>>

\* Nothing is attached: the chunk is discarded.
TakeNothing ==
    /\ at = "take" /\ stdin = None
    /\ at' = "recv"
    /\ UNCHANGED <<mutex, pipe, seen, outcome, locked, terminal, server>>

\* Faulty variant: the guard lives across the write.
KeepLock == locked' = TRUE

ReleaseLock == locked' = FALSE

TakePipe ==
    /\ at = "take" /\ stdin # None
    /\ pipe' = stdin /\ seen' = generation /\ stdin' = None
    /\ at' = "write"
    /\ ReleaseLock
    /\ UNCHANGED <<generation, outcome, terminal, server>>

\* write_all returns: the server read enough of its input, or its end of the
\* pipe is closed.
Write(ok) ==
    /\ at = "write" /\ ok = (pipe \in alive)
    /\ outcome' = ok
    /\ at' = "put"
    /\ UNCHANGED <<mutex, pipe, seen, locked, terminal, server>>

\* Faulty variant: the pipe is put back whoever is attached by now.
NeverStale == FALSE

Stale == generation # seen

\* Faulty variant: a stale pipe also empties the mutex.
ClearOnStale == stdin' = None

DropStale == UNCHANGED stdin

\* The pipe goes back if it is still the current one and works; otherwise it is
\* dropped, which closes it.
PutBack ==
    /\ at = "put"
    /\ \/ Stale /\ DropStale
       \/ ~Stale /\ outcome /\ stdin' = pipe
       \/ ~Stale /\ ~outcome /\ UNCHANGED stdin
    /\ at' = "recv" /\ pipe' = None /\ locked' = FALSE
    /\ UNCHANGED <<generation, seen, outcome, terminal, server>>

-----------------------------------------------------------------------------
(* attach and detach, and the adapter that calls them (infra/process.rs)   *)

\* Faulty variant: the counter runs the wrong way.
CountsDown(p) ==
    /\ ~locked
    /\ stdin' = p /\ generation' = generation - 1
    /\ attachedTo' = p

\* Attached::replace.  The mutex is free unless the forwarding task holds it.
replace(p) ==
    /\ ~locked
    /\ stdin' = p /\ generation' = generation + 1
    /\ attachedTo' = p

Spawn ==
    /\ adapter = "none" /\ started < MaxStarts
    /\ started' = started + 1
    /\ alive' = alive \cup {started'}
    /\ adapter' = "starting"
    /\ UNCHANGED <<mutex, forwarder, terminal, attachedTo>>

attach ==
    /\ adapter = "starting"
    /\ replace(started)
    /\ adapter' = "up"
    /\ UNCHANGED <<forwarder, terminal, started, alive>>

Stop ==
    /\ adapter = "up"
    /\ adapter' = "stopping"
    /\ UNCHANGED <<mutex, forwarder, terminal, started, alive, attachedTo>>

\* stop detaches the console before it signals the server.
detach ==
    /\ adapter = "stopping"
    /\ replace(None)
    /\ adapter' = "signalled"
    /\ UNCHANGED <<forwarder, terminal, started, alive>>

\* SIGTERM, or SIGKILL after the grace: the server is gone and stop returns.
Stopped ==
    /\ adapter = "signalled"
    /\ alive' = alive \ {started}
    /\ adapter' = "none"
    /\ UNCHANGED <<mutex, forwarder, terminal, started, attachedTo>>

\* The server exits, or closes its input.
ServerExits ==
    /\ adapter # "none" /\ started \in alive
    /\ alive' = alive \ {started}
    /\ UNCHANGED <<mutex, forwarder, terminal, started, adapter, attachedTo>>

\* The exit is noticed, or the boot failed: the adapter is dropped, which kills
\* the server if need be.  Nothing detaches the console.
DropAdapter ==
    /\ adapter = "up"
    /\ alive' = alive \ {started}
    /\ adapter' = "none"
    /\ UNCHANGED <<mutex, forwarder, terminal, started, attachedTo>>

\* The bounds are used up and everything is at rest.
AtRest ==
    /\ at = "done" /\ adapter = "none" /\ started = MaxStarts
    /\ UNCHANGED vars

-----------------------------------------------------------------------------
Forwarding == Receive \/ ChannelClosed \/ TakeNothing \/ TakePipe \/ PutBack

Stopping == detach \/ Stopped

Next ==
    \/ ReadTerminal \/ TerminalEnds
    \/ Forwarding
    \/ \E ok \in BOOLEAN : Write(ok)
    \/ Spawn \/ attach \/ Stop \/ Stopping \/ ServerExits \/ DropAdapter
    \/ AtRest

Spec == Init /\ [][Next]_vars

(***************************************************************************)
(* Fairness: tokio runs tasks that can run, and a write to a closed pipe   *)
(* fails at once.  A write to a live server may stay parked for ever.      *)
(***************************************************************************)
FairSpec ==
    /\ Spec
    /\ WF_vars(Forwarding) /\ WF_vars(Write(FALSE))
    /\ WF_vars(attach) /\ WF_vars(Stopping)

-----------------------------------------------------------------------------
\* Every variable has its type.
TypeOK ==
    /\ stdin \in Servers \cup {None} /\ pipe \in Servers \cup {None}
    /\ attachedTo \in Servers \cup {None}
    /\ generation \in Nat /\ seen \in Nat
    /\ incoming \in Nat /\ typed \in Nat /\ reading \in BOOLEAN
    /\ at \in {"recv", "take", "write", "put", "done"}
    /\ outcome \in BOOLEAN /\ locked \in BOOLEAN
    /\ started \in 0..MaxStarts /\ alive \in SUBSET Servers
    /\ adapter \in {"none", "starting", "up", "stopping", "signalled"}

\* What is in the mutex is the pipe of the last attach: a pipe that was being
\* written to while its server was detached or replaced never comes back.  The
\* chunk being written may still reach a server that is told to stop; no later
\* one does.
OnlyCurrentPipe == stdin # None => stdin = attachedTo

\* The pipe of an attached server that can still read it is never lost: it is in the
\* mutex or with the forwarding task, whatever was attached in between.
PipeNotLost ==
    attachedTo # None /\ attachedTo \in alive => attachedTo \in {stdin, pipe}

\* A stop gets past detach and returns even if the server never reads its
\* input: a parked write must not block it (tests/shutdown.rs).
StopReturns == adapter = "stopping" ~> adapter = "none"
=============================================================================
