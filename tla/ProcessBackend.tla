--------------------------- MODULE ProcessBackend ---------------------------
(***************************************************************************)
(* One life of a ProcessBackend (infra/process.rs): start, the race between *)
(* wait_until_ready and the task that scans the server's output, and stop. *)
(*                                                                         *)
(* The server is a process group: the child the adapter spawned leads it,  *)
(* and with a launcher script the JVM is another member.  Only the leader  *)
(* can be waited for; kill(-pid) reaches every member.                     *)
(*                                                                         *)
(* The server's output reaches the scanner in chunks of any size, so the   *)
(* banner may be split over several reads.                                 *)
(***************************************************************************)
EXTENDS Integers, Sequences

CONSTANTS
    Bytes,      \* what the server may print
    BOOT_MARKER,
    MaxChunk,   \* size of the read buffer
    MaxOutput   \* bound: how much the server prints

ASSUME MarkerAssumption == BOOT_MARKER \in Seq(Bytes) /\ BOOT_MARKER # <<>>
ASSUME OutputAssumption == MaxChunk \in Nat \ {0} /\ MaxOutput \in Nat

VARIABLES
    step,       \* where the caller of the adapter is
    leader,     \* none, alive, zombie (exited, not waited for) or reaped
    member,     \* another process of the group: none, alive or dead
    tail,       \* what the scanner keeps of the output
    scan,       \* mirror_stdout: read, scan, notify or ended
    booted,     \* the flag the scanner sets
    registered, \* boot_notify.notified() has been created
    notified,   \* ... and woken
    late,       \* the boot deadline has passed
    overdue,    \* the shutdown grace has passed
    output,     \* history: what has been mirrored
    asked,      \* history: stop has sent SIGTERM
    killed      \* history: stop had to send SIGKILL

process == <<leader, member>>
banner == <<tail, scan, booted, output>>
waiter == <<registered, notified>>
timers == <<late, overdue>>
signals == <<asked, killed>>
vars == <<step, process, banner, waiter, timers, signals>>

Init ==
    /\ step = "new" /\ leader = "none" /\ member = "none"
    /\ tail = <<>> /\ output = <<>> /\ scan = "ended" /\ booted = FALSE
    /\ registered = FALSE /\ notified = FALSE
    /\ late = FALSE /\ overdue = FALSE
    /\ asked = FALSE /\ killed = FALSE

\* Steps at which a call of the adapter is still running.
Waiting == {"first", "register", "second", "select"}
Stopping == {"probe", "terminate", "grace", "kill", "reap"}

-----------------------------------------------------------------------------
(* start *)

SpawnFails ==
    /\ step = "new"
    /\ step' = "failed"
    /\ UNCHANGED <<process, banner, waiter, timers, signals>>

\* The child leads a group of its own; the scanner runs beside it.
Spawn ==
    /\ step = "new"
    /\ step' = "first" /\ leader' = "alive" /\ scan' = "read"
    /\ UNCHANGED <<member, tail, booted, output, waiter, timers, signals>>

-----------------------------------------------------------------------------
(* mirror_stdout: a chunk is mirrored first, then scanned.                  *)

\* A window of s that equals the marker.
Occurs(s) ==
    \E i \in 1..(Len(s) - Len(BOOT_MARKER) + 1) :
        \A j \in 1..Len(BOOT_MARKER) : s[i + j - 1] = BOOT_MARKER[j]

Chunk == UNION {[1..n -> Bytes] : n \in 1..MaxChunk}

Mirror(chunk) ==
    /\ scan = "read" /\ Len(output) + Len(chunk) <= MaxOutput
    /\ tail' = tail \o chunk /\ output' = output \o chunk
    /\ scan' = "scan"
    /\ UNCHANGED <<step, process, booted, waiter, timers, signals>>

\* The terminal cannot be written to, or the output ended: the task returns
\* and nothing is scanned any more.
MirrorEnds ==
    /\ scan = "read"
    /\ scan' = "ended"
    /\ UNCHANGED <<step, process, tail, booted, output, waiter, timers, signals>>

Last(s, n) == IF Len(s) > n THEN SubSeq(s, Len(s) - n + 1, Len(s)) ELSE s

\* Faulty variant: one byte less is kept.
KeepsTooLittle == Last(tail, Len(BOOT_MARKER) - 2)

\* Faulty variant: the tail is never drained.
KeepsAll == tail

\* As much as a banner that is not complete yet can take up.
Kept == Last(tail, Len(BOOT_MARKER) - 1)

\* booted.swap(true)
FindBanner ==
    /\ scan = "scan" /\ Occurs(tail) /\ ~booted
    /\ booted' = TRUE /\ scan' = "notify"
    /\ UNCHANGED <<step, process, tail, output, waiter, timers, signals>>

ScanPast ==
    /\ scan = "scan" /\ (Occurs(tail) => booted)
    /\ tail' = Kept /\ scan' = "read"
    /\ UNCHANGED <<step, process, booted, output, waiter, timers, signals>>

\* notify_waiters wakes only who is registered by now.
notify_waiters ==
    /\ scan = "notify"
    /\ notified' = registered
    /\ tail' = Kept /\ scan' = "read"
    /\ UNCHANGED <<step, process, booted, output, registered, timers, signals>>

-----------------------------------------------------------------------------
(* wait_until_ready *)

FirstCheck ==
    /\ step = "first"
    /\ step' = IF booted THEN "ready" ELSE "register"
    /\ UNCHANGED <<process, banner, waiter, timers, signals>>

Register ==
    /\ step = "register"
    /\ registered' = TRUE
    /\ step' = "second"
    /\ UNCHANGED <<process, banner, notified, timers, signals>>

\* Faulty variant: the flag is not looked at again.
GoesToSleep == step' = "select"

LooksAgain == step' = IF booted THEN "ready" ELSE "select"

SecondCheck ==
    /\ step = "second"
    /\ LooksAgain
    /\ UNCHANGED <<process, banner, waiter, timers, signals>>

\* Faulty variant: the exit of the child ends the wait like the banner does.
WokenByExit == notified \/ leader = "zombie"

Woken == notified

SelectReady ==
    /\ step = "select" /\ Woken
    /\ step' = "ready"
    /\ UNCHANGED <<process, banner, waiter, timers, signals>>

\* Faulty variant: without kill_on_drop the child outlives its handle.
LeaveChild == UNCHANGED leader

\* kill_on_drop: dropping the child kills the leader, and only the leader.
DropChild == leader' = "reaped"

\* The error drops the adapter, as every failure of a boot does.
SelectExited ==
    /\ step = "select" /\ leader = "zombie"
    /\ step' = "failed" /\ leader' = "reaped"
    /\ UNCHANGED <<member, banner, waiter, timers, signals>>

\* child.wait() itself fails.
WaitErrors ==
    /\ step = "select" /\ leader \in {"alive", "zombie"}
    /\ step' = "failed" /\ DropChild
    /\ UNCHANGED <<member, banner, waiter, timers, signals>>

\* Faulty variant: the wait has no deadline.
WaitsForEver == FALSE

DeadlineOver == late

\* timeout_at looks at the wait first, so it fires only if nothing else is
\* ready.
BootTimesOut ==
    /\ step = "select" /\ DeadlineOver
    /\ ~notified /\ leader = "alive"
    /\ step' = "failed" /\ DropChild
    /\ UNCHANGED <<member, banner, waiter, timers, signals>>

\* The startup task is given up: it is dropped with the runtime at one of its
\* awaits (the console in start, the select), or it returns Ok and nobody takes
\* the adapter.  Either way the adapter is dropped.
GiveUp ==
    /\ step \in {"first", "select"} \/ (step = "second" /\ booted)
    /\ step' = "failed" /\ DropChild
    /\ UNCHANGED <<member, banner, waiter, timers, signals>>

-----------------------------------------------------------------------------
(* has_exited and stop, called on a backend that is ready.                  *)

\* has_exited is Ok(true): the adapter is dropped.
has_exited ==
    /\ step = "ready" /\ leader = "zombie"
    /\ step' = "gone" /\ leader' = "reaped"
    /\ UNCHANGED <<member, banner, waiter, timers, signals>>

Stop ==
    /\ step = "ready"
    /\ step' = "probe"
    /\ UNCHANGED <<process, banner, waiter, timers, signals>>

\* try_wait: there is nothing to stop any more.
AlreadyExited ==
    /\ step = "probe" /\ leader = "zombie"
    /\ step' = "stopped" /\ leader' = "reaped"
    /\ UNCHANGED <<member, banner, waiter, timers, signals>>

StillRunning ==
    /\ step = "probe" /\ leader = "alive"
    /\ step' = "terminate"
    /\ UNCHANGED <<process, banner, waiter, timers, signals>>

\* SIGTERM to the group; what each process makes of it is up to the process.
signal_terminate ==
    /\ step = "terminate"
    /\ step' = "grace" /\ asked' = TRUE
    /\ UNCHANGED <<process, banner, waiter, timers, killed>>

\* A status check, a signal or a wait fails: stop returns the error and drops the
\* child.
StopErrors ==
    /\ step \in Stopping
    /\ step' = "error" /\ DropChild
    /\ UNCHANGED <<member, banner, waiter, timers, signals>>

ExitsInTime ==
    /\ step = "grace" /\ leader = "zombie"
    /\ step' = "stopped" /\ leader' = "reaped"
    /\ UNCHANGED <<member, banner, waiter, timers, signals>>

\* Faulty variant: a server that ignores SIGTERM is waited for.
WaitsForServer == FALSE

GraceOver == overdue

GraceExpires ==
    /\ step = "grace" /\ GraceOver /\ leader = "alive"
    /\ step' = "kill"
    /\ UNCHANGED <<process, banner, waiter, timers, signals>>

Exits(p) == IF p = "alive" THEN "zombie" ELSE p
Dead(p) == IF p = "alive" THEN "dead" ELSE p

\* Faulty variant: child.kill() reaches the leader only.
KillLeader == leader' = Exits(leader) /\ UNCHANGED member

KillGroup == leader' = Exits(leader) /\ member' = Dead(member)

kill_backend ==
    /\ step = "kill"
    /\ KillGroup
    /\ step' = "reap" /\ killed' = TRUE
    /\ UNCHANGED <<banner, waiter, timers, asked>>

Reap ==
    /\ step = "reap" /\ leader = "zombie"
    /\ step' = "stopped" /\ leader' = "reaped"
    /\ UNCHANGED <<member, banner, waiter, timers, signals>>

-----------------------------------------------------------------------------
(* The server and the clock *)

\* A launcher starts the JVM.
Launch ==
    /\ leader = "alive" /\ member = "none"
    /\ member' = "alive"
    /\ UNCHANGED <<step, leader, banner, waiter, timers, signals>>

LeaderExits ==
    /\ leader = "alive"
    /\ leader' = "zombie"
    /\ UNCHANGED <<step, member, banner, waiter, timers, signals>>

MemberExits ==
    /\ member = "alive"
    /\ member' = "dead"
    /\ UNCHANGED <<step, leader, banner, waiter, timers, signals>>

\* The deadline is absolute: it counts from start whatever happens meanwhile.
DeadlinePasses ==
    /\ step \in Waiting /\ ~late
    /\ late' = TRUE
    /\ UNCHANGED <<step, process, banner, waiter, overdue, signals>>

GracePasses ==
    /\ step = "grace" /\ ~overdue
    /\ overdue' = TRUE
    /\ UNCHANGED <<step, process, banner, waiter, late, signals>>

\* The adapter is gone.
Over == step \in {"failed", "gone", "stopped", "error"} /\ UNCHANGED vars

-----------------------------------------------------------------------------
Boot ==
    \/ FirstCheck \/ Register \/ SecondCheck
    \/ SelectReady \/ SelectExited \/ BootTimesOut

StopSteps ==
    \/ AlreadyExited \/ StillRunning \/ signal_terminate
    \/ ExitsInTime \/ GraceExpires \/ kill_backend \/ Reap

Scanner ==
    \/ \E chunk \in Chunk : Mirror(chunk)
    \/ MirrorEnds \/ FindBanner \/ ScanPast \/ notify_waiters

Server == Launch \/ LeaderExits \/ MemberExits

Next ==
    \/ SpawnFails \/ Spawn \/ Scanner \/ Boot
    \/ WaitErrors \/ GiveUp \/ has_exited \/ Stop \/ StopSteps \/ StopErrors
    \/ Server \/ DeadlinePasses \/ GracePasses \/ Over

Spec == Init /\ [][Next]_vars

\* Fairness: the adapter's own steps and the timers.  The server owes nothing,
\* no system call has to fail, and no caller has to give up.
FairSpec ==
    /\ Spec
    /\ WF_vars(Boot) /\ WF_vars(StopSteps)
    /\ WF_vars(DeadlinePasses) /\ WF_vars(GracePasses)

-----------------------------------------------------------------------------
\* Every variable has its type.  The scanner's memory is bounded however long the
\* server runs: between two reads it keeps less than a banner.
TypeOK ==
    /\ step \in {"new", "ready", "failed", "gone", "stopped", "error"}
                    \cup Waiting \cup Stopping
    /\ leader \in {"none", "alive", "zombie", "reaped"}
    /\ member \in {"none", "alive", "dead"}
    /\ scan \in {"read", "scan", "notify", "ended"} /\ (step = "new" => scan = "ended")
    /\ tail \in Seq(Bytes) /\ output \in Seq(Bytes) /\ booted \in BOOLEAN
    /\ Len(tail) < Len(BOOT_MARKER)
            + (IF scan \in {"scan", "notify"} THEN MaxChunk ELSE 0)
    /\ registered \in BOOLEAN /\ notified \in BOOLEAN
    /\ late \in BOOLEAN /\ overdue \in BOOLEAN
    /\ asked \in BOOLEAN /\ killed \in BOOLEAN

\* The waiter never sleeps on a banner that has been announced: a banner that
\* shows up between the first look at the flag and the registration is seen by
\* the second look.
NoLostWakeup == step = "select" /\ booted /\ scan # "notify" => notified

\* A backend is reported ready only after its banner was printed.
ReadyMeansBooted == step = "ready" => Occurs(output)

\* Between two reads the flag says exactly whether the banner was printed, however
\* the reads cut it up and whatever came before or after it.
BannerFound == scan = "read" => (booted <=> Occurs(output))

\* Once stop had to kill, nothing of the process group is left when it returns:
\* the JVM behind a launcher dies with the launcher.
KillReachesGroup == killed => member # "alive" /\ leader # "alive"

\* A stop always returns, whatever the server does with SIGTERM.
StopReturns == step = "probe" ~> step \in {"stopped", "error"}

\* A boot is always decided, whether or not a banner ever shows up.
BootIsDecided == step = "first" ~> step \in {"ready", "failed"}

-----------------------------------------------------------------------------
(* The adapter as its caller sees it *)

callState ==
    IF step \in Waiting THEN "booting"
    ELSE IF step = "ready" THEN "ready"
    ELSE IF step \in Stopping THEN "stopping" ELSE "none"

serverState ==
    IF leader = "alive" THEN "up" ELSE IF leader = "zombie" THEN "exited" ELSE "none"

Trait == INSTANCE Backend WITH call <- callState, server <- serverState

\* The adapter keeps the provider's side of the Backend trait, which is the side
\* the proxy is modelled against: on every path that lets go of an adapter the
\* process it spawned is gone.
ImplementsBackend == Trait!Spec

-----------------------------------------------------------------------------
(* What the documentation says and the code does not do *)

\* "request shutdown and wait for the resource to disappear"
\* (architecture/infrastructure-adapter.md): after a stop that asked the group
\* to end and returned without error, nothing of the group is running.
StopWaitsForGroup == step = "stopped" /\ asked => member # "alive"

\* "Signalling the leader alone leaves the JVM running and still holding the
\* backend port, so the next wake fails to bind" (process.rs): a boot that the
\* adapter itself ends must not do that.
TimedOutBootLeavesNothing ==
    [][BootTimesOut => member' # "alive"]_vars
=============================================================================
