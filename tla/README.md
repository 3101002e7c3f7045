# sleepytale in TLA+

sleepytale owns a public UDP port and runs a Hytale server only while someone plays: the
first QUIC Initial boots the server of its route, Initials that arrive meanwhile are held
and delivered when it is up, datagrams are then relayed blindly, and a server without
sessions for `idle_timeout` is stopped. This directory holds TLA+ models of that code, the
TLC runs that check them on small instances, and TLAPS proofs for all instances.
Paths below are relative to `src/crates/sleepytale/src/`.

## The system

| Component | State | Operations | Interaction | Hard part |
|---|---|---|---|---|
| Proxy state machine (`state.rs`) | per backend: lifecycle, `empty_since`, held Initials | `handle_datagram`, `tick`, shutdown pass | owns everything; spawns startup tasks; awaits adapters | startup tasks, exits, the clock and signals interleave with a loop that blocks on stops and joins |
| Relay (`relay.rs`) | sessions by client address: backend, `last_seen`, return path | `session_for`, `reap_idle`, `drop_sessions_for`, `clear` | called by the state machine; one return-path task per session | sessions outrank the route table, so a stale one misroutes; datagrams wait unread while the main task is parked |
| Routes (`config.rs`) | fixed table | `resolve`, `validate` | consulted for a client without a session | normalised names, distinct backend addresses |
| SNI peek (`sni.rs`), knock (`knock.rs`) | none | `peek_server_name`, `is_quic_initial` | classify a datagram | nested lengths from the network; frames that overlap or miss; two header checks that must agree |
| Process adapter (`infra/process.rs`) | child, `booted`, `boot_notify` | `start`, `wait_until_ready`, `has_exited`, `stop` | a startup task, then the state machine; a scanner task | banner/exit/deadline race; a banner split over reads; launcher and JVM in one group |
| Console (`infra/console.rs`) | attached pipe, generation | `attach`, `detach`, forwarding | adapters, a reader thread, a forwarding task | a parked write against `detach`, a stale pipe put back |
| Trait `Backend` (`infra/mod.rs`) | none | `start`, `wait_until_ready`, `has_exited`, `stop`, the factory | the seam between state machine and adapters | both sides must agree on who lets go of what, and when |
| `main.rs` | none | CLI, signals | | |

What makes each of them correct:

* state machine and sessions: a session only with a running backend; nothing on hold
  outside a boot; no boot beside a server of the same address; stops only of servers that
  are really idle; one backend's trouble stays its own; boots are settled, empty servers
  sleep, shutdown ends and leaves nothing behind;
* relay: nobody is reaped long before being silent for `session_timeout`, whatever waits in
  the socket; the socket is read again after every stop;
* peek: exactly the name the client offered, or none; readers stay in bounds;
* trait: an adapter is started only where none is left, and its server goes with it;
* process adapter: the banner is found however it is cut up; no lost wakeup; ready means
  the banner was read; a kill reaches the
  group; every boot and every stop ends;
* console: input goes only to the server attached last, whose pipe is never lost, and
  nobody waits for a parked write.

`PROJECT.json` lists the hazards at their lines, with the properties aimed at each.

## Modules

| Module | Models |
|---|---|
| `OnDemand` | what the proxy promises: servers down, booting, up or stopping, and who plays where |
| `Proxy` | `state.rs` with the session table of `relay.rs` and `Routes::resolve` |
| `Relay` | `Proxy` with the public socket's buffer and the return-path tasks of `relay.rs` |
| `Backend` | the contract of the trait in `infra/mod.rs` |
| `ProcessBackend` | one life of the adapter in `infra/process.rs` |
| `Console` | `infra/console.rs` and the adapter calls that reach it |
| `CryptoFrames` | `reassemble_crypto` of `sni.rs` |
| `Peek` | the rest of `peek_server_name` around it, and `is_quic_initial` of `knock.rs` |
| `Routes` | `Config::validate` and the tables built from an accepted configuration |
| `MCProxy`, `MCRelay`, `MCConsole`, `MCProcessBackend`, `MCPeek`, `MCRoutes` | instances for TLC |
| `ProxyProofs`, `ProxyRefinement`, `ProxyTimeProofs`, `RelayProofs`, `ConsoleProofs`, `ProcessBackendProofs`, `PeekProofs`, `RoutesProofs` | TLAPS proofs |

`Relay` extends `Proxy` and `Peek` extends `CryptoFrames`: they add variables and conjuncts
to the actions of the module they extend and change none of its definitions. `Proxy` and
`ProcessBackend` both implement `Backend`, from its two sides.

### Proxy

`lifecycle`, `empty_since` and `held` are the fields of `ManagedBackend`; `sessionBackend`
and `lastSeen` are the session table; `task` and `proc` are the startup task and the
server of a backend. `phase`, `todo`, `parked`, `cur` and `graceLeft` say where the main
task is: in its select loop (`serve`), at one of the two halves of a tick for the first
backend of `todo` (`settle`, `watch`), in the shutdown pass (`close`), and whether it is
parked in a stop or in a join. The handlers of one task do not interleave; the pass over
the backends is split because boots and exits happen between its steps and because it
can be parked for `shutdown_grace` in the middle. `HandleDatagram` is one whole
`handle_datagram`. `TickStart` is the ticker firing with `reap_idle`; `Settle*` and
`Watch*` are the branches of the loop body; `Close*` and `Join*` are the arms of the
shutdown pass.

Instants are ages that saturate at the timeout they are compared with. Time (`Elapse`)
passes only when the main task is parked. A stop may end at any moment up to
`shutdown_grace`; a boot may take any time, which covers every `boot_timeout`. A datagram is
the name `peek_server_name` returns and the answer of `is_quic_initial`; its payload is
never looked at again, and only the newest Initial of a client is kept, so `held` is a set of
clients. Binding an upstream socket may fail; a failed send changes no state. A failed
`stop` is logged and the child dropped, so it ends in the same state as a successful one
(`StopOver`: the process exited, the grace ran out, or a system call failed).
A server is one process here; the process group is the subject of `ProcessBackend`. In the
mapping to `OnDemand` a server whose adapter was let go of counts as stopping until its process
is gone, so that a stop that is not awaited is no crash but a wake from a state that allows none.
`quiet` and `readyFor` are history variables, read by properties only.

When `run` returns the runtime is dropped (`Exit`): remaining startup tasks end and
`kill_on_drop` ends their children.

### Relay

`socket` is the receive buffer of the public socket, `pump` the return-path task of each
client's session. Datagrams arrive at any time (`Arrive`; a full buffer loses them) and are
read one by one, each read being one whole `handle_datagram` of `Proxy` (`Read`), and only
in the select loop: while the main task is parked in a stop they wait. Every other step of `Proxy`
is taken with `PumpsFollow`, which starts a pump with a session and ends it with the
session; `PumpFails` is the failed receive or send that ends it before. Time does
not pass in the select loop while a datagram waits. `silent` is a history variable: for how long a
client really sent nothing, which is what `last_seen`, set when a datagram is read, stands for.
How far the two can drift apart is `LongestWait`: a stop of each backend but the client's own. A
datagram that is read before the client's may wake a backend, but that one is not stopped again
before `idle_timeout`; only where `idle_timeout` is as short as the stops of all the others does
every datagram read before add a stop. With the defaults (900 s against 10 s for each backend) the
size of the buffer does not matter. What a full buffer loses never reached the proxy and counts as
silence of the client.

### Backend

Two variables per address: what the caller is doing (`call`) and the server (`server`). Its
steps are what a caller may do and what a provider may do about it; the contract is that an
adapter is started only where none is left, is stopped only when ready, and that its server
is gone when it has been let go of. `Proxy` implements it for every backend (`KeepsContract`,
with `adapterCall` as the mapping), `ProcessBackend` implements it as the provider
(`ImplementsBackend`), where the server is the process it spawned. What the contract does not
speak of, the other members of that process's group, is the subject of the two `process_*`
violations.

### Console

`at`, `pipe`, `seen` and `outcome` are the forwarding task between its awaits; `stdin` and
`generation` are what the mutex protects. Because `Config::validate` admits one
`forward_stdin` backend, its servers follow one another and are numbered. Generations are not
wrapped at 2^64: the counter grows by one per attach or detach. A write
returns once the server has read enough, or fails when the server's end is closed. An adapter
that is dropped without `stop` (an exit, a failed boot) does not detach, so its closed pipe stays
in the mutex until a chunk or the next server replaces it.

### ProcessBackend

`step` follows the caller through `start`, `wait_until_ready`, `has_exited` and `stop`;
`scan`, `booted`, `registered` and `notified` are the race between the scanner and the waiter.
The server prints any bytes in chunks of any size up to the read buffer; `tail` is what the
scanner keeps between reads and `output`, a history variable, all that it mirrored, so that
`BannerFound` can compare the flag with the whole output.
`Notify::notified` takes part in `notify_waiters` from its creation on, so registration is
its creation. The group has a leader, the only process that can be waited for, and possibly a
member, the JVM behind a launcher script. Dropping the child kills the leader only, and
`GiveUp` is a drop from outside: the shutdown pass gave up on the startup task, which ends with
the runtime at one of its awaits or with a result that nobody takes.

### CryptoFrames

The payload of one Initial as a sequence of frames, read one by one, then joined in the
order of the stable sort. The frames are cut from one stream, so a byte is named by
its position and a wrong join shows as a byte out of place. `Truncated` is every `?` of the
walk; `EndWalk` is the end of the payload and the `break` at a frame that is not understood.
The loop over ACK ranges and the varints are left out: they only move the cursor.

### Peek

A datagram is the facts of its header that `parse_long_header` and `is_quic_initial` look at: the
bits of the first byte, the version, the longer connection ID, whether the variable fields fit, the
Length field and the sizes. `open` is the two calls in `peek_server_name`, which succeed or fail:
the cryptography behind them is not modelled. The ClientHello is a sequence of cells, one for each
number whatever its width and one for each character, and a length counts cells; `EncodeHello` is
the client's side. A damaged ClientHello has one cell changed, which covers a wrong type and a
length that is too large or too small. The client cuts it into CRYPTO frames in any way,
`CryptoFrames` joins them, and the walk (`HelloHeader`, `NextExtension`, `NextName`) reads the
result with `pos` and `limit` as the `Reader` of the innermost vector; `outer`, a history variable,
holds where the vectors around it end. `HellosAssumption` says what a client may have to write: any
session id, cipher suites and compression methods, any sequence of extensions, each with any list of
names or any body, and any damage to one cell. `Offered` is the reference: what the client's
configuration says, without any encoding.

### Routes

A configuration is chosen in the initial state and `load` gives the verdict of `validate`. A
name is its letters, their case and its trailing dots, all of which count for its length.
`Routes::table` and the map of lifecycle slots are collected into maps that keep one entry
per key, so a lookup is the set of entries it might find: the properties say that this set
has one member. This is what `RoutesAssumption` of `Proxy`, a function from names to
backends, rests on.

## Runs

| Run | Bounds | Shows |
|---|---|---|
| `proxy_safety` | 3 interchangeable clients, 2 backends, TICK 2, idle 2, session 3, grace 3, cap 2 | the safety properties, `KeepsPromise`, `KeepsContract` |
| `relay` | 1 client, 2 backends, all times 1, session timeout 2, room for 1 datagram | `StopsOnlyWhenIdle`, `ReapedNearlyDue`; `SocketIsDrained`, `HeldIsSettled`, `EmptyServerSleeps`, `ShutdownCompletes` |
| `console` | 3 servers in turn, 3 chunks | pipe protocol and `StopReturns` |
| `process` | a marker of 3 bytes (a, a, b), output of up to 5, reads of up to 4 | banner search and race, group kill, ends of boots and stops, `ImplementsBackend` |
| `peek` | 7 honest and 11 damaged ClientHellos of different heads, up to 3 frames cut at two places and at the ends, all header variants at their limits | `InPlace`, `NothingMissed`, `PeekExact`, `StaysInside`, `NamedIsKnock` |
| `routes` | up to 2 named routes, names of no or one letter in either case with up to 2 dots, 5 addresses | `RoutesReachable`, `SlotsUnambiguous` |

Why the bounds suffice: two backends are a default and a named route, enough for one to be stopped,
booted or failing while the pass still has the other to visit, and for a client to be pinned to one
and held by the other. Three clients against a cap of two fill the hold. Grace exceeds the ticker
period, so a stop spans a tick. The `relay` run keeps no symmetry because it checks liveness; one
client on two routes suffices, since each of its properties is about one backend, one client or the
main task, and room for one datagram makes the buffer full and lets a datagram wait through a stop
and meet the overdue tick; liveness with room for two is beyond TLC's time, and what more room does
to `ReapedNearlyDue` is left to its theorem, which is for any buffer. Its session timeout exceeds
the ticker period and its status checks succeed, the two conditions under which `StopsOnlyWhenIdle`
is proved: `Config::validate` also accepts a shorter session timeout, and then a session that opens
and expires between two ticks is invisible to the idle clock; what failing checks do is the run
`idle_status`. Three servers let a pipe be stale by one and by two generations. The marker of the
`process` run has a prefix that repeats, so that a match can begin inside a failed one, and reads of
up to four bytes can hold it whole, split it at every place, over two reads or three, or put bytes
before and after it. Three frames can overlap, repeat, nest and leave a hole before the last. The
damage hits every length of a ClientHello, and in one case makes a list of names run past its
extension into the next one. Two routes over spellings of a name with and without letters, in both
cases and with up to two dots, of which the longest are too long, and five addresses (one without a
port) contain every kind of collision, and four usable addresses leave room for the proxy and three
distinct backends.

Runs expected to fail state what the repository says and the code does not do; the findings
in `PROJECT.json` quote it:

* `idle_status`: a status check that fails skips the idle bookkeeping of its backend. If all checks
  fail while a session lasts, the idle clock runs on under it, and the server is stopped with the
  end of the session instead of `idle_timeout` later;
* `held_moment`: a finished boot waits for the next tick before anything is delivered, and
  longer while the main task is stopping another backend (`NoticedInTime` bounds it);
* `relay_return`: one failed send ends the return path of a session that stays in the table
  and goes on counting as a player;
* `stray_pin`: a datagram that is no Initial opens a session with the default backend, which
  then outranks the name in the client's next Initial;
* `process_stop`: `stop` returns when the leader is gone, whatever the rest of the group
  does;
* `process_failed_boot`: a boot that times out leaves the JVM behind a launcher running.

Every property of a passing run has a mutant: a named faulty variant of one definition,
kept next to it, under which TLC finds the property violated.

### Fairness

* Relay (with Proxy): the main task starts a tick that is due, finishes the handler it is in,
  and every startup task ends (`boot_timeout`): weak fairness. `select!` polls its branches
  in random order, so a ready branch is not passed over for ever by a busy socket or
  ticker: strong fairness of `Read` and `BeginShutdown`. Only finitely many datagrams arrive at one
  instant, so the select loop has read them all again and again, and those that keep arriving do
  not stop the clock: strong fairness of `RelayElapse`. Datagrams, exits, signals and failing pumps are
  not fair. The run excludes failing status checks: a server whose status can never be read is
  never stopped, and that is what the code does.
* Console: the forwarding task runs when it can and a write to a closed pipe fails; a
  write to a live server may stay parked for ever.
* ProcessBackend: the adapter's own steps and its timers. The server is never obliged to
  print, exit or obey a signal, the scanner is not obliged to find anything, no system
  call is obliged to fail and no caller to give up.

## Proofs

All theorems hold for every value of the constants (any finite set of backend addresses, any
clients, names, routes, times, markers, frames), under the named assumptions of the modules.

* **`ProxyProofs`**. `TypeCorrect` needs `FiniteHeld` beside `TypeOK`, because the cap is
  about a cardinality. The safety invariants are not inductive alone; `Inv` adds where the
  main task can be (`ControlInv`), how lifecycle and startup task go together
  (`LifecycleInv`: Waking is having a task, a finished task has a receiver, what is awaited is
  Sleeping), when a process may exist (`ProcInv`) and that sessions are gone once the
  select loop has ended (`SessionInv`). From it follow `HeldSafe`, `SessionsSafe`, `SpawnSafe`
  and `ShutdownLeavesNothing`, and with one lemma on what a step does to the session table
  `SessionLossJustified` and `PinStable`.
* **`ProxyRefinement`**. Under `Inv` every step of `Proxy` is a step of `OnDemand` or
  leaves `serverState` and the sessions alone; one lemma per group of actions. In the same way
  `ContractKept` shows that for every address it is a step of `Backend` or leaves the adapter
  alone: `LifecycleInv` and `ProcInv` say that whoever starts an adapter finds none.
* **`ProxyTimeProofs`**. `StopsAreDue` assumes that status checks succeed and
  `session_timeout > TICK`. The strengthening says that a session the idle clock does not know of
  is younger than the last tick (so it cannot expire unseen), that a pass has told the clock of the
  backends it visited, and that the clock never exceeds the real silence. `NoticedSafe` needs an
  account of what a finished boot has waited for since its backend's last turn: the stops of the
  backends after it in the pass of that turn, the stops of those before it in the next
  (`Spent`), the part used up of the stop under way (`Spending`), and the period between the two passes
  (`Ahead`). A pass visits the backends in order (`OrderInv`), so no backend is in both
  groups, and the account stays within one period and one stop of each other backend.
* **`RelayProofs`**. `RelayImplementsProxy`: a step of `Relay` is a step of `Proxy` or touches the sockets
  alone, so every theorem about `Spec` holds of `RelaySpec`; `RelayStopsAreDue` is the one its run checks.
  `ReapingNearlyDue` follows the first datagram of a client that waits: `SeenInv` says that with none
  waiting `last_seen` is no older than the silence, `LagInv` that with one waiting it is older by at most
  what is no longer to be waited for. There are two accounts of that. In the one for any times every stop
  takes a backend out of those that may still be stopped, and every datagram read ahead puts back at
  most one. In the other (`PromptInv`), for an `idle_timeout` longer than the stops of all the others,
  only the backends whose idle clock has run for longer than the datagram has waited count (`Early`):
  a clock that starts during the wait has the whole `idle_timeout` before it, more than the datagram
  can wait.
* **`ConsoleProofs`**. The heart is `GenerationInv`: the counter equals the one the
  forwarding task saw exactly when the pipe it holds is the one attached last.
* **`PeekProofs`**. `PeekIsExact` for every ClientHello without damage, the rest for every one. Four
  parts:
  1. what `FlattenSeq` computes (`Flattened`): where the parts of a flattened sequence stand. This is an
     induction over its length, made by taking the least counterexample (`LeastNumber`);
  2. what the client writes: from it, the place and the cells of every extension
     (`ExtensionAt`) and of every name (`NameAt`) of a ClientHello, whatever the vectors before them
     (`Lead`);
  3. reassembly: `JoinedInv` (a frame that was joined is in hand to its last byte) and
     `HoleInv` (what is left out lies beyond a hole) make `InPlace` inductive and give `NothingMissed`, of
     `CryptoFrames` by itself and of the peek; `JoinExtends` is the lemma about one append. `CoverInv`
     (what was joined came in a frame) with `NothingMissed` turns "all of it is in the packet" into
     "all of it was joined" (`InHandIs`);
  4. the walk: the length at the head of a ClientHello keeps the walk from entering a part of one
     (`HonestWhole`), and in a whole one `ExtInv` and `NameInv` say that the reader stands where the next
     extension or name begins and that what it passed over was no list or no usable name. `ReaderInv` is
     what is left of this for a damaged ClientHello: a reader within its vector and that one within
     every vector around it, which is `StaysInside`.
* **`ProcessBackendProofs`**. For any marker. `TailInv`: what the scanner keeps ends the
  output, and is all of it or at most one byte shorter than the marker; with the bound on a read it
  is the bound on the scanner's memory in `TypeOK`. `NewBanner` is the lemma that a
  banner which a chunk completes then lies in the tail and the chunk. `FlagInv` follows the
  flag through the scan, which makes `BannerFound` inductive and, with `WaiterInv` (who waits is
  registered, who was woken saw a banner), gives `NoLostWakeup` and `ReadyMeansBooted`. `GroupInv` adds
  to `KillReachesGroup` that nothing is spawned after a kill. `AdapterImplements` maps every step to
  one of `Backend` or to none.
* **`RoutesProofs`**. An accepted configuration has passed `validate` (`AcceptedInv`); both
  properties then follow from the two tests for distinctness.

Only model-checked are the liveness properties (`SocketIsDrained`, `HeldIsSettled`,
`EmptyServerSleeps`, `ShutdownCompletes`, `StopReturns`, `BootIsDecided`): fairness is outside the
prover's reach. Every invariant and every action property of a passing run is a theorem.

## Not modelled

* `Keys::initial` and `Keys::open` of `sni.rs` (key derivation, header protection, AEAD):
  third-party cryptography; opening a packet succeeds or fails.
* The payload of a held Initial: `hold` replaces it by a newer one of the same client, which leaves a
  set of clients as it is. What the cap does to a new client is modelled.
* The byte encoding of numbers (`u16`, `u24`, varints): a number is one cell. That a number is cut
  off in its middle is the same early return as its absence.
* Payloads on the return path: the proxy never looks at them; a pump runs or has ended.
* `bind_public`, the TOML layer and defaults of `config.rs`, `server_args`, logging, the command line:
  set-up and pure I/O before the first state, without state of their own.
* The non-Unix branches of `process.rs` and `main.rs`; the copy of the server's stderr.
* The length of a boot: it may take any time, which covers every `boot_timeout`.

## Plan

What is left:

1. The safety part of the liveness properties: what each of them waits for stays possible, as an
   invariant of the state that is waiting (a full socket has a reader, a held Initial a boot or a
   turn to come).
2. The typing of `Peek` and of `Routes` as invariants of their own, if their state grows.
