# A TLA+ model of SA-MP Pilot

SA-MP Pilot is a headless client for San Andreas Multiplayer: one Go process
that keeps several players connected to game servers, shows them in a web
interface and lets plugin processes drive them. This directory holds
specifications of its concurrent core, model-checked with TLC on small
instances, and theorems about them, proved with TLAPS for every instance. The
reference is the code: a module states what the functions do, and a comment or
a document of the repository enters only as a property.

Contents: [the system](#1-the-system) · [modules](#2-modules-and-their-code) ·
[runs](#3-runs) · [bounds](#4-bounds) · [fairness](#5-fairness) ·
[proofs](#6-proofs) · [findings](#7-where-code-and-text-disagree) ·
[known behaviour](#8-behaviour-worth-knowing) · [limits](#9-not-modelled)
· [plan](#10-plan)

## 1. The system

Paths are below `src/`.

| Component | Code | State | Operations | Hard behaviour | Module |
|---|---|---|---|---|---|
| Player lifecycle | `internal/samp/lifecycle.go`, parts of `client.go` | `playerLifecycle`: life state, spawn transaction, death, respawn policy, epoch | RequestSpawn, server RPCs, death notification, tick, respawn workers | five kinds of goroutine, state read before a write and used after it, timeouts, retries, stale workers | `SpawnProtocol` |
| Client event feed | `client.go:2646-2781` | `eventQueue`, `events`, `pendingEvents`, stop signal, terminal event | emitBatch, dispatchEvents, stopEventDispatcher | two bounded channels, a consumer that may be gone, ordering of batches, shutdown | `EventDispatcher` |
| Vehicle entry | `client.go:646-962, 2196-2318` | pending and queued entry, exit in progress, entry IDs | EnterVehicle, ExitVehicle, server placement and removal | a timer against the server, an exit that continues into an entry | `VehicleEntry` |
| RakNet connection | `internal/raknet/conn.go`, `frame.go`, `rpc.go` | unacknowledged frames, received numbers, reorder windows, split assemblies, numbers modulo 2^16 | Write, Read, Close, resend, receive | loss, duplication, reordering; limits of each window; one goroutine that sends, receives and delivers | `RakNetConn`, `RakNetReceiver` |
| Instance manager | `internal/service/manager.go` | instances: snapshot, context, client | Connect, Disconnect, Delete, Update, actions, event consumer | overlapping connections, events of a stale one, locks taken in two orders | `InstanceManager`, `ManagerLocks` |
| Plugin host | `internal/plugins/host.go` | processes, their status, pending calls | start, stop, restart, watch, discover, Close, Debug | restart timers against user actions, failing starts, processes that end at any time | `PluginHost` |
| Gameplay state | `client.go` | players, vehicles, objects, dialogs, text draws | decodeRPC and sync decoders | mostly data | in part in `SpawnProtocol` |
| Motion | `motion.go` | at most one task | WalkTo, DriveTo, StopMovement, tick | events emitted after the unlock; geometry in floating point | its emission at shutdown, in `EventDispatcher` |
| State feed | `manager.go:1750-1869, 2100-2117`, `httpapi/server.go:283` | revision, dirty flag, subscriber queues | publish, emit, Subscribe | patches out of order, evictions | none |
| Web synchronisation | `web/src/lib/instance-sync.ts` | snapshots, resync targets, generations | handle, reconcile, resync | lost and reordered patches | none |
| Store | `internal/store/store.go` | data in memory and on disk | Update, EnsureGPCI | crash between write and rename | none |
| Encodings, instance logs, HTTP API, query, statistics, web pages, entry point | see PROJECT.json | little or none | | input and output | none |

How they interact. `service.Manager` owns one `samp.Client` per connected
instance. A client owns one `raknet.Conn`. Three goroutines live as long as a
client: `run` reads and decodes messages, `syncLoop` ticks every 30 ms, and
`dispatchEvents` moves events to the channel that `Client.Events()` returns; the
respawn policy adds workers. The manager ranges over that channel, updates the
instance's snapshot and publishes revisioned patches to WebSocket subscribers and
to plugins. API calls arrive from HTTP handlers and plugins, on goroutines of
their own, while all of that runs. The plugin host starts one process per plugin
and talks to it over its standard streams.

What makes a component correct:

- lifecycle: the client acts in the world only within a life the server was told
  of; a death is reserved once and completed, and told to the server once unless a
  respawn or a new session supersedes it; a transaction that begins ends; a dead
  player respawns under the automatic policy.
- event feed: no event is lost, doubled or reordered while the client runs; a
  batch stays together; a client that is cancelled shuts down even if nobody
  reads; the channel is closed when shutdown returns.
- vehicle entry: nobody goes on with an entry, or sits, in a vehicle whose last news
  is that it was removed or destroyed; a queued entry is continued or taken back;
  every call returns.
- RakNet: each ordered channel delivers a prefix of what was sent, in order and
  once; what was acknowledged is not dropped silently; what was promised to the
  peer stays pending until it is acknowledged; Close ends and says goodbye.
- manager: one current connection per instance; no update from a stale one; an
  answer goes to the connection that asked; no waiting in a circle.
- plugin host: at most one process per plugin, none that nobody can stop, and none
  that an automatic restart brings back after a Stop or a Close; every request is
  settled.
- state feed and web: the browser's snapshot equals the server's once traffic
  settles, whatever patches were lost.
- store: memory never ahead of the disk; a crash leaves the old or the new file.

`PROJECT.json` lists every component with its status, and under `hazards` each
place where a race, a failure or a limit bites, with the properties that cover
it or the reason why none does.

## 2. Modules and their code

```
PlayerLifecycle          the record and its methods (operators)
   SpawnProtocol         the goroutines that call them      -- implements --> LifeContract
      MCSpawnProtocol, SpawnProtocolProofs, SpawnLifeProofs
EventDispatcher          the way of an event to its consumer -- implements --> EventFeed
   MCEventDispatcher, EventDispatcherProofs
VehicleEntry             callers, continuations and the decoder
   VehicleEntryProofs
RakNetReceiver           what arrives
   MCRakNetReceiver, RakNetReceiverProofs
RakNetConn               the goroutine, its callers and what is sent
   RakNetConnProofs
InstanceManager          one instance and its connections
   InstanceManagerProofs
ManagerLocks             the manager's two kinds of mutex
PluginHost               one plugin and its processes
   MCPluginHost, PluginHostProofs
```

**Player lifecycle.** `PlayerLifecycle` has no variables. `Lifecycle` is the Go
structure as a record; `BeginSpawnRequest`, `CommitDeath` and so on map a record
to the next one, and `Can...` operators are the guards that make a method return
without effect. Time is reduced to whether a deadline has passed
(`respawnCooling`; the request and report timeouts may fire whenever they are
pending).

`SpawnProtocol` runs them. A step is one critical section of `stateMu` or one
write to the transport, because `stateMu` is never held across a write. `syncMu`
and `deathWireMu` are held across writes, so they are variables. `pc` says where a
goroutine is: `spawn_lock`, `spawn_write`, `spawn_commit` are the three parts of
`sendSpawnAndCommit`; `death_lock`, `death_frame`, `death_commit`, `death_write`
those of `completeDeath`; `report_*` those of `retryDeathNotification`. A write
has three outcomes, because `Conn.WriteChannel` may return the context's error
after the network goroutine has taken the frame: `written`, `failed`, `unsure`.
`wire` is what the server can conclude from the RPCs written so far; it exists
only in the model. `believed` is the life state a consumer derives from the
events (`applyLocalPlayerLifeState`), so that announcements can be compared with
the state they announce.

| Code | In the model |
|---|---|
| `Client.run`, one message | `Recv...`, then the handler's further critical sections, `DrainBatch`, `Emit(Run)`, `RunPolicy(Run)` |
| `decodeRPC` for RPC_RequestSpawn | `RecvRequestSpawn`, then `LockSpawn` .. `CommitSpawned`, or `RejectRequest` |
| `setPlayerHealth`, `NotifyLocalPlayerDeath` | `RecvZeroHealth`, `ReserveNativeDeath`, then `LockDeath` .. `WriteDeath` |
| `RequestSpawn` | `RequestSpawn(t)` decides; request: `EmitRequestPending`, `WriteRequest`, `RollbackRequest`; direct: `LockSpawn` .. `DrainSpawned` |
| `syncLoop` | `Tick` or `ExpireRequest`, `RetryReport` .. `WriteReport`, `LockSync`, `WriteSync` |
| `runAutomaticSpawn` | `WakeWorker`, `StopWorker`, `WorkerRequestsSpawn`, `ExitWorker` |
| `Close`, a failing Read | `Close`, `ConnectionLost` |

**Event feed.** `EventDispatcher` models the two channels as sequences with their
capacities, `eventBatchMu` and `eventSubmitMu` as owners, the loop of the
dispatcher by the place it waits at, and the shutdown: `ReadFails` or `Rejected`,
an optional movement event, `StopDispatcher`, `Halt`, `DeliverTerminal`/`Evict`,
`CloseEvents`, `AwaitDispatcher`. A Go `select` with several ready cases is a
choice. The two non-blocking selects of `deliverTerminal` are two steps, so the
consumer may act between them. An event is the batch it belongs to and its place
in it. `accepted` and `received` are histories.

**Vehicle entry.** The variables of `VehicleEntry` are the fields of the client
(`inVehicle`, `vehicleID`, `pending` for the `enterPending...` fields, `queued` for
the queued entry, `exitPending`) and, by vehicle, what is streamed in. `CheckEntry` is
the first critical section of `enterVehicle`; then a job either queues its target
and exits (`QueueEntry`, `BeginExit`, `LockExit`, `WriteExit`, `CommitExit`, and
`UnqueueEntry` when that fails), or enters (`LockEntry`, `WriteEntry`, and
`CompleteDirect` or, for a normal entry, `AwaitEntry` with its timer,
`RecheckEntry`, `CompleteNormal`). The decoder's actions are named after the
messages. `vehicles` says of each vehicle what is stored: nothing, one with health,
one without. It is written by `EndVehicle` (a removal, or a RPC_SetVehicleHealth
of 0: both cancel what concerns the vehicle and detach who sits in it),
`RepairVehicle` (a positive RPC_SetVehicleHealth) and `StoreVehicle`, which is
RPC_WorldVehicleAdd and the sync of another driver: these store the health they
carry, 0 too, and cancel nothing. `DetachLocalVehicle` is the native backend's
report. The history `ended` holds the vehicles whose end by `EndVehicle` no news of a
living vehicle has followed. A queued entry is continued by the goroutine that
committed the exit, or by one that the decoder starts (`Detach`). Life and death are external here and
end every transition.

**RakNet.** `RakNetReceiver` is the receiving half of `run`: `Receive` is the
window of message numbers with its clearing, then `accept` with its split
assemblies (`SplitPart`, `SplitRefused`, `Expire`) and streams (`InOrder`,
`Ahead`, `Behind`, `Newest`, `Unordered`). Frames and ordering indices carry
numbers modulo `Space`; the server is external and numbers its frames as the
client's own `queueFrame` does. `RakNetConn` is the goroutine itself: `Start`,
the datagrams (`Read...`), each payload of one (`Handle...`, `Deliver`), the
select (`Leave`, `Serve`, `Tick`, `NothingToDo`) and the grace period after
Close (`Drain...`), with callers of `WriteChannel`, `Read` and `Close` around it.
It takes the payloads in the order in which the receiver hands them out.

**Instance manager.** A context and a client of `InstanceManager` are numbers.
`Connect`, `Disconnect`, `Delete` and `Update` are the critical section of
`instance.mu`, and `StartConnection`, `Retire` and `ConnectFails` what their
callers do after the unlock with what they took out. `loop[g]` is where the
goroutine of context g is: `Dial`, `Install`, the events (`ApplyEvent`,
`EventDisconnected`, `EndUnannounced`, `DropEvent` of a stale one,
`EventsClosed`), `RecordFailure`, `Retry`. Of the snapshot the model keeps whose
data it holds (`world`, `position`) and the dialogs. `ManagerLocks` is about
`Manager.mu` and `instance.mu` alone: Go's RWMutex, whose waiting writer keeps new
readers out, and the three ways in which the manager nests the two.

**Plugin host.** `PluginHost` is one plugin. The `lifecycle` mutex is held from
`BeginStop` to `Publish`; a process of the operating system and the `process`
record that stands for it are one value, in `os` and `status`. `CloseDone` and
`Finish` are the two halves of `finishWith`, `Delay` and `ScheduleRestart` those of
`scheduleRestart`. The watcher's tick has three outcomes for a plugin: `Changed`,
`Removed`, `Discovered`; a `Reload` replaces the process, marks it after an
unreadable manifest, or does nothing when the manifest has another ID. `TakeSlot`,
`Register`, `Enqueue`, `Answer` are `Debug` and `request`. The reader of a process
answers them in two steps, `TakeWaiter` under the mutex of the process and
`SendResult` after it, with the request in `reading` in between. `halted` is a
history: which of Stop and Close came last, until somebody starts the plugin who
may do so.

`LifeContract` and `EventFeed` are what the two components promise to those who
do not know their insides: the server, and the one consumer. They are checked as
`KeepsContract` and `KeepsFeed` under the mappings in the detailed modules.

Operators whose comment begins with "Mutant of" are plausible mistakes; no
specification uses them. Each property is known to fail when the definition named
there is replaced by its mutant.

## 3. Runs

| Run | Question | Shows |
|---|---|---|
| `SpawnAutomatic` | the respawn policy, with two workers that overlap, rejoins, class rejections, late health and Close | the fields of a transaction fit together, spawning always has a goroutine that ends it, at most one worker is current and every dead player has one, `LifeContract` is implemented, `WireInv` holds |
| `SpawnShared` | an API caller, a native backend and a worker at once, with vehicles and positions | a frame is written only within a told life, a death is completed, and written once |
| `SpawnLive` | liveness under the automatic policy, with rejoins and rejected classes | the dead respawn, a death does not stay untold unless a respawn, a new session or a cancellation supersedes it, a request ends though the server never answers, a cancelled client comes to rest |
| `Events` | the event feed with full channels, shutdown at any moment and a consumer that may stop | nothing is lost, batches stay whole, shutdown hands over a closed channel, `EventFeed` is implemented, a cancelled client frees its emitters |
| `RakNetInbound` | frames lost, repeated and reordered, over the wrap of every number and at every limit | ordered channels deliver a prefix, sequenced ones never go back; what was acknowledged is delivered, held, or given up at a limit; the counters that limits are checked against count what is held |
| `RakNetConn` | a writer, a slow reader and a caller of Close, failing writes, a server that ends the connection | a reliable frame stays pending until acknowledged and indices have no gap; Close says goodbye and returns; a write waits only for a reader |
| `VehicleEntry` | two callers, a continuation, failing writes, placements, removals, destructions, repairs, frames of other drivers and deaths | nobody goes on with an entry or sits in a vehicle that has ended; a queued entry has an owner; every call returns |
| `InstanceManager` | two callers of every operation over the goroutines of successive contexts | the snapshot is the current connection's, no open connection is without an owner, dialogs are answered once and where they came from |
| `PluginHost` | two callers of every operation, the watcher, automatic restarts, processes that end at any time | at most one process lives, and is owned; no automatic restart undoes a Stop or a Close; requests are settled |
| `StaleWorkerRequest`, `TerminalEventLost`, `ManagerDeadlock` | a statement of the repository about the program | a counterexample: section 7 |

Deadlock is checked in the runs of `SpawnProtocol` and `EventDispatcher`, where
`Terminated` is the only state in which the system may rest, and in
`RakNetInbound`, whose network repeats frames for ever. In `VehicleEntry`,
`RakNetConn`, `InstanceManager` and `PluginHost` the system really may stop, when
all calls are made and the server is silent, so these say `CHECK_DEADLOCK FALSE`,
and `CallsReturn`, `CloseEnds` and `WriteEnds` say what must not remain undone.
`ManagerDeadlock` says it too, since every goroutine ends after its call; its
property is that of the chat line.

## 4. Bounds

- `MaxEpoch` stops messages that begin a new epoch (an InitGame, a class
  rejection, a death, a commit). Three are needed for a full life (join, spawn,
  death); six in `SpawnAutomatic` let a worker be overtaken by a rejoin and a
  second life while it still holds the epoch of the first; four in `SpawnLive`
  allow a death after a rejoin. Epochs are compared for equality only.
- `MaxRequests` bounds the requests of an API caller, since the request counter
  is compared for equality with a remembered value; workers and the server are
  not limited by it.
- Two workers suffice for "stale and current"; one API caller and one native
  backend interfere with the decoder, the tick and a worker, so five goroutines
  compete for the mutexes. Identical goroutines are symmetric; no run with a
  liveness property uses symmetry.
- `Optional` chooses which of the less common messages a run contains, so that
  each combination stays small. Their handlers that change the lifecycle are in
  every combination that a property of the run depends on.
- `Events` has capacities 1 and 2 for the code's 256 and 256: the first blocks at
  every second event, the second allows an eviction that leaves one event
  behind. Three batches of up to two events fill both and leave one in an
  emitter's hands. One emitter and the run loop compete; the proofs cover any
  number.
- `RakNetInbound` has `Space = 10`: ten numbers and indices for the code's 65536,
  so twelve messages wrap them. The window holds three numbers for 4096, three
  frames can be under way at a time (`Flight`), a message has at most so many parts
  (`MaxParts`), and of the last `Space` frames one may be lost for good (`MaxLost`;
  only an unreliable one, as others are sent again). `NumberAssumption` asks that
  the window, twice the flight and the lost frames fit into the number space. The
  window forgets numbers by count, so it takes `MaxReceivedWindow` arrivals to
  forget one: if nearly all of `Space` frames in a row were lost, the number of a new
  frame would meet its predecessor's in the window and the frame would be dropped
  unseen. In the code 4096 of 65536 frames must arrive. The reorder buffer
  holds one message, assemblies two bytes: every limit is met. Three workloads
  share the state space between ordered streams, sequenced ones, and splits over
  two channels.
- `RakNetConn`: queues of one, two attempts, two pending frames, one UDP write
  that fails, two datagrams of one payload. `Pending` reaches its limit, a frame
  reaches its last attempt, and both channels are full.
- `VehicleEntry`: two calls and two messages, of two callers. A vehicle change
  needs one caller, its race one more. One continuation can be active: a second
  message that would start another waits, which is a bound. `Seat` has one member,
  because a change of seat takes the same path as a change of vehicle; the proofs
  have both. What a queued entry requires of its vehicle, and whether an entry is
  turned down for its distance, is a choice.
- `InstanceManager`: two contexts, two clients and two dialogs, three calls by two
  callers: an old and a new connection, and one that a caller interrupts. One
  deferred dialog is kept (`MaxDeferredDialogs`), so a second one drops it. The
  proofs have no bound.
- `PluginHost`: two calls, two ticks of the watcher that find something, three
  processes. Processes and callers are symmetric. How a process ended is forgotten
  once `Finish` has used it (`os` becomes "exited"), which merges states that no later
  step tells apart.

## 5. Fairness

A goroutine that is inside an operation goes on. It is strong fairness where a
mutex is involved, because Go's mutex hands itself to a starving waiter. Timers
fire (`ExpireRequest`, `CoolDown`, `WakeWorker` through `GoOn`, `AwaitEntry`). A
goroutine that waits in a select with a closed channel among its cases takes that
case in the end, since Go chooses among ready cases at random (`Halt`,
`StopWorker`, `ctxDone /\ ReadFails`, `Leave`; `Serve` likewise). Writes: the
transport takes a repeated write in the end (`WriteReport("written")`,
`WriteSpawn(t, "written")` of a worker and of the decoder, which answers the
server); without that neither a report nor a respawn can be promised. Nothing is
assumed of the server, of the callers or of the consumer: `CancelFrees` holds
though `Receive` may never happen again, `CloseEnds` though nobody reads, and
`WriteEnds` names the reader as the one thing a write may wait for.

In `SpawnProtocol` an emission is one step. That it does not wait for ever is
true only with a consumer or after a cancellation, which is what
`EventDispatcher` is about; the liveness of `SpawnProtocol` is therefore that of
a client whose events are read. In the same way a write of `VehicleEntry` and
`SpawnProtocol` ends because of `WriteEnds`.

`ManagerLocks` has weak fairness of every goroutine: one that can go on does. Its
counterexample is a deadlock, so no fairness would prevent it.

## 6. Proofs

`tlapm` checks all eight proof modules. They assume the ASSUMEs of the modules
they extend: the sets of goroutines are disjoint, the owner of a free mutex is
not a goroutine, capacities and bounds are natural numbers, and, of the receiver,
`NumberAssumption` (section 4). They hold for all sets and all bounds, so neither
the number of goroutines nor the length of a run matters.

Every invariant that a passing run checks is a theorem, and so are the two
refinements, `KeepsContract` and `KeepsFeed`. Each inductive invariant was checked
with TLC on the instance of its run before it was proved.

Spawn protocol (`SpawnProtocolProofs`):

- `TypeCorrect`: `TypeOK`. Beside the types, it needs that each `pc` stays in
  `Label` and that the operators of `PlayerLifecycle` return records (`LifecycleType`).
- `WireCorrect`: `WireInv`. Why a strengthening: "a spawned client has told the
  server" follows from nothing the commit itself looks at. `markSpawnedLocked`
  inspects no phase, so the commit is right only because the goroutine still
  holds `deathWireMu` since its write, and no report can have come in between.
  `WireInv` says what each holder relies on. A step is *quiet* when it changes no
  life, no wire and no mutex (`QuietOrMutexStep`), and quiet steps keep `WireInv`
  for one reason (`QuietStepWire`); the others are treated one by one
  (`MutexStepWire`).
- `SpawnSeen`, `FramesWithinLife`, `DeathsWrittenOnce`: what `WireInv` implies.
- `ContractKept`: every step is a step of `LifeContract` or leaves it alone.

Life and workers (`SpawnLifeProofs`, on top of the types): `LifeCorrect` proves one
invariant of three parts.

- `LifeInv`: `Consistent(lc)` is `TransactionConsistent` made inductive: a
  transaction that began dead remembers a reported death, a request waits in
  spawn_request_pending, a death in progress is that of a spawned player. It is a
  predicate of the record, so each operation of `PlayerLifecycle` is a fact about
  records (`ConsistentOperations`), whoever calls it. With it go health against
  life, and the owners of the spawning phase and of a reserved death: the labels
  between reservation and commit (`SpawnOwner`, `DeathOwner`).
- `PlaceInv`: which goroutine reaches which labels. Only the decoder and a native
  backend complete deaths, so a reserved death's owner is one of those.
- `WorkerInv`: `OneCurrentWorker` and `DeadHasWorker` are inductive with "no worker
  is ahead of the epoch" (`NoneAhead`) and "a worker of the current epoch ends only
  when the player lives or the client is cancelled" (`EndsForTheLiving`). Starting a
  policy advances the epoch, which makes every other worker stale.

Steps that only move a program counter are treated at once (`LocalStepKeeps`).
`TransactionsConsistent`, `SpawningOwned`, `ReservedDeathOwned`, `HealthAgrees`,
`OneWorker` and `DeadAttended` are the properties of the runs.

Event feed (`EventDispatcherProofs`):

- `TypeCorrect`: `TypeOK`.
- `NothingIsLost`: until the dispatcher stops, what the queue took is the
  concatenation of what was received, what is buffered, what the dispatcher has
  in hand and what is queued. It is inductive together with "the hand is empty
  unless it is being delivered"; the steps move the head of one part to the end
  of the part before it (`MoveHead`).
- `BatchesStayWhole`: `BatchesWhole` says nothing about unfinished batches, so
  `BatchInv` adds: the rest of a batch is either all of a batch that nobody has
  seen, or continues the last event of the queue and its goroutine holds
  `eventSubmitMu`; two goroutines never share a batch.
- `ShutdownHandsOver`: `HandedOver`, with the fact that only the run loop
  reaches the labels of the shutdown and only after the cancellation.
- `FeedKept`: `KeepsFeed`, the refinement of `EventFeed`. The abstract consumer is
  at the place of the feed it received last (`LastReceived`, the greatest of
  `Places`), which is a function of the histories only because an event has one
  place (`OnePlace`, from `Ordered`: a batch enters the queue in its order). While
  the dispatcher flows, the consumer has exactly the first events and the channel
  those that follow (`FlowInv`, from `NothingIsLost`). After the stop, eviction may
  leave a gap: `FeedAt(l, b)` says that the consumer is at place l, and that the
  channel holds what follows place b, not before l. The terminal event is the last
  in the channel and the last received (`TerminalLast`). `FeedStep` then maps a
  `Submit` to `Send`, a `Receive` to `Get` or `GetTerminal`, `StopDispatcher` to
  `Stop`, and every other step to a stutter.

RakNet, what arrives (`RakNetReceiverProofs`, the longest of the proofs). The
invariant is `WholeInv`; `TypeCorrect`, `StreamsKept` and `AcknowledgedAccounted`
follow from it.

- `ReceiverInv`: what is held is of its channel and of different indices
  (`HeldInv`), and the counters that the limits look at count it (`CountInv`).
- `ServerInv`: the indices of a stream are 0, 1, 2 and so on (`IndexInv`), and a
  frame is not before its message (`FrameInv`).
- `NumberInv`, the window: each number in it is that of a frame that arrived, one
  of the last `Space`, and while a number stays, so do those of all frames that
  came behind its flight. So a frame whose number is met in the window has arrived
  before (`WindowInv`): were it the number of another, `Space` frames before, more
  frames than the window holds would have arrived in between, by
  `NumberAssumption`.
- Numbers modulo `Space` are judged right. What is under way is less than half a
  number space behind what was sent last, so `sequenceNewer` of the remainders says
  what the order of the indices says (`NewerAhead`, `NewerBehind`, `SameNumber`).
  That the next message of a stream is still near is no fact of the receiver
  alone: what left the flight has arrived (`FlightInv`), what arrived is
  accounted for (`AccountInv`), hence the next undelivered message is still under
  way or in the assemblies (`NextUnderWay`).
- `OrderedAt(c, e)`: of an ordered stream from which nothing was given up, the
  client has delivered exactly the first e messages, in their order; `expected`
  is e modulo `Space`; and what is held lies behind. A message in turn releases a
  run of those held without a gap, which moves e by the length of the run.
  `SequencedAt(c)`: what was delivered of a sequenced stream ascends, and `sequenced`
  is the index of the last.
- `AccountInv` is `AcknowledgedIsAccounted` with its cases by name: held in an
  assembly, or `Done`: delivered, held ahead of its turn, overtaken, or given up.

RakNet, what is sent (`RakNetConnProofs`): `ConnCorrect`, then `TypeCorrect`,
`Accounted` (`OutboundAccounted`) and `GoodbyeTold` (`GoodbyeSent`).

- `PromiseInv`: a reliable frame that was written is pending until it is
  acknowledged, also after the end. `IndexInv`: the index of a frame is the number
  of frames of its stream before it, and the counters are the sizes of the streams;
  a frame whose write fails has used its index.
- `EndInv`: whoever drains has said goodbye; whoever has stopped has said it or has
  a reason (a terminal error, a failing socket, a frame at its last attempt), and
  these reasons last; Close returns after the end.

Plugin host (`PluginHostProofs`): `HostCorrect`, then `TypeCorrect`, `NoStray`
(`NoStrayProcess`) and `Settled` (`RequestsSettled`).

- `HostInv`: `NoStrayProcess` speaks of the moments when the mutex is free. In
  between, `HolderKnows(t)` says what its holder has in hand: only the process that
  it stops lives while it waits, none when it launches, since the wait ends with
  `done`, and what it launched is the only one when it publishes. `Live` counts a
  process until its end has been waited for, so a killed one that lingers is never
  joined by the next. A holder in "await" has asked the old process to stop, so a restart
  that waits for the mutex finds `stopRequested` and leaves. `ProcessInv` adds that
  what was stopped is not what an automatic restart looks for, and that one who
  closes has set `closed` first. `NoUnaskedStart`, the third part of
  `NoStrayProcess`, is about automatic restarts: while `halted` is "stopped" no
  process lives, and only a caller's Start or Restart, a change of files or a
  discovery ends that; while it is "closed", only a discovery. It does not say that
  a stopped plugin stays stopped, which is not so (section 8).
- `RequestInv`: a request number that nobody has registered is nowhere (`Fresh`);
  two callers never have the same; a registered request is owed by one process,
  that is pending or in its reader's hands (`Owed`), or answered, not both; a
  finished process has none pending and is never active again.
  `Register` looks at the status in the critical section in which it registers, and
  `Finish` ends the status in the one that empties the map, so no request is added
  to an emptied map.

Vehicle entry (`VehicleEntryProofs`):

- `TypeCorrect`: `TypeOK`, which also says that a vehicle number is kept exactly
  while the player sits in that vehicle.
- `NobodyInEndedVehicle`: `NeverInEndedVehicle`. It is inductive with `TypeOK` and
  `EndedIsNotAlive` (what has ended is not stored with health): an entry that
  requires its vehicle is marked only when that is alive (`LockEntry`), the
  completion looks once more, and each message that ends a vehicle cancels what
  concerns it (`CancelFor`, `Detach`). A vehicle that only loses its health by
  `StoreVehicle` has not ended in this sense.
- `QueueOwned`: `QueueHasOwner`, together with `QueueingAsksForExit`: one who is
  about to queue an entry is going to ask for an exit. The exit of one caller may
  serve the queued entry of another, which is why `exitPending` alone is an owner.

Instance manager (`InstanceManagerProofs`):

- `TypeCorrect`: `TypeOK`.
- `SnapshotIsOfCurrentClient`: `CurrentOnly`. That the snapshot holds only data
  of the current client is not inductive: a goroutine of an old context is kept
  from writing by what it compares, and that these comparisons suffice needs to
  know who has which context and client. `ConnectionInv` says so: contexts and
  clients above the counters are unused, and two contexts never dial one client
  (`Numbered`); a caller of Connect has a context of its own to start
  (`Starting`); a current client whose feed is closed ended unannounced
  (`Endings`); where the goroutine of the current context is tells what the
  current client can be (`Owned`); dialogs that wait have been received
  (`DialogsReceived`); a client implies a context (`ClientHasContext`); and
  Delete has taken the instance out of the map (`DeletedFirst`). Lemma by lemma each
  part is kept by every step, from all of them.
- `DialogsAnsweredOnce`: `AnsweredOnce`. Two facts are added: a dialog waits in
  one place (`Unique`), and a caller that answers has a dialog that neither waits
  nor is another caller's (`Answering`). `TakeDialog` establishes the second from
  the first in one critical section, which is what the comment at
  `manager.go:1307` is about; moving dialogs (`MoveUnique`) keeps the first.

Only model-checked: the eight liveness properties, since fairness and ENABLED are
out of the provers' reach, and the three runs that refute a statement, where the
trace is the point. Nothing is proved of `ManagerLocks`, whose only property is
refuted. Why the composed systems have no theorem is said in section 9.

## 7. Where code and text disagree

1. `StaleWorkerRequest`. `lifecycle.go:420-422`: initial spawning stays explicit.
   A respawn worker checks its epoch and `dead`, unlocks, and calls
   `RequestSpawn`, which decides anew. If an InitGame and a class answer come in
   between, the worker sends an initial request that nobody asked for.
2. `TerminalEventLost`. `client.go:1266-1267`: the terminal event is guaranteed.
   `deliverTerminal` gives up if a buffer that was full at its first select has
   been drained at its second.
3. `ManagerDeadlock`. `manager.go:1777-1778`: chat keeps publishing immediately.
   `appendChat` emits while it holds `instance.mu`, and `emit` reads under
   `Manager.mu`. `List` holds `Manager.mu` to read while it copies each instance
   under `instance.mu`. With a goroutine that waits for `Manager.mu` to write
   between them (Subscribe, the end of a subscription, Create, Delete), the three
   wait for each other for ever: a waiting writer keeps new readers out. Every
   later call of the manager waits as well.

Three statements of the repository that the modules define and that do not hold.
They have no run; a configuration with the constants given finds the trace.

- `SpawnedAnnouncedFirst` of `SpawnProtocol` (`client.go:579-581`: the spawned
  event precedes the state event). The direct spawner queues the state event in
  its commit and drains the queue later; the run loop may drain it first.
  `Worker = {w1}`, no API caller, no backend, `Optional = {}`, `AutomaticPolicy = TRUE`,
  `MaxEpoch = 4`, `MaxRequests = 1`.
- `SnapshotIsCurrent` of `SpawnProtocol` (`PLUGINS.md:111`). Snapshots show the
  player's life state, but transitions are announced after their unlock, so the
  older of two may arrive last and stay. `Api = {a1}`, no workers, `AutomaticPolicy =
  FALSE`, `MaxEpoch = 2`, `MaxRequests = 1`.
- `ExitFirst` of `VehicleEntry` (`client_test.go:933`: changing vehicles must exit
  the current vehicle first). A caller that found the player on foot goes on to
  enter after the server has put the player into another vehicle. The constants of
  `VehicleEntry.cfg`.

## 8. Behaviour worth knowing

No statement of the repository forbids these; the model contains them unless a
line says otherwise.

Spawn protocol:

- A class rejection between `beginDirectSpawn` and the commit does not stop the
  spawn: the commit looks at no phase. `TransactionConsistent` still holds.
- The final driver frame is decided before the wait for the mutexes; after a
  rejoin meanwhile it belongs to the old session. The death itself is dropped.
- Request IDs restart at 1 with a new session, so the rollback of an old request
  can match a new one of the same number, and cancels it.
- After an RPC_Spawn of unknown outcome the client rolls back although the
  server may have spawned it; `TellDeath` of the contract allows for it.
- The last branch of `runAutomaticSpawn`, which starts the policy again when the
  player is still dead, is only reached by a worker that is cancelled or stale,
  and its own conditions exclude both.

Vehicle entry:

- `exitVehicle` commits "on foot" whatever was decoded during its write: a
  PutPlayerInVehicle in between is overwritten, and so is the entry that a
  continuation has completed meanwhile.
- `EnterVehicle` returns success although another exit has cleared its queued
  entry, and a failed exit write leaves the queued entry of another caller without
  an owner until the next exit (`exitFailed` in `QueueHasOwner`).
- The queued vehicle may be removed and streamed in again between the commit of
  the exit and the continuation's check, which does not tell the two apart.
- A health of 0 that comes with another driver's sync (`observeVehicleSync`,
  `client.go:1339-1354`) or with RPC_WorldVehicleAdd (`client.go:1981-1996`) is stored
  and nothing else: a pending or queued entry and a stay outlive it, whereas one of
  RPC_SetVehicleHealth ends them. This is how `completeVehicleEntry` meets a vehicle
  without health under its own pending entry (`client.go:2234-2238`).
- A direct entry of a vehicle that was not known when the call began is allowed,
  whatever has been decoded of it since. `NeverInEndedVehicle` says nothing of a stay
  that began so (`assured` is false).
- A positive SetVehicleHealth makes a vehicle known that was never streamed in.
- Not in the model: `sendSync` decides on a vehicle frame and `sendVehicle` reads
  the number under another lock, so a frame for vehicle 0 can be written.

RakNet:

- An ordered frame beyond the reorder window, or a part refused at a limit of the
  assemblies, has been acknowledged before it is dropped; its channel waits for
  that index until the numbers come round, and half a number space later messages
  of it are misjudged. `Broken(m)` exempts these streams; `AcknowledgedIsAccounted`
  says that there is no other way to lose an acknowledged frame.
- Clearing the window of received numbers delivers a late retransmission of an
  unordered frame twice.
- A sequenced stream of which half a number space of unreliable frames in a row
  is lost takes the next for an old one; the model of the server excludes that.
- While nobody reads, `deliver` keeps the one goroutine, so nothing is sent,
  resent or acknowledged.
- A caller whose context is done gets an error though its frame is sent.

Instance manager:

- A Connect that found the instance before a Delete starts a connection of an
  instance that nobody can reach; `CurrentOnly` speaks of registered ones.
- A Teleport that a reconnect overtakes writes its position into the new
  connection's snapshot (`overtaken`).
- When the terminal event is lost (section 7, 2) the snapshot keeps the world and
  the dialogs of the connection that has ended, and a dialog of it may be answered
  on the next one (`unannounced`).
- `Update`'s failure path sets the status to error although another Connect may
  have succeeded meanwhile. The status stays "error" while a context retries.
- `ShowDialog` overwrites a dialog that is open.
- Not in the model: SetAFK may emit a movement event while the manager holds
  `instance.mu`, which the consumer of that event needs. `publish` emits after its
  unlock, so patches may be reordered; a full queue of a subscriber drops its
  oldest patch; and a `publishWorker` of a context that has ended may take the
  `dirty` token of the new one, whose change then waits for the next.

Plugin host:

- `discoverLocked` does not ask whether the host is closed: a directory found by a
  tick that waited for the mutex is started after Close.
- A plugin that was stopped is started when its files change, although README.md:98
  speaks of a running one, and by a caller's Restart.
- A manifest whose ID has changed is an error that leaves the process and its
  status as they are, for Restart, the watcher and the automatic restart alike.
- When `replaceProcess` fails to start a process no further attempt is scheduled
  (`PLUGINS.md:47`, `PLUGINS.md:242`), and the status is "stopped" with the text of an
  error. An unreadable manifest marks a running process "error" while it runs on.
- `Start` between the two halves of `finishWith` sees "running" and does nothing.

## 9. Not modelled

- Data without control: positions, skins, colours, text, objects, text draws.
- Geometry and timing in numbers: floats and clocks; a deadline has or has not
  passed. That leaves `Motion` with one slot under one mutex, whose events are
  emitted after the unlock (a hazard without a property, since no text promises
  their order).
- Encodings: round trips on bytes and bits, which the table tests cover; the
  offline handshake of RakNet is a sequence of such conversions with retries.
- The server query, statistics, instance logs, HTTP handlers, entry point, and the
  web pages: input and output, or state that no other part reads.
- `Store`: one function under one mutex writes, renames, then commits to memory;
  its property is that of rename(2).
- The state feed and `instance-sync.ts`: see the plan. What is known of the feed's
  order is in section 8.
- Of the manager: Create, the quick commands, the actions that only call the
  client, and what the snapshot holds beyond the dialogs and its owner.
- Of the plugin host: the outbound queue is open or closed, and its wake and space
  tokens, API calls of the plugin, subscriptions and logs are left out. One plugin
  is modelled, since the mutex is the only thing that two of them share.
- The composition of `EventDispatcher` with `InstanceManager` and `RakNetConn`
  with `RakNetReceiver`: each pair exceeds what TLC explores in minutes. The
  interfaces are stated instead: the manager's consumer gets what `EventFeed`
  allows and the loss of the terminal event (`EndUnannounced`), and the goroutine
  of `RakNetConn` gets any payloads.
- A crash of the client's process: it keeps nothing on disk about a connection.

## 10. Plan

1. A contract of a stream (what an ordered channel of RakNet promises), which
   `RakNetReceiver` implements and `RakNetConn` takes from its peer, so that the two
   halves meet in one abstract specification; the same between `EventFeed` and
   `InstanceManager`. Action properties from the invariants at hand: a number of
   a dialog, an epoch or a context never goes back.
2. `StateFeed` with `InstanceSync`: revisions, evictions, resync. Abstract
   specification: the browser's copy is some past snapshot of the server, and
   the current one when traffic settles.
3. The queue of a plugin process: no waiter sleeps beside free space for ever.
