# swift pilot client: a TLA+ verification project

swift is a pilot client for virtual air traffic networks: it connects a flight
simulator to an FSD server, shows the traffic the server reports, and lets the
pilot talk to controllers. It runs as a *core* process and one or more *GUI*
processes that may share the core over DBus. This directory holds TLA+ models of
the parts of it whose correctness depends on the order in which threads, processes
and the network act, the TLC configurations that check them, and proofs checked by
TLAPS.

Paths below are relative to `src/src/` unless they start with `docs/`.

## 1. Inventory

| component | state | operations | interacts with | hard behaviour | what makes it correct |
|---|---|---|---|---|---|
| value cache, `misc/valuecache.*` | per process one `CValueCache`; per `QObject` one `CValuePage` with copies, each with `m_pendingChanges`, `m_saved` | `createElement`, `setValue`, batches, `changeValues`, `changeValuesFromRemote`, `setValuesFromCache`, load, save, clear | pages by direct or queued signals; other processes by packets | optimistic copies in several threads and processes that change at the same time | copies converge, the pending count is exact, the saved flag can be trusted |
| settings sharing, `misc/settingscache.cpp`, `core/context/contextapplication*` | settings files, DBus links | `changeSettings`, `getAllSettings`, `synchronizeLocalSettings`, `saveSettings` | value caches of all processes | snapshots cross changes; writes fail in the middle | as above, across processes |
| FSD client, `core/fsd/fsdclient.*` | connection status, transport, timers, send queue, login time stamp, rehosting flag | `connectToServer`, `disconnectFromServer`, the transport's signals, one handler per line, timeouts | the network context by queued signals and posted calls; TCP or WebSocket; load balancing and token services over HTTP | late replies and signals meet a later login; a login may hang anywhere | off means off, nothing is left over, no login hangs |
| network context, `core/context/contextnetworkimpl.*` | reconnect timer and attempt counter, four flags, the last login | `connectToNetwork`, `disconnectFromNetwork`, `reconnectToNetwork`, handlers of the client's signals | FSD client, own aircraft, GUI | it decides from queued signals what the client's status read directly already contradicts; a nested event loop | reconnect when and only when it is wanted, within its budget |
| FSD traffic: positions, text, ATIS, offset times | buffers per callsign, `m_tokenBucket` | one handler per message | airspace monitor, GUI | rate limits; answers out of order | limits hold, no ATIS is mixed |
| airspace monitor and analyzer, `core/airspacemonitor.*`, `core/airspaceanalyzer.*` | aircraft in range, readiness for matching, FsInn packets that came too early, stations online; time stamps of the watchdog | positions, data, time outs, end of a session, timers that check and verify again | FSD client (its thread), network and simulator context; the analyzer in a thread of its own | three threads exchange queued signals that cross; answers in any order or never; timers of an earlier presence of a callsign | everybody in range is matched and watched, whoever goes silent is removed, nothing of a session is left |
| simulator context and drivers, `core/context/contextsimulatorimpl.cpp`, `core/simulator.cpp`, `plugins/simulator/fsxcommon/` | SimConnect objects, aircraft waiting to be added or added again, rendered and enabled flags | add, confirm, verify, remove, retry, change model, stop | airspace monitor, matcher, the simulator | one object at a time; the simulator confirms, refuses and drops asynchronously; put-off removals | the simulator shows what is in range, nothing else, and the flags agree |
| AFV voice client, `core/afv/` | tokens, sequence numbers, transceivers | connect, refresh, encrypt, decrypt | voice server over HTTP and UDP | duplicated, reordered, lost datagrams | no replayed datagram is played |
| data cache, `misc/datacache.*` | `.rev` with uuid and time stamps, a file per key, lock file; per process values, the revision it has seen, a queue of a worker | set, load, save, admit deferred values, `synchronize` | other processes through the directory | two processes write at once; crash in between; a thread that waits for a load | nobody misses a value, the file holds a last value, `synchronize` returns with what was announced |
| workers, `misc/worker.*`, `core/threadedreader.cpp` | thread, flags | start, quit, abandon | every background task | destruction races with the end of the task | ends exactly once |
| shared state, `misc/sharedstate/` | mutators, observers, hub | register, request, event | DBus | registration crosses events | observers catch up |
| messages, matcher, interpolation, discovery, GUI, plugins, xswiftbus | mostly conversions and pure functions | | | | |

`PROJECT.json` lists every component with its status, and the main hazards with the
line at which it bites and the properties that would catch it.

## 2. Plan

Done: `EchoSync`, `ValueCache`, `FsdClient`, `ContextNetwork`, `DataCache`,
`AirspaceMonitor`, `SimConnectObjects`; the proofs of `EchoSync`, of the value cache and
that it implements `EchoSync` at both levels, of the connection (`FsdClient` with
`ContextNetwork`), of the data cache, of the airspace monitor and of the FSX/P3D driver.

Next, in this order:

1. `ValueCache`: slots that change values themselves (the order in which main-thread
   pages see a change, `sender()` of a nested `insertValues`), and a core that goes away
   and comes back (`synchronizeLocalSettings` with changes pending).
2. `FsdClient`: the rehost protocol with the old socket's late signals, shutdown, more
   lines than one read takes; the token bucket.
3. `CryptoChannel`: the anti-replay window of AFV, as an algorithm against a reference
   definition; then the AFV connection.
4. `Worker`: start, quit and destruction.
5. The order of stored situations in the remote aircraft provider; the reductions of the
   aircraft matcher.

Abstract specifications: `EchoSync` for the cache (done); "a session that is on or
off" for `FsdClient`.

Theorems: the invariants of `EchoSync`, of the value cache, of the connection, of the data
cache, of the airspace monitor and of the driver, and the two refinements (done, section 5).

## 3. Modules and the code

`EchoSync` — what the value cache promises for one key. A hub orders all changes and
broadcasts each to every client, the originator too; a client counts its own changes
that have not come back (`pending`, the code's `m_pendingChanges`) and ignores foreign
ones while there is one. Clients in the hub's thread (`Direct`) are called at once, the
others have a queue each way. Written so that it stands for both levels at which the
code runs the protocol. What a client does with a value its validator refuses is left
open. `EchoClient` says what a step of the protocol can be for one client, without a
variable of its own; it serves the proofs at both levels.

`ValueCache` — the code itself, for several keys, pages and processes. Signals between
objects of one thread are function calls, so an operation of the code is a chain of
calls, and here a composition of operators on a state record: `WantToCache` →
`ChangeValues` → `EmitValuesChanged`, `ChangeSettings` → `ChangeValuesFromRemote` →
`SaveRequested`. Queued signals and DBus messages are FIFO queues, and the step that
takes one off is an action (`CacheTakes`, `PageTakes`, `CoreTakes`, `ProcTakes`).
`synchronizeLocalSettings` blocks the GUI's main thread in a DBus call, in three actions
(`BeginSync`, `GetAllSettings`, `EndSync`). Writing files can stop after any of them
(`ok` is the set of keys that got written). A value stands for the pair of value and
timestamp, so "unchanged" means both are equal, as in `setValue`. `blame` is a history
variable: why a saved flag may be wrong.

`FsdClient` — the connection life cycle. `inbox` holds what is posted to the client's
thread: calls, and the transport's signals that the code connects as queued. The
`connected` signal, timers and HTTP replies are actions of their own.
`disconnectFromServer` is the one handler in two steps, because other threads see the
status `Disconnecting`. Logins are numbered; the number stands for the time stamp in
`m_loginSince` and the single shot timer of `pendingTimeoutCheck`. Of the server's lines
only those that touch the connection are kept: identification (`$DI`), kill (`$!!`),
fatal errors (`$ER`) and rehost. The other side, the sockets and the HTTP services are
modelled from how the code uses them and marked external.

`ContextNetwork` — composes the client with the network context in the main thread:
`signals` are the client's queued signals, `status` is read directly, and
`connectToNetwork` waits in `canConnect`, a nested event loop, so the calls under way
are a stack (`frames`). `last` and `tries` are history variables: the last command
or kick, and the automatic logins since then.

`DataCache` — processes that share a directory. `rev`, `file` and `lock` are the disk;
`mem`, `revision` and `queue` belong to a process, and `job` is what its serializer is
doing between two steps that other threads or processes can see: take a task (the
baseline is the cache at that moment), take the lock file and read `.rev` and the newer
files (`LoadFromStore`, with `BeginUpdate` for `beginUpdate`), write `.rev`
(`SaveRevision`), write the file, apply what was read and finish (`FinishSave`,
`FinishLoad`). The constructor loads the pinned values in the main thread. A thread in
`CData::synchronize` asks, waits for its promise, asks again when a second has passed,
and does all of it twice, as the code does. A set is numbered, and the number is its time
stamp. A process may die at any step; its lock file goes with it. `hist`, `skipped` and
`misread` are history variables: the values set so far, and for each process the keys it
has passed over because `.rev` had a uuid it knew (`SameRevision`), and those it has read
from a file that did not hold the value announced in `.rev`.

`AirspaceMonitor` — the monitor in the main thread, the analyzer in its own, and the FSD
client that posts to both (`mainQueue`, `queue`). The monitor posts to the analyzer, the
analyzer posts time outs to the monitor. Whether the client is connected is read
directly. The monitor's functions call each other and are operators on a state record;
actions are the handlers of its events (`HandlePosition`, `HandleIcao`, `HandleFsInn`,
`HandleDelete`, `HandleTimeout`, `OnConnectionStatusChanged`), its timers (`CheckAgain`,
`VerifyAgain`, `ReInitAgain`, in a bag, since each lambda is a timer of its own) and the
command `.reinit`. Time passes in units: ages and remaining times are counted, and
`Tick` is possible only when no event is under way and no timer is due. `matched` is a
history variable.

`SimConnectObjects` — the FSX/P3D driver's book-keeping of objects: `objects`,
`addPending` and `addAgain` are `m_simConnectObjects`, `m_addPendingAircraft` and
`m_addAgainAircraftWhenRemoved`. `tasks` holds queued calls and single shot timers in the
order in which they were started; one may run before another only if its delay allows it
(`Due`), so that all orders the clock allows are explored without counting milliseconds.
`answers` is what the simulator has sent and `SimConnectProc` has not read; `inSim` is
what it really shows. `Prompt` scenarios assume that the simulator answers before the
driver's next timer. A function of the driver that is called for several callsigns in a
row is an operator on the set of them: a call only touches what belongs to its callsign.

FSX and the airspace monitor are not composed in one module: what the driver sees of
the monitor is aircraft that appear, leave and become ready for matching at any time
within the monitor's delays (`Appear`, `Leave`, `EmitReadyForMatching`).

In `FsdClient`/`ContextNetwork`, `DataCache`, `AirspaceMonitor` and `SimConnectObjects` a
behaviour starts in one of several scenarios (a record in the variable `scenario`, never
changed): the configuration, what others may do, and the bounds. One run so covers many
combinations, each as deep as is interesting.

`MC...` modules give the constants their values. The proofs are in modules of their own:
`EchoClient` and `EchoSyncProofs`; `ValueCacheSteps` and `ValueCacheProofs`;
`ContextNetworkProofs`; `DataCacheProofs`; `AirspaceMonitorProofs`;
`SimConnectObjectsProofs` (section 5).

## 4. Runs

| run | question | bounds |
|---|---|---|
| `echo` | is `m_pendingChanges` exact, and do quiet clients agree with the hub? Also checks the invariant of the proofs | 3 clients (one direct), 2 values, one refused by a client, queues of 2 |
| `cache_shared` | does the code implement `EchoSync` at both levels, do quiet pages show the core's value, does a page keep its own value while it is pending, does every change come back? | core and GUI, 3 pages, 1 key, a few changes, 1 snapshot |
| `cache_store` | the same with batches, loads and saves that fail in part; can a wrong saved flag be explained? | core, a main-thread and a queued page, 2 keys, 2 changes, batches nested twice |
| `datacache` | can each missed change be explained, does the file hold a last value, does `synchronize` return, and with what was announced? | 2 processes; 2 sets of 2 keys, one pinned; 1 crash or failed write with a restart; 1 waiter for a deferred value |
| `net` | is a disconnected client quiet and off the network, is the login on its way, does a kick stop the reconnect, is the budget kept? Does a login end, also when load balancer or token service never answer, and does a connection closed by the server lead to another login? | TCP: 2 commands, 2 faults, 2 attempts, 3 logins, nested calls, and 3 commands with 1 fault; WebSocket, with and without the challenge: 2 commands, 1 fault, 2 logins; connections that are closed or break: 1 command, 2 faults, 2 attempts, 4 logins; services: rehosts, network errors, 2 faults |
| `airspace` | is every aircraft matched, watched and, when silent, removed; does readiness of an earlier presence suppress nothing; is nothing left after a session? | 1 callsign, 2 events (data, delete, crash, disconnect, `.reinit`) and a position per unit of time, 2 events under way to each thread |
| `sim` | at most one object is pending; no entry outlives its object, no object its entry; the rendered flag agrees. Does an aircraft that left leave the simulator, and is one that stays shown? | 2 aircraft, 2 models, up to 3 commands and 4 faults of the simulator, so up to all thresholds |
| `net_user_stop`, `net_break`, `datacache_repeat`, `airspace_station`, `sim_drop` | findings | |

Why the bounds are enough. The hazards of the cache are crossings: two writers and an
observer, in one process and across two, with a third change that crosses the echo of
the first; three changes give all of these. The hazards of the connection are events of
one login that meet the next one: two logins suffice, a third lets the second be
automatic. In the data cache two processes and two sets let a load or a save of one meet
each step of the other, and a third party adds nothing the disk does not already show.
The airspace monitor never relates two callsigns, so one is enough; two events besides
positions give a crossing and what follows it, and the delays keep the order they have
in the code (2 s, 6 s, 20 s, 24 s; 7.5 s, 15 s, 50 s). The driver's objects wait for each
other, so there are two aircraft, and the thresholds of its retries are reached. The runs
`net` and `sim` check safety and liveness together, with the bounds that liveness allows:
all their invariants are proved for every bound (section 5). Every mutant listed in `PROJECT.json` is caught within these bounds.

Deadlock is not checked: commands, faults and changes are bounded, and a program that
nobody asks for anything may stop.

### What the findings show

* `net_user_stop`: a `Connected` still queued when the user disconnects clears the
  user's request; the disconnect then counts as unexpected and the timer starts.
* `net_break`: `handleSocketError` reacts to `RemoteHostClosedError` only (`fsdclient.cpp`
  1930). After any other error of an established connection the client stays `Connected`
  on a dead socket, nothing reports an unexpected disconnect, and the automatic reconnect
  that the operator guide promises "after an unexpected FSD socket disconnect" (187) does
  not begin.
* `datacache_repeat`: every revision a process writes has the same uuid, since
  `CIdentifier().toUuid()` is one per process, and `beginUpdate` takes a `.rev` with a
  uuid it knows for unchanged. A process that has loaded one value of another does not
  load the next ones, until somebody else writes.
* `airspace_station`: an ATC station's stamp is set by the position itself and deleted by
  the main thread's report of the removal. When a position crosses a time out the order
  is set, delete, and the station that the main thread has just added is watched by
  nobody; it stays online for ever when its client crashes. Aircraft do not have this
  problem, because the monitor touches them again when it stores the position.
* `sim_drop`: when the simulator drops an object on its own, the driver tries twice more.
  The branch for the third time (`simulatorfsxcommon.cpp` 1408), whose message says that the
  aircraft "will be disabled", repeats the test of the branch before it and is not reached:
  the aircraft is neither tried again nor disabled, and the user sees it enabled in the
  list and not in the simulator.

Seen while modelling, part of the models, without a run of their own:

* `setAndSave` marks a value saved before the file is written, and a failed write is only
  logged, so `getAllUnsavedKeys` does not name the key (`valuecache.cpp` 319;
  `SavedFlagExplained` names this as one of two reasons).
* With `append_attempt_to_callsign` the callsign with the attempt's number is overwritten
  by the own aircraft's before it is given to the client (`contextnetworkimpl.cpp` 311,
  `simulatedaircraft.cpp` 113; the operator guide, line 209, says otherwise).
* `connectToServer` returns without a word while the WebSocket of the last login is in its
  closing handshake (`fsdclient.cpp` 298, 150), although the status is `Disconnected`.
* The baseline of a save is the cache when the task runs (`datacache.cpp` 206), although
  `datacache.h` 216 says "taken when the load is queued". With two sets before the first
  save, that save announces the second time stamp over the first value; a process that
  loads in between keeps the first value under the second time stamp for good, since the
  second save brings nothing newer (`MissesExplained` names this as one of two ways).
* The exception that brings `m_receiveExceptionCount` to `IgnoreReceiveExceptions` (10) and
  all later ones are not handled, a refused object among them: its aircraft then stays
  pending, and as only one is added at a time no other is added again.
* `handleDeletePilot` and `handleDeleteATC` pass on the CID of the message, and the
  monitor takes it for a callsign: a delete removes nothing (`fsdclient.cpp` 1214, 1224;
  a comment in `airspaceanalyzer.cpp` 53 notes the same). Aircraft and stations go when
  the watchdog times them out.
* The driver asserts that an object it confirms was not confirmed before
  (`simulatorfsxcommon.cpp` 1104: "Already confirmed, this should be the only place"), but
  the timers that verify belong to callsigns: an aircraft that leaves and is back within a
  second is confirmed by the old timer and again by its own. The assertion fails in many
  scenarios of the model, without any fault of the simulator, so no property states it.
* The test of the rendered flag on re-adding the same model (`simulatorfsxcommon.cpp`
  1684) asks for objects that are pending, where it means those that are not.

### Where the properties stop, and why

Some properties are stated for a part of the configurations, because the code does not
have them in the others. Where a document claims that it does, there is a finding; these
are the others:

* `DisconnectedIsQuiet` and `OffTheNetwork`: not with load balancing (the answer of the
  service that arrives after a disconnect opens the socket and starts the timers,
  `fsdclient.cpp` 1746), not with rehosts (a rehost that fails after the old connection
  has gone leaves it open, 1711; every later login then returns silently at 298).
  `OffTheNetwork` says that over TCP the transport is not open, which is what
  `connectToServer` asks; a WebSocket may still be closing, and a login is then turned
  away (298).
* `KickStopsReconnect`, `BudgetHolds` and `LoginOnItsWay`: for `Simple` servers, that is
  TCP, the classic login and a fixed address. With tokens or WebSocket a late answer or
  `$DI` sets the status to `Connected` after the kick, and the login is queued only when
  the token is there.
* `BudgetHolds` further: a token or a rehost that comes late can have two reconnects under
  way at once, and the one that finds the budget used up sets the count to zero for the
  other. And for one command only; an exhausted budget does not stop a timer that an
  earlier call has started (`contextnetworkimpl.cpp` 750). It counts from one
  `Connected` to the next, and the client says `Connected` when it has queued its login:
  a server that refuses every login is asked for ever.
* `DropLeadsToReconnect`: connections closed by the server (`RemoteHostClosedError`), see
  `net_break`, and one command: a user who connects while the connection is closing is
  turned away, and this cancels the reconnect.
* `MissesExplained`: a time stamp newer than that in `.rev`, which a slower writer puts
  back, is not counted as a missed change.
* `SynchronizeReturns`: about promises. `m_mutex` is not modelled, so the order in which
  `synchronize` takes it and the lock file (`datacache.cpp` 578) is not checked.
* `FileHoldsALastSet`, `SynchronizeLoads`: without crashes and failed writes; `.rev` is
  written before the files, so after a crash in between the old value passes for new.
* `SynchronizeLoads` further: for a process that waits for what one other process sets, and
  that one sets this key only. Of several writers the slower one puts `.rev` back to its
  older time stamp, and the save of one key announces the time stamps of all keys in
  memory (`datacache.cpp` 267) before the files of the others are written.
* `NoStaleReadiness`, `GetsMatched`: not for aircraft that go out of range.
  `handleMaxRange` removes them but keeps their readiness (`airspacemonitor.cpp` 1156), so
  that one that is back within 20 s is not matched.
* `Watched`, `LeavesNothing`, `CrashedIsRemoved`: not with `.reinit`, whose timers add
  aircraft whether or not they are still there (1129).
* `NoGhosts`, `LeavesSimulator`: the simulator answers promptly and the network is not
  left; `clearAllRemoteAircraftData` (2652) forgets objects whose removal was put off.
* `ComesToSimulator`: aircraft that stay, with three exceptions. One that is dropped a
  third time is forgotten; the formula names it, and `sim_drop` is about it. With refused
  objects only, there are fewer than `IgnoreReceiveExceptions` (3 in the model), as the one
  at the limit is ignored and blocks the others. With both kinds of faults there is one:
  with two, the retry at 1205 can put an aircraft that has been added meanwhile into the
  waiting list, where, as the oldest, it keeps out all others. The last two are `FewFaults`.

### Fairness

`ValueCache`: queued signals and DBus messages are delivered (weak fairness; strong for
those of a GUI's main thread, whose event loop a blocking call suspends now and then
while posted events keep their place). Nobody has to change, save or load anything.

`ContextNetwork`: both event loops go on, timers fire, and `canConnect` ends after its
5 s. Nothing is assumed of the server, the network or the HTTP services.

`DataCache`: the serializers and a waiting thread go on and watchers report changes.
Nobody has to set, start or ask.

`AirspaceMonitor`: both event loops go on, due timers fire, time passes. Nothing is
assumed of the server and of other clients.

`SimConnectObjects`: queued calls and timers run and the simulator answers in the end.

Two assumptions on time are guards of `ContextNetwork`: `pendingTimeoutCheck` runs 9.4 s after its login, so
what was posted meanwhile has been handled (neither thread stalls that long), and the
reconnect timer, whose delay is seconds, fires after the client's thread is done with the
error that started it. Qt delivers posted events before it fires a timer.
One is a guard of `SimConnectObjects`: aircraft of a new session appear (`Appear`) after
the calls queued at the end of the old one have run, as a login takes seconds and a queued
call does not.

## 5. Proofs

Checked by TLAPS for every value of the constants, so for any number of clients,
processes, keys, callsigns, logins, faults and events, where a run looks at a few. Each
safety invariant follows from an inductive one: it holds initially, every action keeps it,
and it says more than what is to be shown. A proof has one lemma per action (or per
function of the code that several actions call), and the temporal theorem combines them.

| module | theorems | from |
|---|---|---|
| `EchoSyncProofs` | `EchoInvariant`, `EchoTypeCorrect`, `EchoPendingExact`, `EchoConvergence` | `EchoAssumption` |
| `EchoClient` | lemmas about one client, `StepKeepsRight` above all | nothing |
| `ValueCacheSteps` | lemmas about what each operation does to one key | `CacheAssumption` |
| `ValueCacheProofs` | `CacheInvHolds`, `TypesHold`, `PagesRefine`, `ProcsRefine`, `EndToEndHolds`, `ReadYourWritesHolds`, `SavedFlagHolds` | the same |
| `ContextNetworkProofs` | `TypeCorrect`, `Quiet`, `LetsGo`, `LoginArrives`, `KickObeyed`, `BudgetKept` | `ClientAssumption` |
| `DataCacheProofs` | `CacheTypeCorrect`, `NothingMissed`, `LastSetKept` | `DataCacheAssumption` |
| `AirspaceMonitorProofs` | `AirspaceTypeCorrect`, `ReadinessFresh`, `EveryoneWatched`, `NothingLeft` | `AirspaceAssumption` |
| `SimConnectObjectsProofs` | `ObjectsInvHolds`, `ObjectsTyped`, `OnePendingAddedHolds`, `NoPhantomHolds`, `NoGhostsHolds`, `RenderedAgreesHolds` | `SimConnectAssumption` |

The assumptions say which scenarios there are: any combination of configuration, events
and bounds of the right kind. Beyond that `CacheAssumption` says that the core is one of the
processes, that `Invalid` is no value, that a validator accepts the default
(`createElement` asserts it, `valuecache.cpp` 632) and that `Nobody` is nobody; `DataCacheAssumption` asks for one process and
that `Nil` is nothing else, and `AirspaceAssumption` for finitely many callsigns and for
delays that are positive and ordered as in the code. `SimConnectAssumption` asks for finitely
many callsigns, for a model, and that the empty model string is none. The configurations in which the code
does not have a property are excluded in the property itself (section 4), never by an
assumption.

### The cache protocol

`EchoPendingExact`: `m_pendingChanges` equals the number of own changes under way, so
neither assertion in the code can fail and no client stays deaf with nothing in flight.
`EchoConvergence`: an attached client with nothing in flight agrees with the hub.

`Convergence` is not inductive: it speaks of empty queues only, and says
nothing of the step that empties one. `IInv` adds what the newest entry of each queue
leads to: the last change on the way up is the client's own value (`UpLeadsToVal`), the
last broadcast on the way down carries the hub's value (`DownLeadsToHub`), and when
nothing is on its way up, the last echo is the client's own value (`LastEchoIsVal`). When
the last broadcast is taken, either it is an echo, whose value is the client's and the
hub's; or it is foreign, and `PendingExact` says that no own change is pending, so it is
adopted.

`IInv` is a conjunction over clients, and what it says of one of them (`Right`) and what a
step of the protocol can be to it (`ClientStep`: a change of its own, a broadcast by call
or by queue, the receipt of one, attaching, or nothing) needs no variable. `EchoClient`
proves once that every such step keeps `Right` (`StepKeepsRight`); `OwnAppend` and
`OwnTail` say how the set of own echoes, and with it its cardinality, moves with the queue.
`NextToClient` shows that every action of `EchoSync` is such a step for every client.

### The value cache

A step of `ValueCache` is a chain of slots that handles packets of several keys; in one
process it may be a change by a page, in another nothing. `ValueCacheSteps` shows what it
is for one key, in four parts: a queue of packets as a queue of the changes of one key
(`UpOf`, `DownOf`: adding, taking and clearing commute with it); what each slot does to the
state; that the wiring stands (direct pages have empty queues, pages are told only of
elements they have); and that each chain is a `ClientStep` for every page and for every
process.

`CacheInvHolds`, with `CacheInv`: the wiring (`WiringInv`) and `Right` for every page
towards its cache and for every cache towards the core's (`AllRight`). Two parts of it are
less obvious. An open batch only holds keys whose elements exist (`BatchOK`), or ending it
would send a change nobody counts. An answered snapshot equals what the core has, but for
keys whose changes are already on their way to that process (`SnapOK`): only so is
`EndSync`, which applies the snapshot before the changes that have been posted meanwhile,
an `Attach` of the abstract hub.

From `CacheInv` follow `TypesHold` (counters are natural numbers, as the assertions at
`valuecache.cpp` 305 and 752 want), `EndToEndHolds` (quiet pages agree with their cache,
and that with the core's) and `ReadYourWritesHolds` (of all steps only one's own can change
a value with a change pending).

`PagesRefine` and `ProcsRefine`: the wiring also makes every step of the cache a step of
`EchoSync` for each key, or a stutter, under the mapping that the runs check
(`PageLevel(r, k)`, `ProcLevel(k)`; the abstract queue has no bound there). `PageBridge`
and `ProcBridge` go through the actions: a change by a queued page is a `Change`, by a
direct page a `ChangeDirect`, a load, a clear or a packet of another process a `ChangeHub`,
and so on.

`SavedFlagHolds` needs its own induction, over the core's flags, the files and `blame`,
along the slots that save (`SaveRequested`) and those that clear or set flags.

### The connection

`Quiet` and `LetsGo`, with one invariant, `QuietInv`. What they lack is the step before:
`disconnectFromServer` has stopped the timers when other threads see `Disconnecting`, and
only a rehost that fails sets the status to `Disconnected` on another way. At a fixed address no lookup and no rehost
is awaited that could open a socket or start a timer afterwards.

`LoginArrives`, with `LoginInv`: a socket that is opening or open has the send timer
running, so a login that is queued when the socket reports connected is sent by it.

`KickObeyed`, an action property, with `KickInv`. The kick travels behind status changes
and in front of others, so the invariant describes the queue: every signal behind the last
kick tells of an end (`AllCalm`), and one that tells of the end of a login follows the kick
directly or finds `kicked` set; the client itself is over and nobody has posted another
login (`Over`). That the line with the kick does not overtake a login already posted
needs `LinesAreOld`: such a line belongs to a connection that is closed, and is dropped.

`BudgetKept`, with `BudgetInv`. The count of attempts is set to zero when the budget is
used up, so a second reconnect under way at that moment would be counted anew. The
invariant says there is none: a reconnect is in the timer, in `canConnect`, in a posted
call, in a login, in the signal of its loss, or in the flag that notes it, in one of these
only (`Alone`) and only once (`Unique`); `SockInv` rules out that an old socket's error ends
a later login, and `Count` says that while one is under way `m_reconnectAttempt` is at
least the number of automatic logins.

### The data cache

`CacheTypeCorrect` also relates the steps of a serializer to the lock file (`LocksOK`,
`LockedOK`): whoever is between reading and writing holds it.

`NothingMissed` (`MissesExplained`) has two halves. `BehindInv` is about time stamps: every running process is going to
look at `.rev`, because a watcher's signal, a task or a step is due, or it has looked at
this very `.rev` and each newer value is being loaded or was skipped for its uuid
(`Informed`). For the load to bring what was announced, its baseline must not be newer than
memory (`Fresher`), what it has read must not be older than `.rev`, which the lock file
guarantees (`Newest`), and whoever writes `.rev` leaves every process with something due
(`Announced`). `ReadInv` is about values: what a process holds, or is about to apply, is
the value that was set with its time stamp, or the key is in `misread`. Together: a change
is missed because of a uuid (`datacache_repeat`), or because the file was read before the
value that `.rev` announced was in it, and on no other way.

`LastSetKept` (`FileHoldsALastSet`), with `FileInv`: of the saves of a key that a process
has posted the last one carries the value it has set last (`Queued`, `Running`), and while
nothing fails a file holds such a value or a save of it is still to come (`Stored`). A load
never writes a file, and saves of one process are written in the order of its sets.

### The airspace monitor

The monitor's functions call each other, so the proof first shows of each that it is a
`Good` step between two states of the monitor, and good steps compose; then that each
action, which is such a composition with something taken from a queue, keeps `Inv`.

`ReadinessFresh`, with `FreshInv`: "sent" in a readiness means matched since the aircraft
was added, also for callsigns that are not in range, whose entry the next aircraft finds.
While `.reinit` has removed the aircraft its timer is due instead.

`EveryoneWatched`, with `WatchInv`: the analyzer's queue decides, not its stamps. Of each
aircraft in range the last word in that queue is a touch, or there is none and a stamp
exists, or its time out or the end of the session is on its way to the monitor. A time out
that crosses a position is answered by the removal and a `forget`; a position after it adds
the aircraft again and touches it again, behind that `forget`. This is what stations lack
(`airspace_station`).

`NothingLeft`, with `BlankInv`: once disconnected, the monitor is blank or the signal that
clears it is in its queue; handlers and timers that run after that add nothing, because
they ask the client.

### The FSX/P3D driver

None of the five invariants is inductive. `Inv` says of the driver's state (`Now`) that it
is `Fine`, which has three parts.

* `Sound`: requests are numbered as they are made and answered in that order (`Numbered`,
  `InOrder`), an entry gets its id before it is confirmed (`Stages`), at most one is being
  added (`OneAdded`), and the answers tell the truth (`Truthful`): what is assigned is in the
  simulator or its removal will be told later, what failed or was removed is not there.
  The order is what keeps ids and late answers apart: whatever request is still to be
  answered is newer than every entry that has an id, so a refusal, however late, never drops
  an entry that has its id. `OnePendingAddedHolds` and `NoPhantomHolds` follow.
* `Rendering`: an entry that should not be there, or that is confirmed but not rendered
  although in range, has a removal on its way: queued, put off, or the removal of all
  (`ToBeRemoved`). So an aircraft that leaves and returns before its removal ran is shown
  and not rendered only until then. With nothing under way this is `RenderedAgreesHolds`.
* With prompt answers and no disconnect (`Calm`), `Tracked` and `Current`: each object in the
  simulator has its entry, which has its id or will get it with an answer, and which is
  verified before it can count as outdated. `NoGhostsHolds` follows.

The functions of the driver call each other, so `Fine` is a predicate on a state record,
the aircraft in range and the tasks being run, and each function has a lemma that says that
it keeps it so (`PhysicallyRemoveFine`, `PhysicallyAddFine`, `VerifyFine`, `RemoveAllFine`,
...). A task that fires is taken out of `tasks` but stays a duty until its function has run
(`Duties`, `TakenFine`); of the tasks only the set matters, not the order. The actions then
follow from these lemmas (`TimersInv`, `AnswersInv`, `SimulatorInv`, `CommandsInv`,
`DisconnectedInv`).

### Only model-checked

* Liveness, everywhere: temporal reasoning with fairness is outside what TLAPS proves.
* `SynchronizeLoads`: its argument follows one waiter through two rounds of asking and
  waiting, and is left to TLC.

## 6. What is not modelled

Conversions between text and messages, JSON and log texts; FSD traffic that does not
touch the connection or the set of aircraft in range; audio and interpolation (numbers);
GUI layout; the simulators' SDKs; HTTP and DBus themselves. Slots of cached values are
taken not to change values themselves. Crashes of the core and shutdown are planned, see
section 2.

Of the data cache: the page queue, times to live, session values, `renewTimestamp`, a
lock file that cannot be taken, two sets in one millisecond. Of the airspace monitor:
clients, flight plans, ATIS, snapshots, aircraft parts, the matcher's result, interim and
visual positions, the switch of the watchdog. Of the driver: terrain probes, positions,
weather, request ids that wrap around, SimConnect calls that fail at once
(`simulatorfsxcommon.cpp` 1096, 1825). The drivers for X-Plane and FlightGear, which
have no asynchronous confirmation, are not modelled.

The models cover what threads, processes and the network can get wrong in the parts
above. Most of the repository is value classes, widgets and readers without such
behaviour.
