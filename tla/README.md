# A verification development for B.O.L.T

B.O.L.T is a proxy client: a Flutter application (`lib/`), a Go core
(`core/*.go`) that embeds the mihomo engine, a Rust IPC library for the desktop
(`plugins/rust_api`), Kotlin services for Android (`android/`), and a Rust
helper service for Windows (`helper/`). The vendored engine
(`core/Clash.Meta`, third-party and nine tenths of the code in the repository),
generated code (`generated/`, `frb_generated`, `l10n`) and build tooling are
outside this development; the engine appears only through the calls
`core/*.go` makes, and its observable, on which the log requests block.

This directory holds TLA+ modules translated from that code, TLC
configurations, and TLAPS proofs. `PROJECT.json` maps every definition to the
source lines it stands for, lists the hazards of the code with the properties
that cover them, and gives for every property a mutant: a plausible bug in one
mapped definition that makes TLC report the property violated.

Sections: 1 inventory, 2 plan, 3 the modules and the code, 4 runs and bounds,
5 disagreements found, 6 fairness, 7 proofs, 8 what is only model-checked,
9 what is not modelled.

## 1. Inventory

| Component | State it keeps | Operations | Interacts with | Hard behaviours | What makes it correct |
|---|---|---|---|---|---|
| IPC server, `plugins/rust_api/rust/src/api/ipc.rs` | RUNNING, CONNECTED, LAST_ERROR, GENERATION, SHUTDOWN_FD, STATE{tx, handle}; one io thread per restart, one writer thread per client | restart, stop, send, status | transport.dart (frames over a stream), core process (socket) | threads outliving a restart, join under a lock, descriptor reuse, writer blocked on its channel | one serving thread, statics describe the served client, a stop or restart ends, a lost client is noticed |
| IPC transport and CoreService, `lib/core/transport.dart`, `lib/core/service.dart`, `lib/common/future.dart` | connection completer, shutdown completer, map of pending requests, `_process` | start, shutdown, destroy, invoke, handleResult, frame handlers | IPC server, core process, CoreManager (crash events) | completer captured before it is replaced, late DISCONNECTED of a killed process, timeouts racing late replies | every request completes exactly once, no crash event for a requested shutdown is left pending, shutdown ends |
| Core action dispatch and hub, `core/action.go`, `core/hub.go`, `core/common.go` | isInit, isRunning, currentConfig, externalProviders, logSubscriber, listeners, runLock | init, setup, update config, start/stop listener, change proxy, get proxies, quick setup, provider updates, logs, delete file, ... (`shutdown` exists, no client sends it) | CoreService / CoreLib (requests, replies), engine | each request is its own goroutine; flags read or written outside runLock; panics recovered into replies; quickSetup sets isRunning outside the lock | one reply per request, configuration changes are serialised, listeners follow isRunning |
| TUN handler, `core/lib.go`, `core/tun` | tunHandler, tunLock, listener, callback, semaphore of 4 | startTUN, stopTun, protect, resolveProcess | VpnService (JNI callbacks), engine's dialer hooks | callbacks racing a close, runLock held while waiting for the semaphore, concurrent starts | callback released once and never used after, a closed listener is not used, start/stop end |
| Setup/start-stop logic, `SetupAction` and `CoreAction` in `lib/providers/action.dart`, `lib/state.dart` | startTime, update timer, _isTransitioning, core status, lastConfigMd5 | updateStatus, handleStop, initStatus, applyProfile, restartCore, tryStartCore | CoreController, VpnManager, TileManager, CoreManager.onCrash | every `await` is an interleaving point; guarded and unguarded callers; debounced work | running state agrees with startTime and timer, at most one timer, a crash is recovered |
| Proxy selection, `ProxiesAction` | pending selection, in-flight flag, groups | changeProxyDebounce, changeProxy, updateGroups | core handleChangeProxy | one pending slot for all groups, failure of one call | last selection per group wins |
| Profiles, `ProfilesAction`, `lib/database` | profile rows, key rows, files | add, update, delete, keys, auto update | network, database, file task isolate | read-modify-write over awaits, delete racing update | a deleted profile stays deleted, no edit is lost |
| Android run state, `State.kt`, `Service.kt`, `ServicePlugin.kt`, `TileService.kt`, `BroadcastReceiver.kt` | runState flow START/PENDING/STOP, runLock, runTime | toggle, start, stop, sync | remote service (AIDL), Flutter engine | two processes, permission callback after the coroutine ended, service death | the shown state converges to the service's state |
| Android services, `RemoteService.kt`, `VpnService.kt`, `CommonService.kt`, `common/Service.kt`, `modules/*` | delegate binding, intent, modules, wifi/network state | start, stop, bind, useService, module install/uninstall | Core.kt (JNI), system callbacks | binding timeout, disconnects, cancel of a module load racing the next load | one live binding, modules installed iff the service runs |
| Android core library bridge, `lib/core/lib.dart`, `lib/plugins/service.dart`, `android/core`, `core/bride.*` | connected completer, event listener, callbacks | preload, invoke, start/stop listener, event listener | Go library, remote service | callback lifetime across JNI | each callback object released once |
| Windows helper, `helper/src` | PROCESS, LOGS | start, stop, logs, ping | CoreService over HTTP | start = stop + spawn not under one lock | at most one core process |
| Ordering keys, `lib/common/indexing.dart`, used by `lib/database/rules.dart`, `groups.dart` | order keys | generateKeyBetween, generateNKeysBetween | database | string arithmetic at boundaries | key strictly between its neighbours |
| Utilities: `fixed.dart`, `snowflake.dart`, `function.dart`, `iterable.dart`, `lock.dart`, AIDL chunking in `common/Ext.kt` | small | add, id, debounce, throttle, retry, chunk | everywhere | limits, clock, cancelled timers | bounded, unique, no lost trailing call |
| Providers and widgets state, `lib/providers/{app,config,state,database}.dart`, `lib/manager/*` | UI state | setters, listeners | all of the above | ordering of listeners | derived |
| UI, `lib/screens`, `lib/widgets`; platform runners; build tools; vendored engine | - | - | - | presentation, generated or third-party | not modelled |

## 2. Plan

The order was: what is concurrent and central first, one module per component,
parameters as CONSTANTS with named assumptions, no RECURSIVE operator in a
module that theorems are about. It has been carried out as follows.

1. `IpcServer` with `IpcServerProofs`: the threads of the desktop IPC server.
2. `TunHandler` with `TunHandlerProofs`: the Android TUN handler, for any
   callers, dialers and requests.
3. `CoreHub` with `CoreHubProofs`: the request goroutines of the Go core, shown
   to implement `CoreState`, the core that handles a request at once.
4. `CoreService` with `CoreServiceProofs`: the core process, its connection and
   the requests sent to it, as the Dart side runs them.
5. `ChangeProxy`: the coalescing of proxy selections, shown to implement
   `LatestCall`; `StartStop`: the switch of the application; both with
   `ControlProofs`.
6. `ProfileStore` with `DataProofs`: the profiles over an optimistic list, a
   database isolate and downloads.
7. `AndroidRun` and `ModuleLoader`: the run state of the Android application,
   its service process, the modules of the service.
8. `LogStream`: the log requests of the core over the engine's observable.
9. `HelperService` (with 7 in `PlatformProofs`) and `Snowflake` (with 6 in
   `DataProofs`); `Indexing` as pure operators and `RuleList`, the list of rules
   that uses them, with `RuleListProofs`.

`MCControl` and `MCData` put the small components into one instance each: they
share no variable, and a behaviour is one of a single component.

Left, in this order: the composition of `TunHandler` with `CoreHub` (the
unlocked reads of isRunning that choose the call after startTUN and stopTun) and
of `CoreService` with `IpcServer` (an abstract session that both sides refine);
the key edits of profiles; ProxyGroups next to the rules.

## 3. The modules and the code

| Module | Code | Role |
|---|---|---|
| `IpcServer`, `MCIpcServer`, `IpcServerProofs` | `plugins/rust_api/rust/src/api/ipc.rs` | component, instance, proofs |
| `TunHandler`, `MCTunHandler`, `TunHandlerProofs` | `core/lib.go` | component, instance, proofs |
| `CoreService`, `MCCoreService`, `CoreServiceProofs` | `lib/core/{service,transport,interface}.dart`, `connectCore`/`restartCore` in `lib/providers/action.dart`, `lib/manager/core_manager.dart` | component, instance, proofs |
| `CoreState` | the promise of `core/hub.go` and `core/common.go` | abstract specification |
| `CoreHub`, `MCCoreHub`, `CoreHubProofs` | `core/action.go`, `core/hub.go`, `core/common.go`, `quickSetup` in `core/lib.go` | component, instance, proofs |
| `ChangeProxy`, `ControlProofs` | ProxiesAction and ProfilesAction in `lib/providers/action.dart`, handleChangeProxy and patchSelectGroup in `core/` | component, proofs |
| `LatestCall` | the promise of changeProxyDebounce | abstract specification |
| `StartStop`, `ControlProofs` | SetupAction and CoreAction in `lib/providers/action.dart`, `lib/manager/{app,vpn,tile}_manager.dart` | component, proofs |
| `AndroidRun`, `PlatformProofs` | `State.kt`, `Service.kt`, `ServicePlugin.kt`, `AppPlugin.kt`, `BroadcastReceiver.kt`, `RemoteService.kt` | component, proofs |
| `ModuleLoader`, `PlatformProofs` | `modules/ModuleLoader.kt` | component, proofs |
| `LogStream` | handleStartLog and handleStopLog in `core/hub.go`, `common/observable` of the engine | component |
| `HelperService`, `PlatformProofs` | `helper/src/service/hub.rs` | component, proofs |
| `ProfileStore`, `DataProofs` | Profiles in `lib/providers/database.dart`, ProfilesAction in `lib/providers/action.dart` | component, proofs |
| `Indexing`, `RuleList`, `RuleListProofs` | `lib/common/indexing.dart`; GlobalRules in `lib/providers/database.dart`, `lib/database/rules.dart` | pure operators, component that uses them, proofs |
| `Snowflake`, `DataProofs` | `lib/common/snowflake.dart` | component, proofs |
| `MCControl`, `MCData` | - | instances of the eleven components above |

### IpcServer

*State.* The statics RUNNING, CONNECTED, LAST_ERROR, GENERATION and SHUTDOWN_FD
under their names; STATE as `tx`, `handle` and `lock` (true while stop holds it
over a join); the control thread (`ctl`, `joinee`); one io_loop per generation
(`io`, `sess`); Dart's stream of each generation (`sink`, `told`); the socket
file (`sockFile`, the generation that bound it); per client its own end
(`peer`, `at`), the server's descriptor (`shut`, `fdOpen`) and its writer thread
(`wr`, `writer`, `writeErr`, `queue`); the sending thread.

*Actions.* `Restart*` and `Stop*` are the statements of restart_ipc_server and
stop_ipc_server in order, `Io*`, `save_shutdown_fd` and `clear_shutdown_fd`
those of io_loop, `Writer*` those of the writer closure, `Send*` those of
send_ipc_message, `PeerConnects`, `PeerCloses` and `SinkCloses` the core process
and Dart. A lock that is taken and released between two other steps is a guard
`~lock`; the one that is kept over a join is a variable.

*Choices.* Control calls are sequential, because transport.dart awaits each of
them. Two stores that no other thread reads together are one step. The bind may
fail at any time; a set_nonblocking that fails drops the client. Names of
sockets, frames and payloads are left out, and so is what the listener of the
interprocess crate does with its own name when it is dropped. With
`Unix = FALSE` the module is the Windows build (no descriptor, no socket file).

### TunHandler

*State.* `tunLock`, `runLock` (their holders), `tunHandler` (the number of the
current handler, which also stands for its callback object), per handler
`callback`, `listener` and the `queue` of its weighted semaphore, `hook` (the
two dialer hooks are set and removed together), `isRunning`; per process `pc` and
`th`.

*Actions.* startTUN and stopTun from the call to the return: the stop under
tunLock with the whole semaphore (`StopLock`, `CloseAcquire`, `CloseClear`,
`StopUnlock`), the start under tunLock, runLock and the semaphore (`StartLock`
to `StartUnlock`), then the read of isRunning and the call it chooses (`After`,
`AfterLocked`). The hook is `Dial`, `HookCalls`, `AcquireOne`, `HandleProtect`,
`Protect`; handleResolveProcess has the same steps. `RequestLock` and
`RequestUnlock` are core requests that hold runLock and may dial while they do.
With a descriptor of 0 (`StartLockNoFd`) no handler is made; the callback given
to that call is not accounted for.

*External.* golang.org/x/sync/semaphore: waiters are served first in, first out,
a large one holds off the small ones behind it. The module states that order.

### CoreService

*State.* `status` (coreStatusProvider), `process`, the two kinds of completers
(the number of the last one and the set of those completed: `completer`,
`completed`, `shutter`, `shut`), crash events under way, per call of connectCore
or restartCore its step, the completer it awaits and the process it is
starting; the core processes (`core`, `killed`); the io thread seen from here
(`backlog`, `serving`, `frames`); per request its place in the gate or in
_callbackCompleterMap (`inv`, `gate`) and the core that has it (`to`).

*Actions.* The code between two awaits is one action. Dart drains its
microtasks before the next event, so events (frames, timers, new calls) need
`~Pending`. `Overlap` says whether a restart may be asked for while another call
is under way, `Faults` which faults may occur: a spawn that throws, a core that
cannot dial, or dies before or while the status says connected.

*Choices.* What restartCore does after the connection (initCore, applyProfile)
is requests of their own. When a call hangs, `_isTransitioning` of the caller
stays true; the caller is not part of the module.

A restart while one is under way happens in the code (the boot and
updateStatus(true) through tryStartCore, _requestAdmin, a crash): restartCore has
no guard. The invariants are therefore claimed, and proved, for every overlap and
every fault, and name what the code does not prevent. Three history variables
record it, each at the action that causes it:

- `excused` has "double" once a call looks at `_process` in connectCore while
  another one is between that look and the assignment in start. NoOrphan is
  claimed until then: the second assignment drops a core that runs on. The other
  members are "overlap" (a restart is asked for while a call is under way),
  "spawn" and "early" (a core that had dialed dies unasked while the status does
  not say connected).
- `blind`: connectCore said connected while the transport completer of that
  moment was not completed (`Connected`), because the spawn failed, the core was
  gone again, or a shutdown of another call had replaced the completer. StatusTruthful
  says that this is the only way to a wrong status, and that it does not happen
  while `excused` is empty.
- `missed`: the requests that were open when onCrash dropped an event, because the
  status did not say connected. NoInvokeLeft says that no other request is ever
  forgotten, and that none is while `excused` is empty.

CallReturns and CrashNoticed are claimed for restarts in turn and cores that die
while the status says connected; what an overlap does to CallReturns is in
section 5. CrashNoticed needs the status: a core that dies earlier is not
noticed by anyone.

### CoreHub and CoreState

*State.* `isInit`, `isRunning`, `currentConfig` (which file, the port a patch has
put in, allow-lan), `sel` (what the engine's group has selected), `listeners` (the
configuration the inbound listeners serve), `runLock` with its holder,
config.yaml on `disk`; `Reqs` are places for requests under way, each used again
after its answer, so that a behaviour has any number of requests.

*Actions.* One per handler for what it does when it has the lock, and one per
further write inside the critical section: `applyConfig`, then
`patchSelectGroup`, then `updateListeners`, which unlocks; `handleStopListener`,
then `stopListeners`. `handleSetupConfig` reads isInit before the lock.
`quickSetup` is three effects: init, isRunning without the lock, setup.
A panic of updateConfig before any configuration is recovered: an error is the
answer and the deferred Unlock runs.

*Choices.* The patch has two of its fields, the port and allow-lan; the others
are applied as the port is. getProxies answers with the groups and proxies of
one configuration; the selection of each group is read later, outside the lock,
and is not part of the answer here. Requests are well formed. The method
`shutdown` is sent by no client (the desktop kills the process, Android stops
the service) and is left out.

*Refinement.* `CoreState` has one step per effect and no lock. In `CoreHub` the
mapping predicts, while runLock is held, what its holder will leave:
`servingBar`, `selBar`, and `phaseBar` per request. `Linear` is
`CoreState!Spec` under this mapping: a request takes effect at once, between its
arrival and its answer, and a reader of the state in between sees that.

### ChangeProxy and LatestCall

*State.* `inFlight` and `pending` are the two fields of ProxiesAction; a call is
a record of its number, group and proxy. `stage` is where its future is,
`requests` the calls sent to the core and not handled, `applied` the number of
the last one handled, `selected` what the core's groups have selected,
`selectedMap` the current profile's, `setup` the maps of setupConfig requests
under way.

*Actions.* `Tap` is the whole handler of a tap: the debounced call and the
selection stored in the profile. `changeProxyDebounce` sends at once when
nothing is in flight, since changeProxy has no await before its request.
`CoreSelects` and `CoreRefuses` are the core with its answer, `Completed` the
whenComplete that sends the waiting call. `SetupHandled` writes all selections.

*Choices.* `mayLose` collects the groups whose selection the code may lose: the
one slot is taken by a tap on another group, the core refuses, or a setupConfig
that was sent before the tap is handled after it. SelectionAgrees is claimed for
the others. The macOS tray calls changeProxy without the debounce; it is left
out, as is the three-minute limit of a request.

### StartStop

*State.* `started` (startTime), `shown` (runTime, which the button shows),
`transitioning`, the update timer with the timers that no variable names any
more (`orphan`), `suspended`, the debounced suspend action, the core's
connection and its isRunning. `Tasks` are places for operations under way, each
in one await (`pc`); its `_handleStart` may outlive it (`starting`); `request` is
the start or stop it has sent.

*Actions.* `Start`, `Stop`, `TipRestart`, `Resume` are the callers, `TurnOn` is
updateStatus(true) with tryStartCore, `Restarted` to `SetupAnswered` the restart
with the profile and its preloadInvoke, `SsidChanges` and `DebounceFires` the
suspend listener, `Tick` the timer.

*Choices.* `disturbed` says whether operations overlapped or one failed; under it
SwitchObeyed claims nothing, because _handleStart and handleStop are not guarded
against each other. ShownAgrees is claimed for overlaps and failures too; only a
start that the restart button asked for and updateStatus dropped leaves the
shown state wrong for good.

### AndroidRun and ModuleLoader

*State.* `runState`, `runLock`, whether Flutter's engine is there (`engine`) and
onServiceDisconnected is set (`listening`), the permission dialog; per coroutine
what it waits for (`at`) and its call to the service process (`remote`); the VPN
service (`alive`, `up`), its broadcasts on their way, and the run time the
service process keeps.

*Actions.* One per handler and per end of a remote call. The callback of prepare
runs outside the lock (`CallbackCalls`). A call may end before it is handled
(the five seconds of useService). `Disconnected` is the death of the service
process. With an engine the toggle, start and stop actions only tell Flutter,
whose requests are `Command`s.

*Choices.* `excused` names what went wrong and was not made up for:

- "timeout": a call ended after five seconds without an answer;
- "late": a start, a stop or a sync was made, or the service process died, while
  the callback of prepare was outside the lock; or the process died during a
  start, a stop or a sync, so that the listener and the call both set the state;
- "deaf": the process died at START and nobody listened;
- "failed": the service did not start or stop although the process answers as if
  it did.

RunAgrees claims agreement at rest without them, and that none of them lasts: a
start or stop that the service process answers, with no callback outside the
lock and no other call on its way (`Alone`), clears `excused`, and such a sync
clears all but "failed". START without a service after "deaf" is thus possible
in the model as in the code, but not across the next answer. In `ModuleLoader`
the service is started and stopped in turn, as RemoteService's runLock has it.

### LogStream

A subscriber is named by the startLog request that made it. `UnSubscribe`,
`Subscribe` and `ReaderBegins` are the parts of handleStartLog between which other
goroutines run; the observable's mutex is held while `event` is handed out.
LogFlows is claimed as long as no two log requests are handled at once: then a
subscriber may be overwritten, nobody reads it, and once its 200 places are
full every goroutine that logs is held up. Dart sends these requests one after
the other but does not wait in between.

### HelperService

`PROCESS` (`child`) is taken twice in a start: `StopChild` and `Spawn`. OnlyChild is
claimed without overlapping starts; two of them leave a process that a later
stop does not find.

### ProfileStore

*State.* The list Riverpod holds, the table, the requests to the database isolate
and its replies, in order; the current profile; per profile whether deleteProfile
waits, the row updateProfile was called with while it downloads, the row the loop
of autoUpdateProfiles still has to do, and the row that the menu of the profile
was opened for. A row has three parts: what setProfileAutoUpdate, renameProfile
and a download change.

*Actions.* `withRollback` changes the list at once, sends the write, and
remembers the list as it was. `put` is a write of a row that its caller read
earlier: the row of the list now (setProfileAutoUpdate), the profile captured
when the menu opened (renameProfile), the one a download or the loop of
autoUpdateProfiles began with. A reply makes the stream read the table again, or
puts that list back.

*Choices.* `wanted` is the table the operations ask for, in their order. `excused`
names the profiles, the list and the current profile that the code may get wrong,
each at the action that causes it:

- a profile, when the row that is stored was read before the last change of it:
  a rename after a switch of the automatic update in the same menu, a rename, an
  edit or a deletion during a download, a change of a row that the stream or a
  failed write has put back; and when a write of it fails;
- "list", when a write fails that was not alone: it takes back the changes of
  others too;
- "current", when a write fails, a deleted profile that is still shown is tapped,
  or the current profile is deleted while the list shows a deleted one or misses
  one that is there;
- "null", when a deleted profile comes back while there is no current one: the
  list is not empty then and current stays null.

The operations begin only while a write is left (`MayWrite`), and a part of a row
changes `MaxEdits` times.

### Indexing, RuleList and Snowflake

`Indexing` has the operators of indexing.dart on sequences of digits in a base
that is a constant. The two recursions of _midpoint are given by where they
end: at the first digit in which the fractions differ, and, without an upper
bound, at the first digit that is not the last one. `RuleList` puts, moves and
deletes rules with these operators; ReadLinks is the stream that reads the
table by its keys, with equal keys in any order. order
leaves the old key of the moved rule in the list until the stream has read the
table, so a second move in between may throw, be lost, or store a key that is
there already. The module marks such a list as spoiled and `MCData` does not
follow it; KeysInOrder is claimed for the others. `Snowflake` has one generator per isolate
and per run of the application; all have the same worker id.

## 4. Runs, what they show, and their bounds

| Run | Distinct states | Properties | Shows |
|---|---|---|---|
| `ipc_safety` | 1,630,073 | TypeOK OneServing SessionVisible StoppedIsQuiet ShutdownHitsOpenFd | two generations, two clients, one send, stop, Dart's stream may close |
| `ipc_disconnect` | 19,757 | DisconnectNoticed | one generation: reader, writer and sender do not wait on each other for ever |
| `ipc_stop_deadlock` | - | StopReturns violated | stop and the io thread wait on each other |
| `ipc_stale_cleanup` | - | NewerSocketKept violated | the socket file of the next generation is removed |
| `tun` | 200,249 | TypeOK CallbackLive OnlyCurrentHandler StopReleases CallReturns | one thread, three starts, two dialers and a request that dials under runLock |
| `service_safety` | 5,430,233 | TypeOK NoOrphan StatusTruthful NoInvokeLeft AnswerOnce | a boot and two restarts that may overlap, two requests, every fault |
| `service_status` | 44,125 | CallReturns CrashNoticed | restarts in turn, cores that die only while the status says connected |
| `service_restart_hangs` | - | CallReturns violated | a restart asked for during the first start |
| `hub` | 151,272 | TypeOK Settled Linear Answered | every method, any number of requests, two at a time |
| `hub_allow_lan` | - | PatchInForce violated | allow-lan of a patch is not applied |
| `control` | 288,306 | ProxyTypeOK SelectionAgrees LatestWins LastCallApplied | taps on two groups and a setupConfig in any order |
| | | SwitchTypeOK SwitchObeyed ShownAgrees | two operations at a time on the switch, a core that dies, an SSID that changes |
| | | RunTypeOK RunAgrees PendingEnds | three commands, two coroutines, a service process that fails or dies |
| | | ModulesAgree | three starts of the service and their stops |
| | | OnlyChild | three threads, three processes |
| | | LogFlows | three log requests, a buffer of two |
| `data` | 6,457,307 | ListAgrees EditsKept CurrentExists | two profiles, four writes, three at a time, each of which may fail |
| | | KeysInOrder | three rules in base 2, a write under way |
| | | IdsUnique | two generators, two ids a millisecond, any clock |

The bounds, and why they are enough for what the runs ask:

- `MaxGen` 2, `MaxConn` 2, `MaxSends` 1 or 2: the races of the IPC server are
  between a thread of one generation and the restart that makes the next, and
  between one client's writer and the next client. A third generation joins the
  second as the second joins the first. The safety properties are proved for
  all bounds.
- `MaxStart` 3, two dialers, one request, `Limit` 2 in place of 4: two
  dialers fill the semaphore of the model and a third process, the request,
  queues behind a stop or a start. The safety properties are proved for every
  bound; CallbackLive is proved for any number of calling threads, the run has
  one.
- `Restarts` 2 with the boot, `Invokes` 2, `MaxProc` 3: a process per call, so
  the bound stops no start; two requests cover the one that is answered late and
  the one sent to the next core. Two restarts and the boot overlap in threes.
- `Reqs` 2 with every method, one readable file with an unreadable one and the
  default, two ports, two selections. Two requests at a time show every
  interference of a lock holder with a request outside the lock; three were
  run for the safety properties as well, and the proofs hold for any number.
- `MaxCalls` 3, two groups, two proxies, one setup: one call in flight, one that
  waits, one that takes its place. Two `Tasks`: a third operation at once adds an
  overlap, which SwitchObeyed excludes and ShownAgrees survives;
  SwitchTypeOK is proved for any number. `MaxCommands` 3 with two `Jobs`: a start,
  a stop and a third command that meets either; broadcasts need no command.
- `MaxLoads` 3, three handlers, three log requests: one more than the pair that
  races. `Buffer` 2: it can be empty, full and neither.
- `MaxWrites` 4, `MaxEdits` 1: the write of an addition, of a change, of a
  download that ends and of a deletion. `MaxPending` 3 requests and replies of the
  database at a time: a write that is sent while another one fails and the rows
  of a third are read. Base 2 with integers of at most two
  digits reaches both ends of the digits and of the integers within a few keys;
  `MaxFraction` 2 stops keys from growing without end. `MaxTime` 3: past, now and
  later. The properties of this run are proved for any profiles, edits, writes,
  rules, digits, heads and generators.

Deadlock is not reported in any run: a system that waits for a caller or a
client may stop, and the bounds stop it. Whether anything hangs is the question
of the liveness properties.

## 5. Disagreements found

1. `ipc_stop_deadlock`: stop_ipc_server joins the io thread while it holds the STATE
   lock (ipc.rs:147-151) and does not change GENERATION. The io thread is still
   the current one, so at its end, or when it clears `tx` after a client, it
   takes the same lock. Neither ends, and transport.dart:101 awaits the stop. The
   lock is only harmless when the thread was already past it.
2. `ipc_stale_cleanup`: a thread that found itself current clears `handle` before it
   removes the socket file (ipc.rs:395-399). A restart between the two has nothing
   to join, bumps the generation and binds, and the old thread removes the new
   file: nobody can connect any more.
3. `service_restart_hangs`: a restart during a start replaces the completer that
   the start awaits and waits itself for a DISCONNECTED frame of a core that
   never connected (service.dart:116, 137, 142). One of the two never returns.
4. `hub_allow_lan`: updateConfig decodes allow-lan and applies every other field
   (common.go:184-246), so a change of that setting has no effect on the listeners
   until the next setupConfig.

## 6. Fairness

- `IpcServer`: weak fairness for every thread that has been started (the
  restart, the stop, the sender, each io thread, each writer): the operating
  system schedules them. Nobody has to call, dial or close.
- `TunHandler`: weak fairness for threads and goroutines; strong fairness for
  the steps of a caller that take a mutex, because sync.Mutex hands a lock to
  its oldest waiter after a millisecond of starvation; strong fairness for the
  unlock of a request, which dials finitely often. The semaphore needs none: its
  queue is first in, first out in the model as in the code.
- `CoreService`: weak fairness for Dart's events and calls, for the io thread, and
  for a core that dials; a killed core dies. A core need not answer, and the
  timeouts need not fire for the properties to hold.
- `CoreHub`: strong fairness for taking runLock (starvation mode, as above), weak
  fairness for every other step of a request.

- `ChangeProxy`: weak fairness for the task and the core's answers; a request that
  is not answered is ended by its time limit, after which the task goes on too.
- `StartStop`: weak fairness for each task and for the timer: Dart's event loop
  runs what is due, and a request ends by its answer or its time limit.
- `AndroidRun`: weak fairness for each coroutine; a call to the service process
  ends after five seconds at the latest. Nobody has to ask for anything, and the
  user need not answer the dialog.
- `LogStream`: weak fairness for the goroutine that hands out events and for each
  request with its reader. Nobody has to log.

The liveness properties are checked without symmetry. Two runs of safety
properties use it: `service_safety` (`SameActors`: restarts and invokes) and `data`
(`SameProfiles`). No definition chooses among these values or compares them in any
way but equality, the initial states treat them alike, and no property names one.

## 7. Proofs

Every theorem is for all values of the constants under the module's named
assumption (`IpcAssumption`, `TunAssumption`, `CoreAssumption`,
`HubAssumption`, `ProxyAssumption`, `SnowflakeAssumption`, `RunAssumption`,
`LoaderAssumption`, `StoreAssumption`, `KeyAssumption`: sizes are naturals, there
are two digits at least, sets are disjoint where the code's objects are
different). The assumptions are evaluated by TLC in the runs.

- `IpcServerProofs`: `TypeCorrect`, `OneServingAlways`, `SessionVisibleAlways`,
  `StoppedIsQuietAlways`, `ShutdownHitsOpenFdAlways`. None of them is inductive: that two threads do not
  serve at once depends on who may still hold a handle. `Owner` names the thread
  that may serve in every state of the control thread (the one in
  STATE.handle, the one taken out to be joined, the one about to be stored);
  `Ownership` says that nobody else serves. Given that, no other thread writes
  the statics between the steps of the serving one, which is what
  `SessionFacts` (per step of io_loop: which statics already describe its client)
  and `QuietFacts` need. `FdFacts` adds that a saved descriptor is that of the
  client some thread still serves, as long as no stream was closed.
- `TunHandlerProofs`: `TypeCorrect`, `OwnershipAlways`, `CallbackLiveAlways`, and
  under the hypothesis of one calling thread `OnlyCurrentAlways` and
  `StopReleasesAlways` (a stop closes the current handler, and no other one has a
  callback). The argument: who
  works on a handler holds tunLock and works on the current one; who holds the
  whole semaphore is alone; an open listener has its callback. A hook that has
  seen an open listener under one permit therefore keeps it until it releases
  the permit.
- `CoreServiceProofs`: `TypeCorrect`, the action property `AnswerOnceAlways`,
  `NoOrphanAlways`, `StatusTruthfulAlways` and `NoInvokeLeftAlways`, for restarts
  that overlap or not and every set of faults. `Owners` is the invariant of the
  first: until "double", one call at a time is between its look at `_process` and
  its assignment, and there is no process while one is; so the assignment drops
  none. What the other two say of every behaviour rests on `Wire`: a frame that
  tells of a connection is about the one being served or has the frame of its end
  behind it (`Heard`); a completed transport completer means a served core or the
  frame of its end on the way (`Wired`); a request whose gate opens is sent
  before anything else happens (`Through`); and a status that is not blind was set
  over a completed completer (`Sighted`). `Owed` adds, per request in
  _callbackCompleterMap, who will complete it. What they say besides of the
  behaviours in which `excused` is still empty is `Orderly`: the calls take turns
  (`Turns`), and `Session` follows one core from its start to its end in eight
  phases (`Down`, `Starting`, `Queued`, `Greeted`, `Up`, `Lost`, `Stopping`,
  `Stopped`) and says for each what the Dart side, the io thread and the frames
  between them hold; one session event at most is on its way (`One`).
- `CoreHubProofs`: `TypeCorrect`, `SettledAlways`, `Linearizable`. `Holder`, a
  part of TypeOK, says that exactly the holder of runLock is inside a critical
  section. `InStep` relates the listeners to isRunning and currentConfig in
  every state: they agree, or the holder is about to make them agree, or a
  quickSetup is about to apply its configuration. With both, every action is a
  step of CoreState under the mapping or leaves it as it is, one proof step per
  action, and the initial states map to initial states: `Spec => CoreState!Spec`.
- `ControlProofs`, on the selection of proxies: `ProxyTypeCorrect`,
  `ProxyLatestWins` (the refinement of `LatestCall`) and `ProxySelectionAgrees`.
  `Ordered` says that at most one request is out, that of `inFlight`, and that
  numbers grow from what the core has handled over the request to the call that
  waits; without it a step of the core need not be one of LatestCall. `OnItsWay`
  says where the last selection of a group is: in the waiting slot, in the
  request, or in the core.
- `ControlProofs`, on the switch: `SwitchTypeCorrect` and `SwitchObeyedAlways`.
  The flag is kept through every await by the operation that set it; what makes
  the type invariant inductive is that the restart button's stop (`TipUnguarded`)
  never holds it. SwitchObeyed speaks of rest only; `Steady` adds that one
  operation is under way at most while nothing is disturbed, and `Doing` says for
  each of its awaits how far the core, the timer and the start time are apart and
  which request to the core will bring them together.
- `PlatformProofs`, one module for three small components: `HelperOnlyChild`
  (`HelperInv`: between the two holds of the lock nothing runs, and one thread at
  most is in a start); `ModulesAgreeAlways` (`LastLoad`: how far the last load and
  its cancel are, all earlier ones being over); `RunTypeCorrect` (`LockShape`: a
  step keeps away from runLock, takes it, or gives it back) and `RunAgreesAlways`
  (`Truthful`, while nothing but "failed" is excused: one call of the service
  process is under way at most, and what it carries tells how far the state is
  from what the process says; a callback outside the lock finds STOP. An answer
  that nothing crosses restores it, whatever was excused before: `TruthfulAlone`).
- `DataProofs`: `ListAgreesAlways`, `EditsKeptAlways`, `CurrentExistsAlways`. All
  three speak of rest; the invariant `StoreInv` says what holds until then.
  `Listed`: a write that was sent alone still has the table as its snapshot, and
  when nothing more is asked of the database, the last reply on its way puts
  the table in the list. `Written`: the last write to a row that is still under way,
  or else the row, is what the operations want (`Leads`), for every profile that
  is not excused. `Chosen`: the table will hold a row exactly where one is wanted
  (`Fits`), the current profile is wanted, and it is null only when nothing is, or
  after "null" (`Pointed`). Every operation that stores a row is a `Puts`, so that
  one lemma (`PutStep`) is about the toggle, the rename, the download and the loop.
  In the same module
  `SnowflakeIdsUnique`, whose `SnowflakeInv` adds that every id of a generator is
  at or below its last one.
- `RuleListProofs`: `GeneratedKeyFits`, on generateKeyBetween alone, for keys and
  lists of any length, and `KeysInOrderAlways`. The order of strings is settled at
  the first place where they differ (`BeforeDiffer`), which exists because a set
  of numbers has a least one (`Least`, from the well-foundedness of inclusion of
  finite sets: this is what stands for the inductions). From there: _midpoint
  gives a fraction between its arguments (`MidpointBetween`); adding or taking
  one, with the carry, gives the next or the previous integer (`IncrementAfter`,
  `DecrementBefore`), and integers go before fractions in the order of keys
  (`IntegerFirst`, `FractionNext`). `RulesInv` is about the list: at rest it shows
  the table in the order of the keys; with a write under way the list to come is
  in that order, and so is the snapshot a failure returns to. That the stream
  reads back the very arrangement the user made (`ReadInOrder`) is the uniqueness
  of the sorted list.

## 8. What is only model-checked

Liveness (DisconnectNoticed, CallReturns of both modules, CrashNoticed, Answered,
LastCallApplied, ShownAgrees, PendingEnds, LogFlows) and the violated properties:
TLAPS proves neither liveness under fairness nor ENABLED. Every invariant and
every action property of a passing run is proved.

Two claims are narrower than their names, on purpose. DisconnectNoticed is
claimed for one generation: when a restart falls between accept and the store of
`tx` (ipc.rs:304), the old client's sender stays in STATE and the old thread waits
for a writer whose channel nobody closes. ShutdownHitsOpenFd is claimed while
Dart keeps its streams: a client that is dropped because the stream is closed
(ipc.rs:310-314) leaves SHUTDOWN_FD pointing to a closed descriptor.

## 9. What is not modelled

- The engine, mihomo, vendored under `core/Clash.Meta` (over 100,000 lines of
  protocols, transports, DNS and rules, with a life of their own outside this
  repository): apart from its observable only the calls that core/*.go makes,
  as external definitions. It is the reason why the map covers a small share of
  all the lines in the repository.
- The Windows path of CoreService through the helper, `destroy` and handleExit,
  which races its own three-second timer, and the events of the core other than
  crash. The Windows build of the IPC server is covered by `Unix = FALSE` in the
  proofs, which hold for both values.
- Of the Go core: external providers, delay tests, geo data, deletion of files;
  traffic, connections and memory queries keep no state of their own.
- The contents of configurations, and with them lastConfigMd5, which is stored
  before setupConfig has succeeded (action.dart:466).
- The key edits of a profile (`addKeysToProfile`, `deleteKeyFromProfile`), which
  read, change and write a file over awaits without a guard; the order of the
  profiles; backup and restore; ProxyGroups, whose put stores the group without
  its new order key (database.dart:454-465); generateNKeys.
- What the Android modules do, the binding of ServiceDelegate beyond a call that
  fails, the Android core bridge, which passes calls on.
- The macOS tray, which calls changeProxy directly; the time limit of a request to
  the core in `ChangeProxy`, `StartStop` and `LogStream`.
- Parsing and conversion of configurations and subscriptions, the user interface
  and the platform runners: no state whose changes interleave.
