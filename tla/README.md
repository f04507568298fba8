# A verification project for wclap-bridge

wclap-bridge lets a CLAP host use WCLAPs: CLAP plugins compiled to WebAssembly.
It opens a WCLAP with Wasmtime, presents its plugins as native ones, and carries
calls, events, streams and host functions between the two worlds.  These TLA+
modules model the parts where threads, errors, life times and data meet; TLC checks
them on small instances, and TLAPS proves the safety of every component for every
value of the constants.  Paths below are relative to the repository; `gen/` stands for
`source/_generic/` and `wt/` for `source/wclap-instance-wasmtime/`.

## 1. The system

| Component | Code | State it keeps | Operations |
|---|---|---|---|
| C API | `source/wclap-bridge.cpp` | `globalInitMutex`, `globalInitOK`, `globalInitMs`, `activeWclapCount` | global init and deinit, open, close, get_error, get_factory |
| Engine, epoch thread | `wt/*.cpp` 11-78 | `globalWasmEngine`, `timeLimitEpochs`, `globalEpochRunning`, the thread | `globalInit`, `globalDeinit`, a tick every 10 ms |
| InstanceGroup | `wt/*.h` 291-404 | the compiled module, shared memory, first error, `hadInit`, thread-spawn hook | `setup`, `setError`, `error`, `startInstance`, `wtWasiThreadSpawn` |
| Instance | `wt/*.h` 406-663 | store, `callMutex`, stop flag | `wtCall`, `wtMalloc`, memory access, `registerHost`, `runThread` |
| WclapModule | `gen/wclap-module*.h` | thread registry and `threadMutex`, `pluginList`, arenas, host-function templates, its own error | constructor, destructor, `wasiThreadSpawn`, `runThread`, `getFactory`, the host functions |
| Plugin factory | `gen/wclap-plugin-factory.h` | descriptors | enumerate, `create_plugin` |
| Plugin | `gen/wclap-plugin.h` | `hostEventsMutex`, `hostStreamsMutex`, host pointers for one call, own arena and Instance | every CLAP method and extension |
| Bridge plugin | `plugin/source/wclap-bridge-plugin.cpp` | `initMutex`, `initCounter`, `wclapList`, `pluginList` | `clap_init`, `clap_deinit`, scanning, merging |

The host calls the C API and the plugins from its main and audio threads.  A
Plugin calls WASM code with `Instance::call`, which holds that Instance's recursive
`callMutex` for the whole call; WASM code calls host functions, which find their
Plugin through an index in WASM memory and may re-enter the host, and through the
host the plugin.  WASM code starts OS threads by `wasi thread-spawn`: each has an
Instance of its own on the shared memory, and a slot in the module's registry.  An
error or a trap anywhere latches the group's error, after which `wtCall` does
nothing.  One epoch thread per process makes over-long calls trap.

What is hard here, and what must hold:

- **Closing beside running threads** (WclapModule).  Threads start, end and start
  each other while `wclap_close` shuts the hook and scans the registry.  Correct: the
  scan misses no thread, none outlives the module, a new thread finds its own slot,
  slots are not taken over, the close returns.
- **Re-initialising the engine** (C API).  Init, deinit, open and close on several
  threads; a reconfiguration may fail half-way.  Correct: flags, limit, engine and
  epoch thread agree; the epoch thread never ticks a deleted engine; the count that
  guards the engine is right.
- **Locks across the border** (Plugin).  Recursive mutexes, two host threads,
  re-entry, traps in the middle.  Correct: every path gives back what it took; an
  event list never outlives its call; calls return.
- **Life times of plugins** (registry of plugins).  Host functions hold a raw
  `Plugin *`; indices and arenas are reused.  Correct: a host function reaches its
  own, live plugin; an arena has one holder.
- **Merging WCLAPs** (bridge plugin).  Counted initialisation by several threads,
  WCLAPs that fail to open, duplicate IDs.  Correct: an entry always names an open
  WCLAP that has its descriptor; what was opened is closed before the engine goes.
- **Deadlines and the shared error** (InstanceGroup, Instance).  Nested calls and
  calls of several threads set the one deadline of an Instance; errors on several
  threads meet in one latch.  Correct: no call is cut short; every call ends; the
  first error stays; a close reaches every thread.
- **Translation** (events, states, webview resources).  Two layouts and two address
  widths; streams that take a part at a time; calls inside calls.  Correct: no
  untranslated pointer crosses; events come back as they went; "true" means all of
  it; no stream gets another's bytes.

External, and modelled from how `src/` uses them: Wasmtime (a call returns, traps, or
ends at its epoch deadline), wclap-cpp (`IndexLookup`, memory arenas, `requestStop`),
the CLAP host and its threading rules, WASM code (anything those rules allow, and a
trap at any moment).

## 2. The modules

### ThreadHost, WclapThreads (and WclapThreads_proofs)

`ThreadHost` is the promise, without slots, locks or hooks: threads start while the
module is open, while it closes only beside one that still runs, and never after;
the module is gone only when nothing runs.

`WclapThreads` is the module in detail, one host thread `Main` and the OS threads
`Threads`.  `pc` says where each is in its own function, `spawn` where it is in
`wtWasiThreadSpawn`/`wasiThreadSpawn`, `threads`/`size` are the C++ vector, `mutex`
is `threadMutex`.

| Actions | Code |
|---|---|
| `ConstructFails`, `ConstructSetsHook`, `Initialize*`, `EntryInit*` | `WclapModule::WclapModule`, `initInner`, `wasiInit` |
| `HostCall`, `HostCallEnds`, `GetError` | `wtCall`, `getError` |
| `SpawnCheck`, `SpawnCall` | the unlocked test and call of the hook, `wt/*.cpp` 367-376 |
| `SpawnRefused`, `SpawnLock`, `SpawnFails`, `SpawnStart`, `SpawnStore` | `wasiThreadSpawn`; `SpawnStart` creates the `std::thread`, `SpawnStore` stores the `Thread` |
| `RunLookup`, `RunCheckInit`, `RunNotInit`, `RunNoEntry`, `WasmEnds`, `EpochStop`, `FinishRemove` | `runThread` of the module and of the Instance, `continueChecker` |
| `Close`, `CloseLock`, `ClearFn`, `ClearCtx`, `Scan` | `wclap_close`, `~WclapModule`, `~WclapModuleBase` |

A critical section of `threadMutex` is one action unless another thread can see its
middle: the hook's two stores and the gap between creating and storing a thread are
steps of their own.  `startInstance` runs the WASM start function of the new Instance
between `SpawnLock` and `SpawnStart`, with the mutex held; that this function itself
spawns (and so waits for its own thread's mutex) is not modelled, and `SpawnReturns` and
`CloseCompletes` assume that it does not.  A call or load through null sets `fault` and ends the behaviour.

### BridgeApi (and BridgeApi_proofs)

The file-scope globals of `wclap-bridge.cpp` and the engine under them.  `Callers`
are host threads; `pc` follows each through `wclap_global_init`/`deinit` (`Decide`,
`StopEpoch`, `JoinEpoch`, `DeleteEngine`, `CreateEngine`, `Finish`) and through open
and close (`OpenCheck` to `OpenConstruct`, `CloseCount`, `CloseDestroy`).  `EpochCheck`
and `EpochTick` are the epoch thread.  Only init and deinit take the mutex; the code
does not claim that open and close may run beside them, so `overlap` records
whether a behaviour has done that, and the two properties that need it say so.

### PluginCalls (and PluginCalls_proofs)

One Plugin and the host's threads.  Each actor has a stack of active methods, since a
host function may call the plugin again.  `Publish` takes the events or streams
mutex, `WtCall` the `callMutex`, `WasmReturns` ends or traps, `Leave` cleans up.
`HostFunction` is a call from WASM through the function table that takes no lock of the
Plugin's; `HostAsks` and `HostAnswers` are one of an event list or a stream
(`inputEventsSize`, `inputEventsGet`, `outputEventsTryPush`, `istreamRead`,
`ostreamWrite`), which locks `hostEventsMutex` or `hostStreamsMutex` while its caller
holds `callMutex`.  The model leaves it to WASM code which of them it calls when.
`RequestExec` is the thread-pool extension.  `MayEnter` holds CLAP's threading rules.
`Holds` says which methods hold a mutex where, which is what the depth of each is
compared with.  Left out: a host that calls the plugin from inside `try_push`, `read`
or `write`; WASM threads, which hold no mutex of this module when they ask for one;
and the mutex of `webviewSend`, which only the main thread takes.

### PluginRegistry (and PluginRegistry_proofs)

The plugins of one module from `create_plugin` to `destroy`, their indices and
arenas, and the host functions called by the main thread's WASM code and by WASM
threads that plugins start.  A host function is two steps, as all those of
`gen/wclap-module.h` 251-584 are: `CallbackFinds` (`getPlugin` and the null test) and
`CallbackForwards` (the use of the pointer).  `Destroy`, `DestroyReturns` and
`DestroyReleases` are the three statements of `pluginDestroy`.

### SharedFactory, BridgePlugin (and BridgePlugin_proofs)

`SharedFactory` is what the hosts that share the plugin rely on, without files, scans
or locks: nobody is let in while the list is filled; an ID that is listed stays, and
its version only rises; once a host is in, the list stays as it is until the last host
has left, and only then is it emptied.  An init that failed counts as a user for ever
(line 167 returns with `initCounter` at 1), so its phase is `failed` from then on.

BridgePlugin is `clap_init` and `clap_deinit` of the bridge plugin over a chosen `disk`: what each
`.wclap` file turns out to be.  `ScanOpen` is the directory scan, `CollectNew`,
`CollectDuplicate` and `CollectNext` are the loops of `scanWclapPlugins` with their
early return.  `ScanThrows` and `CollectThrows` are the exceptions that the directory
walk and the version parser may let out of `clap_init`; they end the behaviour.  The
engine below is that of BridgeApi, for a caller that never
overlaps its calls (`initMutex` sees to that).

### InstanceCalls (and InstanceCalls_proofs)

The Instances of one group: host threads that call functions on the main one, WASM
threads with one each.  `stack` holds each thread's calls, `left` the epochs to each
Instance's deadline, `constErr` and `wtErr` the two halves of the group's error.  A
frame counts in `spent` the epochs since its call entered WASM; the code has no such
counter, it is there for the property.

| Actions | Code |
|---|---|
| `Init`, `Returns` of `init` | `initInner`, which holds `groupMutex` until it returns |
| `HostCalls`, `CallRefused`, `CallUnresolved`, `Enter` | `call`, `callAt`, `wtCall`, `wtMalloc` (which does not look at the error) |
| `HostFunction`, `HostReturns` | `registerHostGeneric`; `HostCalls` from inside is a nested call |
| `Returns`, `Fails`, `Timeout`, `ContinueChecker` | the ways out of `wasmtime_func_call`; a WASM thread's deadline asks `continueChecker` |
| `ReportMessage` | `setError(const char *)`, test and store under the lock |
| `TestError`, `StoreError` | `setError(wasmtime_error_t *)`, whose test is outside the lock |
| `Spawn`, `RunThread`, `Close` | `startInstance`, `runThread`, `wclap_close` |
| `Tick` | `epochThreadFunction` |

### PluginData (and PluginData_proofs)

What one Plugin carries across.  `stack` holds the calls in progress (a host function
may lead to another call on the same thread), `src` what a call has to carry, `io`
what has arrived; `hostOstream`, `hostIstream` and `hostOutputEvents` are the depths
of the calls whose pointers the members hold.  Of an event the model keeps its
space, type, cookie, payload size, whose memory its sysex pointer points to and whose
layout its header's size is for.

| Definitions | Code |
|---|---|
| `ToWasm`, `InputEvents` | `tryCopyInputEvent`, the loops of `pluginProcess` and `params_flush` |
| `FromWasm`, `Echo` | `outputEventsTryPush`, `inputEventsGet` |
| `Begin`, `BeginRefused`, `WasmReturns`, `WasmTraps` | `process`, `params_flush`, `state_save`, `state_load`, `webview_get_resource`: the pointers set before and cleared after |
| `OstreamWrite`, `IstreamRead` | `ostreamWrite`, `istreamRead`, at most `Cap` (1024) bytes each |
| `GetUri`, `ResourceFile`, `FileWrite` | `webview_get_uri`, `webview_get_resource` for pages that are files |

The `MC*` modules only add symmetry sets or small constants.

## 3. What TLC checks

| Run | Shows | Bounds |
|---|---|---|
| `threads` | `IInv` (section 4), its parts, bounded and owned slots; that WclapThreads implements ThreadHost; the close and every spawner return | 2 threads: one is spawned while the other ends or spawns; no symmetry, because of liveness |
| `api` | `IInv` (section 4); consistency of globals, engine and epoch thread; the engine outlives WCLAPs; init and deinit return | 2 callers, 2 handles, limits 0, 5 and 250 ms |
| `calls` | `IInv` (section 4); balanced locks, events that do not dangle, calls that return, but for the two deadlocks below | 2 host threads, 1 pool worker, 3 methods deep, 2 host calls each |
| `registry` | `IInv` (section 4); host functions reach their own, live plugin; arenas have one holder; destroy never aborts | 3 plugins, 2 WASM threads, 3 arenas, 3 indices |
| `plugins` | `IInv` (section 4); entries, versions and closing; that BridgePlugin implements SharedFactory: a host that is let in finds the scan done and a list that stays | 2 hosts, every disk of 2 files with up to 2 plugins, 2 IDs, no version, two, and one that does not parse |
| `instance` | `IInv` (section 4); no call is cut short; the first error stays; calls return and a close reaches every thread | 2 host threads, 1 WASM thread, limits 0 and 5 ms, one nested call |
| `data` | `IInv` (section 4): pointers are translated; events come back; "true" means complete; streams are not mixed | 9 events at the boundaries between the ways of translating, 2 in a call; 0 or 3 bytes through a buffer of 2; 2 calls deep |

Limit 5 ms is one that is not a whole epoch, 0 the one without an epoch thread.
Three plugins suffice for an index and an arena to be reused while another plugin
is alive; two files for a duplicate inside a WCLAP and across two; nesting three deep
for re-entry through a guarded method into another; three bytes through two for a
transfer that needs a second round, an event at each end of each range of types for
every case of the two switches.  Every bound is a constant (`MaxDepth`,
`MaxCallbacks`, `MaxInits`, `MaxPlugins`, `MaxNested`, `MaxSpent`, `MaxEvents`, the
sets).  `MaxSpent` cuts no behaviour off: a frame's count stops there, and
`SpentAssumption` puts it at the largest budget.  `calls` turns off the deadlock check: a
`process()` that waits for the pool, and two threads in `LockInversion`, really do stop
(below).

### Fairness

- A thread inside a function keeps running (weak fairness), and whoever waits for a
  mutex that is released again and again gets it (strong fairness): what an OS
  scheduler gives.  In PluginCalls the two are one strong fairness for each thread's
  next step.  Nothing is assumed of a wait for a mutex that stays locked.
- WASM code on a WASM thread that is asked to stop does stop (`EpochStop`), only
  when a time limit is set: `continueChecker` runs at each deadline.  It assumes the
  code reaches epoch checks; one blocked in `memory.atomic.wait` does not.
  WASM code in a host call ends, at its deadline if not before (`WasmReturns`).
  WASM code need not end by itself, start threads or call the host.
- The pool takes the tasks it was given.  The host need not call anything.
- In InstanceCalls the epoch thread ticks on, and code at its deadline notices before
  the next epoch (10 ms later: Wasmtime tests the epoch at every loop and function).
  Host functions return, and one outermost call makes boundedly many calls from them
  (`MaxNested`): each sets the deadline of the call around it anew, so a host function
  that calls back for ever keeps the outer call alive for ever, limit or not.  WASM
  code is under no obligation to return: `CallsReturn` rests on the deadline alone.

### Where the code and the documentation differ

Five runs end in a counterexample, each about a sentence of the repository:

1. `threads_hook`: `~WclapModule` says it prevents threads from spawning "after this
   point", but the hook is tested and called without the mutex: a thread can call
   through null, or start after the hook was cleared.  (It is still joined:
   `NoThreadOutlivesModule` holds.)
2. `calls_pool`: thread-pool tasks need the `callMutex` that the `process()` which
   requested them holds.
3. `calls_hostfn`: the plugin's own Instance never gets the host functions, so a
   host call from `activate`, `start_processing` and the like traps.
4. `plugins_collected`: `if (duplicate) return;` ends the whole collection.
5. `registry_deleted`: after an error the WASM `destroy()` is skipped, and the Plugin is
   deleted while its WASM threads may be using it in host functions.

Seen while modelling, and in no run of their own:

- `process()` runs on the main Instance, so the audio thread waits for the main
  thread's calls; README "Design" gives it one "guaranteed to be available for
  realtime calls".  PluginCalls models it as it is: `AudioReturns` says only that
  it does get its turn.
- Methods lock `hostEventsMutex` or `hostStreamsMutex` and then `callMutex`; the host
  functions of event lists and streams lock in the opposite order.  If the main
  thread's WASM code uses an event list it has kept while `process()` or `flush()` holds
  `hostEventsMutex` and waits for `callMutex`, both threads block in native code for
  ever; line 134 of `gen/wclap-plugin.h` answers such late calls, but only once it has
  the mutex.  Streams are alike.  `LockInversion` is that state; `calls` reaches it, and
  `AudioReturns` and `MainReturns` show that it and the pool are the only ways for a
  call not to return.  The rule a WCLAP needs, to use lists and streams only inside
  the call that passed them, keeps out of it: that is `OwnListsAnswer` of section 4.
- `setError(wasmtime_error_t *)` says "Keep first error", but of two threads that fail
  together the second may win (`FirstErrorStays` states exactly that exception).
- `makeInvalidations` is never called, so the invalidation factory is always empty, and
  `wclapDirs` is not cleared by `clap_deinit`.
- `wclap_close` never calls the `deinit()` of the WASM `clap_entry`, and a webview
  answering from inside `send()` meets a mutex that is not recursive.

## 4. What is proved

`WclapThreads_proofs`, for every finite set `Threads`, with or without a time limit,
from the assumptions that `Main`, `None` and the threads differ:

| Theorem | States |
|---|---|
| `Invariance` | `Spec => []IInv` |
| `TypeCorrect` | `Spec => []TypeOK` |
| `AllRegistered` | `Spec => []LiveThreadsRegistered` |
| `NoneOutlives` | `Spec => []NoThreadOutlivesModule` |
| `LookupIsSafe` | `Spec => []LookupFindsItself` |
| `RegistryStaysBounded` | `Spec => []RegistryBounded` |
| `SlotsAreOwned` | `Spec => SlotLeftOnlyByItsThread` |
| `Refinement` | `Spec => Host!Spec` |

The safety properties are not inductive.  `LiveThreadsRegistered` needs to know that
between creating a thread and storing it the spawner still holds the mutex
(`MutexHeld`) and that the slot it chose is still empty and inside the vector
(`ChildPending`); that the slot of a live thread is not shared needs
`SlotsHoldLiveThreads`; that nobody spawns when the last thread has gone needs
`SpawnersInWasm`, because a spawner is itself a registered thread or the host's own
thread inside a call.  `IInv` is their conjunction with the type invariant, checked by
`threads` and proved inductive action by action (`NextIInv`); the scan is the
step that needs all of it: when it finds no thread there is none, and no spawner.
`RegistryStaysBounded` counts: a spawner appends only if every slot holds a different
live thread and one thread is not alive.  `Refinement` maps `phase` to the host's own
program counter and `running` to the live threads.

`BridgeApi_proofs`, for any `Callers`, any finite set `Wclaps` and any natural
`Limits`, from `None` differing from callers and handles:

| Theorem | States |
|---|---|
| `Invariance` | `Spec => []IInv` |
| `TypeCorrect` | `Spec => []TypeOK` |
| `EpochThreadSafe` | `Spec => []EpochThreadUsesLiveEngine` |
| `InitIsConsistent` | `Spec => []InitConsistent` |
| `CountIsExact` | `Spec => []CountMatchesOpen` |
| `EngineStays` | `Spec => []EngineOutlivesWclaps` |
| `OpenIsSafe` | `Spec => []OpenFindsEngine` |

Its `IInv` adds to the properties who holds the mutex (`Owners`), what the engine, the
flag and the epoch thread are at each step of init and deinit (`EngineSteps`: the
thread has been joined, not only told to stop, when the engine goes), that a handle
being opened or closed has one caller (`Handles`), and what is left when the engine is
about to be deleted (`Sequential`).  The step that needs them together is `Decide`:
`abort()` tests the count, and a count of zero means that no WCLAP is constructed
(`CountMatchesOpen`) but not that none is half closed, since `wclap_close` counts down
before it destroys; that follows only because no close runs beside the deinit.  One
lemma per part of `IInv`, one step in it per action.

`InstanceCalls_proofs`, for any hosts and workers, any natural limits, any epoch length
and any bounds, from `TimeAssumption`, `NamesAssumption` and `SpentAssumption`:

| Theorem | States |
|---|---|
| `Invariance` | `Spec => []IInv` |
| `TypeCorrect` | `Spec => []TypeOK` |
| `NoCallCutShort` | `Spec => []NoEarlyTimeout` |
| `FirstErrorIsKept` | `Spec => FirstErrorStays` |

The invariant is one inequality (`InBudget`): for each call in WASM or in a host
function, the epochs it has spent and those left to its Instance's deadline add up to
at least the budget `timeLimitMs / 10 + 2`.  An epoch moves one from the right to the
left; a nested call or another thread's only raises what is left.  So a call that
meets the deadline has spent the budget; that the budget, less the epoch that may end
at once, covers the limit is a fact about integer division (`DivBound`,
`BudgetIsEnough`).  With one epoch less it fails, which is what the mutant of
`NoEarlyTimeout` shows.  `FirstErrorIsKept` needs only who writes the two halves of the
error (`ErrorSteps`).

`PluginRegistry_proofs`, for any plugins, WASM threads, arenas and indices, from 0 being
an index and `None` and `Main` being neither:

| Theorem | States |
|---|---|
| `Invariance` | `Spec => []IInv` |
| `TypeCorrect` | `Spec => []TypeOK` |
| `PluginStays` | `Spec => []PluginLivesThroughCallback` |
| `ReachesCaller` | `Spec => []CallbackReachesCaller` |
| `ArenasAreOwned` | `Spec => []ArenasHaveOneHolder` |
| `DestroyNeverAborts` | `Spec => []AbortMeansNotDestroyed` |

A host function's pointer stays good because its thread runs the code of a living
plugin, and a plugin is not deleted while it has threads: `CallersAreAlive` says both,
and that until an error nothing of a plugin that is being released runs.
`StepsAreAlive` says where the main thread is meanwhile.  That the look-up finds the
caller and no other rests on `ArenasHaveOneHolder`: `create_plugin` writes `host_data` only
in an arena that is no living plugin's (`ArenaIsOwn`), at an index that is free.

`PluginCalls_proofs`, for any finite set of pool workers and any depth of nesting, from
the actors' names being different (`HostAssumption`, `BoundAssumption`):

| Theorem | States |
|---|---|
| `Invariance` | `Spec => []IInv` |
| `TypeCorrect` | `Spec => []TypeOK` |
| `LocksStayBalanced` | `Spec => []LocksBalanced` |
| `OutEventsStayLive` | `Spec => []OutEventsAreLive` |
| `LocksExclude` | `Spec => []MutualExclusion` |
| `OwnListsAnswer` | `Spec => []OwnListNeverWaits` |

A recursive mutex has no owner of its own in a method: what says that a thread may
unlock is that some method on its stack locked it.  So the proof counts.  `Weight` of a
frame is 1 if it holds the mutex, `Changed`, `Entered` and `Left` say what the count of
a stack becomes when a frame changes, is pushed or popped, and `LockBalance` and
`UnlockBalance` that the depth follows.  The actions then differ only in the frame they
change.  The trap paths need no argument of their own: `WasmReturns` unlocks either way,
and `Leave` runs whatever the answer, which is what the two scope guards of the code do.
`LocksExclude` is the corollary a reader expects of mutexes, stated over the methods;
`OwnListsAnswer` says that a host function for a list or stream of a call in progress on
its own thread finds the mutex its own, whatever other threads do.

`BridgePlugin_proofs`, for any hosts, files, IDs, bounds and any disk, from `None` being
no host and versions being numbers:

| Theorem | States |
|---|---|
| `Invariance` | `Spec => []IInv` |
| `TypeCorrect` | `Spec => []TypeOK` |
| `InitMeansReady` | `Spec => []InitTrueMeansReady` |
| `EntriesRoute` | `Spec => []EntriesRouteToOwner` |
| `NewestListed` | `Spec => []NewestListedOnce` |
| `DeinitCloses` | `Spec => []DeinitClosesAll` |
| `Refinement` | `Spec => Factory!Spec` |

`Counted` is the centre: `initCounter` is the number of inits not undone (`Claims`, a
set with one element for each), plus one for a scan in progress, plus one for ever if
an init failed.  With `MutexHeld` (one host at a time is anywhere but idle) it tells who
is the first and who the last.  `Phases` says what engine and lists are at each step.
`NewestListedOnce` speaks of the only entry with an ID, so it needs `IdsUnique`, and the
one step that is more than bookkeeping is `CollectDuplicate`: an entry replaced by a
newer one still covers the descriptors that the old one covered, by transitivity of
versions.  `Refinement` adds where the factory stands in each phase (`PhaseOf`): it is
in use exactly when `initCounter` is above zero, unless an init failed.  It implies
that a host that got `true` finds the scan over; `InitMeansReady` adds that the engine is up.

`PluginData_proofs`, for any widths of pointers, any capacity, any events the host may
send and any lengths, from `SizeAssumption` and `EventAssumption`:

| Theorem | States |
|---|---|
| `Invariance` | `Spec => []IInv` |
| `TypeCorrect` | `Spec => []TypeOK` |
| `EventsAreKept` | `Spec => []EventsComeBack` |
| `TrueIsComplete` | `Spec => []TrueMeansComplete` |
| `StreamsStayApart` | `Spec => []StreamsNotMixed` |

A transfer goes to the call that asks for it because the member pointer is that call's
and not one of a call nested in it: `PointsTo` says so of each of the three, and the
lemmas `PointerOver...` that it outlives the calls begun and ended above it.  `Carries`
makes "true" mean complete: each transfer starts where the last one ended, so what has
arrived is always a prefix.  `Translates` does the same for events; that a list of
events comes back as it went in is proved for lists of every length, by induction over
the list in the form of a least counterexample (`LeastElement`, `SetInduction`), since
`InputEvents` flattens one result per event (`Flattened`, `InputMatches`).  One event
(`EventCrosses`, `EventReturns`) is a case for each way of translating.  Trying to prove
that showed a case distinction in `ToWasm` whose conditions overlapped; TLC takes the
first that holds, as the code's `switch` does, but TLA+ does not promise it, so they are
now exclusive.

Only model-checked: liveness under fairness, which is out of the prover's reach
(`CloseCompletes`, `SpawnReturns`, `GlobalCallsReturn`, `AudioReturns`, `MainReturns`,
`CallsReturn`, `StopReachesWorkers`), and the five counterexamples.  Every safety
property of a passing run has its theorem.

## 5. Not modelled, and the plan

Left out:

- Memory access: growth, the clamp of `wasmMemory` and the raw pointer it returns after
  the unlock.  What a thread then reads depends on where Wasmtime puts a grown memory,
  which the repository does not decide; a model would check a guess.
- Building a store from the Wasmtime C API beyond success or failure; struct copies of
  the extensions without state; audio buffers; string contents, paths and MIME types.
- `webviewSend` under a host that answers at once: the draft extension does not say
  whether one may.
- The text of a webview's URI, and with it the one character `webview_get_uri` reads at
  `uri[result]`; a start function of WASM code that spawns threads.
- The entry symbol, the stack-trace helper, the Rust declarations; the 32/64-bit double
  inclusion, which has no state.

In order:

1. Composition: PluginRegistry's WASM threads as those of WclapThreads, by a shared
   thread interface; InstanceCalls' deadline under the calls of PluginCalls.
2. An abstract specification of PluginData (a call that delivers all of what it was
   given or says that it did not), and of PluginRegistry (plugins that exist from
   `create_plugin` to `destroy`, and callbacks that reach them), with their refinements.
3. The stores: memory that grows under a pointer, if Wasmtime's behaviour can be stated.
