----------------------------- MODULE WclapThreads -----------------------------
(***************************************************************************)
(* The life of one WclapModule and of the OS threads its WASM code starts: *)
(* construction (_initialize, clap_entry.init), calls into the WASM code,  *)
(* wasi thread-spawn and its hook, the thread registry `threads` and its   *)
(* mutex, and the two destructors that close the module.                   *)
(*                                                                         *)
(* A critical section of threadMutex that touches nothing but state the    *)
(* mutex protects (and the atomic stop flags) is one action; those whose   *)
(* middle another thread can observe are split, and `mutex` names their    *)
(* holder.                                                                 *)
(***************************************************************************)
EXTENDS Integers, FiniteSets

CONSTANTS Threads,      \* OS threads that WASM code may have alive at once
          Main,         \* the host's thread, which opens and closes the module
          None,         \* an empty registry slot, a free mutex
          TimeLimited   \* wclap_global_init() was given a non-zero limit

ASSUME ThreadsAssumption == IsFiniteSet(Threads)
ASSUME ActorsAssumption  == /\ Main \notin Threads
                            /\ None \notin Threads \cup {Main}
ASSUME LimitAssumption   == TimeLimited \in BOOLEAN

Actors == Threads \cup {Main}

VARIABLES
  pc,           \* where each actor is in its own function
  spawn,        \* where each actor is in wtWasiThreadSpawn / wasiThreadSpawn
  child,        \* the thread a spawner started and has yet to store
  slot,         \* Thread::index of each thread, the `index` runThread was given
  stop,         \* requestStop() was called on the thread's Instance
  threads,      \* WclapModuleBase::threads, by C++ index 0..size-1
  size,         \* threads.size()
  mutex,        \* holder of threadMutex
  hookFn,       \* InstanceGroup::wasiThreadSpawn is not null
  hookCtx,      \* InstanceGroup::wasiThreadSpawnContext is not null
  hadInit,      \* InstanceGroup::hadInit
  groupError,   \* InstanceGroup's first error, "none" if !hasError()
  hasError,     \* WclapModuleBase::hasError
  fault         \* undefined behaviour: a call or load through a null pointer

errorVars    == <<groupError, hasError>>
hookVars     == <<hookFn, hookCtx>>
registryVars == <<threads, size, slot>>
vars == <<pc, spawn, child, stop, mutex, hadInit, fault,
          errorVars, hookVars, registryVars>>

-----------------------------------------------------------------------------
MainPc   == {"construct", "initialize", "entry", "entryInit", "open", "call",
             "close", "clearFn", "clearCtx", "scan", "destroyed"}
ThreadPc == {"none", "start", "entered", "wasm", "notInit", "finishing"}
SpawnPc  == {"idle", "checked", "called", "locked", "started"}
Errors   == {"none", "trap", "notInit", "noThreadStart", "terminated", "instance"}

\* One type invariant: the shape of every variable.
TypeOK ==
  /\ pc \in [Actors -> MainPc \cup ThreadPc]
  /\ pc[Main] \in MainPc
  /\ \A t \in Threads : pc[t] \in ThreadPc
  /\ spawn \in [Actors -> SpawnPc]
  /\ child \in [Actors -> Threads \cup {None}]
  /\ slot \in [Threads -> Nat]
  /\ stop \in [Threads -> BOOLEAN]
  /\ size \in Nat \ {0}
  /\ threads \in [0..size-1 -> Threads \cup {None}]
  /\ mutex \in Actors \cup {None}
  /\ hookFn \in BOOLEAN /\ hookCtx \in BOOLEAN
  /\ hadInit \in BOOLEAN
  /\ groupError \in Errors /\ hasError \in BOOLEAN
  /\ fault \in {"none", "nullHook", "nullThread"}

Init ==
  /\ pc = [a \in Actors |-> IF a = Main THEN "construct" ELSE "none"]
  /\ spawn = [a \in Actors |-> "idle"]
  /\ child = [a \in Actors |-> None]
  /\ slot = [t \in Threads |-> 0]
  /\ stop = [t \in Threads |-> FALSE]
  /\ threads = [i \in 0..0 |-> None]   \* slot 0 is a reserved thread ID
  /\ size = 1
  /\ mutex = None
  /\ hookFn = FALSE /\ hookCtx = FALSE
  /\ hadInit = FALSE
  /\ groupError = "none" /\ hasError = FALSE
  /\ fault = "none"

Goto(a, l) == pc' = [pc EXCEPT ![a] = l]

\* InstanceGroup::setError: the first error is kept.
SetGroupError(e) == groupError' = IF groupError = "none" THEN e ELSE groupError

\* The actors whose OS thread is executing WASM code (or a function it called).
InWasm(a) == IF a = Main THEN pc[Main] \in {"initialize", "entryInit", "call"}
                         ELSE pc[a] = "wasm"

LiveThreads == {t \in Threads : pc[t] # "none"}

\* The threads whose slots a scan of the registry finds occupied.
Registered == {threads[i] : i \in 0..size-1} \ {None}

-----------------------------------------------------------------------------
(* Mutants: plausible bugs that the runs must catch, one per property. *)

SpawnLock_Unlocked(a) ==        \* does not wait for threadMutex
  /\ spawn[a] = "called" /\ ~hasError
  /\ mutex' = a
  /\ spawn' = [spawn EXCEPT ![a] = "locked"]
  /\ UNCHANGED <<pc, child, stop, hadInit, fault, errorVars, hookVars, registryVars>>

SpawnFails_KeepsLock(a) ==      \* an early return that leaves the mutex locked
  /\ spawn[a] = "locked"
  /\ hasError' = TRUE
  /\ spawn' = [spawn EXCEPT ![a] = "idle"]
  /\ UNCHANGED <<pc, child, stop, mutex, hadInit, fault, groupError, hookVars, registryVars>>

FirstEmpty_Append(i) == i = size

FirstEmpty_OffByOne(i) == /\ i \in 1..size
                          /\ i < size => threads[i-1] = None
                          /\ \A j \in 1..(i-1) : threads[j-1] # None

RunLookup_Unlocked(t) ==        \* reads its slot without the lock
  /\ pc[t] = "start"
  /\ IF threads[slot[t]] = t
     THEN Goto(t, "entered") /\ UNCHANGED fault
     ELSE fault' = "nullThread" /\ UNCHANGED pc
  /\ UNCHANGED <<spawn, child, stop, mutex, hadInit, errorVars, hookVars, registryVars>>

Scan_Once ==                    \* asks the threads to stop, does not wait
  /\ pc[Main] = "scan" /\ mutex = None
  /\ stop' = [t \in Threads |-> stop[t] \/ t \in Registered]
  /\ Goto(Main, "destroyed")
  /\ UNCHANGED <<spawn, child, mutex, hadInit, fault, errorVars, hookVars, registryVars>>

Scan_LastOnly ==                \* allStopped is the last slot's answer
  /\ pc[Main] = "scan" /\ mutex = None
  /\ stop' = [t \in Threads |-> stop[t] \/ t \in Registered]
  /\ Goto(Main, IF threads[size-1] = None THEN "destroyed" ELSE "scan")
  /\ UNCHANGED <<spawn, child, mutex, hadInit, fault, errorVars, hookVars, registryVars>>

Scan_NoStop ==                  \* waits without requestStop()
  /\ pc[Main] = "scan" /\ mutex = None
  /\ Registered = {} /\ Goto(Main, "destroyed")
  /\ UNCHANGED <<spawn, child, stop, mutex, hadInit, fault, errorVars, hookVars, registryVars>>

-----------------------------------------------------------------------------
(* WclapModule::WclapModule *)

\* The base class or addHostFunctions failed: the module stays open, unusable.
ConstructFails ==
  /\ pc[Main] = "construct"
  /\ \E e \in {"none", "instance"} : SetGroupError(e)
  /\ hasError' = TRUE
  /\ Goto(Main, "open")
  /\ UNCHANGED <<spawn, child, stop, mutex, hadInit, fault, hookVars, registryVars>>

\* The hook is set before any WASM code has run; then init() takes the group lock.
ConstructSetsHook ==
  /\ pc[Main] = "construct"
  /\ hookFn' = TRUE /\ hookCtx' = TRUE
  /\ Goto(Main, "initialize")
  /\ UNCHANGED <<spawn, child, stop, mutex, hadInit, fault, errorVars, registryVars>>

\* _initialize() returned and clap_entry was found.
InitializeReturns ==
  /\ pc[Main] = "initialize" /\ spawn[Main] = "idle"
  /\ hadInit' = TRUE
  /\ Goto(Main, "entry")
  /\ UNCHANGED <<spawn, child, stop, mutex, fault, errorVars, hookVars, registryVars>>

\* _initialize() trapped or clap_entry is missing: entryPtr is null.
InitializeFails ==
  /\ pc[Main] = "initialize" /\ spawn[Main] = "idle"
  /\ SetGroupError("trap")
  /\ hasError' = TRUE
  /\ Goto(Main, "open")
  /\ UNCHANGED <<spawn, child, stop, mutex, hadInit, fault, hookVars, registryVars>>

\* clap_entry.init(): wtCall does not enter the WASM code of a failed group.
EntryInit ==
  /\ pc[Main] = "entry"
  /\ IF groupError = "none"
     THEN Goto(Main, "entryInit") /\ UNCHANGED hasError
     ELSE Goto(Main, "open") /\ hasError' = TRUE
  /\ UNCHANGED <<spawn, child, stop, mutex, hadInit, fault, groupError, hookVars, registryVars>>

\* It returned true: the constructor's last statement clears hasError.
EntryInitTrue ==
  /\ pc[Main] = "entryInit" /\ spawn[Main] = "idle"
  /\ hasError' = FALSE
  /\ Goto(Main, "open")
  /\ UNCHANGED <<spawn, child, stop, mutex, hadInit, fault, groupError, hookVars, registryVars>>

\* It returned false, or trapped (a trap is recorded by the group too).
EntryInitFalse ==
  /\ pc[Main] = "entryInit" /\ spawn[Main] = "idle"
  /\ groupError' = groupError \/ SetGroupError("trap")
  /\ hasError' = TRUE
  /\ Goto(Main, "open")
  /\ UNCHANGED <<spawn, child, stop, mutex, hadInit, fault, hookVars, registryVars>>

-----------------------------------------------------------------------------
(* The host's calls: any CLAP method, and wclap_get_error from any thread *)

HostCall ==
  /\ pc[Main] = "open" /\ groupError = "none"
  /\ Goto(Main, "call")
  /\ UNCHANGED <<spawn, child, stop, mutex, hadInit, fault, errorVars, hookVars, registryVars>>

HostCallEnds ==
  /\ pc[Main] = "call" /\ spawn[Main] = "idle"
  /\ groupError' = groupError \/ SetGroupError("trap")
  /\ Goto(Main, "open")
  /\ UNCHANGED <<spawn, child, stop, mutex, hadInit, fault, hasError, hookVars, registryVars>>

\* getError copies an error of the group to the module.
GetError ==
  /\ pc[Main] \in {"open", "call"}
  /\ ~hasError /\ groupError # "none"
  /\ hasError' = TRUE
  /\ UNCHANGED <<pc, spawn, child, stop, mutex, hadInit, fault, groupError, hookVars, registryVars>>

-----------------------------------------------------------------------------
(* wasi thread-spawn, called by WASM code of any actor *)

\* Bound: the WASM code asks for no more threads than there are in Threads.
Spawners == {a \in Actors : spawn[a] \in {"checked", "called", "locked"}}
SpawnBudget == Cardinality(LiveThreads) + Cardinality(Spawners) < Cardinality(Threads)

\* The unlocked test of the hook; a cleared hook answers -1 and changes nothing.
SpawnCheck(a) ==
  /\ InWasm(a) /\ spawn[a] = "idle" /\ SpawnBudget
  /\ hookFn
  /\ spawn' = [spawn EXCEPT ![a] = "checked"]
  /\ UNCHANGED <<pc, child, stop, mutex, hadInit, fault, errorVars, hookVars, registryVars>>

\* The call through the hook.  Its loads race with the destructor's stores:
\* each may give what the test saw, or the present value.
SpawnCall(a) ==
  /\ spawn[a] = "checked"
  /\ \E fn \in {TRUE, hookFn}, ctx \in {TRUE, hookCtx} :
       IF fn /\ ctx
       THEN spawn' = [spawn EXCEPT ![a] = "called"] /\ UNCHANGED fault
       ELSE fault' = "nullHook" /\ UNCHANGED spawn
  /\ UNCHANGED <<pc, child, stop, mutex, hadInit, errorVars, hookVars, registryVars>>

\* A module with an error refuses before it takes the lock.
SpawnRefused(a) ==
  /\ spawn[a] = "called" /\ hasError
  /\ spawn' = [spawn EXCEPT ![a] = "idle"]
  /\ UNCHANGED <<pc, child, stop, mutex, hadInit, fault, errorVars, hookVars, registryVars>>

\* startInstance, and in it the WASM start function of the new Instance, runs under the
\* mutex, between this step and SpawnFails or SpawnStart.  That function is assumed
\* not to spawn: its spawner would wait for a mutex its own thread holds.
SpawnLock(a) ==
  /\ spawn[a] = "called" /\ ~hasError
  /\ mutex = None
  /\ mutex' = a
  /\ spawn' = [spawn EXCEPT ![a] = "locked"]
  /\ UNCHANGED <<pc, child, stop, hadInit, fault, errorVars, hookVars, registryVars>>

\* No Instance, its setup failed, or a host function could not be registered
\* (as is always so once the group has an error).
SpawnFails(a) ==
  /\ spawn[a] = "locked"
  /\ groupError' = groupError \/ SetGroupError("instance")
  /\ hasError' = TRUE
  /\ mutex' = None
  /\ spawn' = [spawn EXCEPT ![a] = "idle"]
  /\ UNCHANGED <<pc, child, stop, hadInit, fault, hookVars, registryVars>>

\* The first empty index from 1 up, size itself if there is none.
FirstEmpty(i) == /\ i \in 1..size
                 /\ i < size => threads[i] = None
                 /\ \A j \in 1..(i-1) : threads[j] # None

\* std::thread{runThread, this, index} runs before the slot holds the Thread.
SpawnStart(a) ==
  /\ spawn[a] = "locked" /\ groupError = "none"
  /\ \E t \in Threads, i \in 1..size :
       /\ pc[t] = "none" /\ FirstEmpty(i)
       /\ Goto(t, "start")
       /\ slot' = [slot EXCEPT ![t] = i]
       /\ stop' = [stop EXCEPT ![t] = FALSE]
       /\ child' = [child EXCEPT ![a] = t]
       /\ size' = IF i = size THEN size + 1 ELSE size
       /\ threads' = [j \in 0..size'-1 |-> IF j < size THEN threads[j] ELSE None]
  /\ spawn' = [spawn EXCEPT ![a] = "started"]
  /\ UNCHANGED <<mutex, hadInit, fault, errorVars, hookVars>>

SpawnStore(a) ==
  /\ spawn[a] = "started"
  /\ threads' = [threads EXCEPT ![slot[child[a]]] = child[a]]
  /\ child' = [child EXCEPT ![a] = None]
  /\ mutex' = None
  /\ spawn' = [spawn EXCEPT ![a] = "idle"]
  /\ UNCHANGED <<pc, stop, hadInit, fault, slot, size, errorVars, hookVars>>

-----------------------------------------------------------------------------
(* WclapModuleBase::runThread and InstanceImpl::runThread *)

\* Look ourselves up in the registry, under its lock.
RunLookup(t) ==
  /\ pc[t] = "start" /\ mutex = None
  /\ IF threads[slot[t]] = t
     THEN Goto(t, "entered") /\ UNCHANGED fault
     ELSE fault' = "nullThread" /\ UNCHANGED pc
  /\ UNCHANGED <<spawn, child, stop, mutex, hadInit, errorVars, hookVars, registryVars>>

\* The unlocked test of hadInit, then the call of wasi_thread_start.
RunCheckInit(t) ==
  /\ pc[t] = "entered"
  /\ Goto(t, IF hadInit THEN "wasm" ELSE "notInit")
  /\ UNCHANGED <<spawn, child, stop, mutex, hadInit, fault, errorVars, hookVars, registryVars>>

\* wasi_thread_start is not exported, or is not a function.
RunNoEntry(t) ==
  /\ pc[t] = "entered" /\ hadInit
  /\ SetGroupError("noThreadStart")
  /\ Goto(t, "finishing")
  /\ UNCHANGED <<spawn, child, stop, mutex, hadInit, fault, hasError, hookVars, registryVars>>

\* setError waits for the group lock, which init() holds while _initialize runs.
RunNotInit(t) ==
  /\ pc[t] = "notInit" /\ pc[Main] # "initialize"
  /\ SetGroupError("notInit")
  /\ Goto(t, "finishing")
  /\ UNCHANGED <<spawn, child, stop, mutex, hadInit, fault, hasError, hookVars, registryVars>>

\* wasi_thread_start returns or traps.
WasmEnds(t) ==
  /\ pc[t] = "wasm" /\ spawn[t] = "idle"
  /\ groupError' = groupError \/ SetGroupError("trap")
  /\ Goto(t, "finishing")
  /\ UNCHANGED <<spawn, child, stop, mutex, hadInit, fault, hasError, hookVars, registryVars>>

\* continueChecker, at an epoch deadline: there is one only with a time limit.
EpochStop(t) ==
  /\ pc[t] = "wasm" /\ spawn[t] = "idle"
  /\ TimeLimited /\ stop[t]
  /\ SetGroupError("terminated")
  /\ Goto(t, "finishing")
  /\ UNCHANGED <<spawn, child, stop, mutex, hadInit, fault, hasError, hookVars, registryVars>>

\* Detach and remove ourselves from the registry; the OS thread ends.
FinishRemove(t) ==
  /\ pc[t] = "finishing" /\ mutex = None
  /\ threads' = [threads EXCEPT ![slot[t]] = None]
  /\ Goto(t, "none")
  /\ UNCHANGED <<spawn, child, stop, mutex, hadInit, fault, slot, size, errorVars, hookVars>>

-----------------------------------------------------------------------------
(* wclap_close: ~WclapModule, then ~WclapModuleBase *)

Close ==
  /\ pc[Main] = "open"
  /\ Goto(Main, "close")
  /\ UNCHANGED <<spawn, child, stop, mutex, hadInit, fault, errorVars, hookVars, registryVars>>

CloseLock ==
  /\ pc[Main] = "close" /\ mutex = None
  /\ mutex' = Main
  /\ Goto(Main, "clearFn")
  /\ UNCHANGED <<spawn, child, stop, hadInit, fault, errorVars, hookVars, registryVars>>

ClearFn ==
  /\ pc[Main] = "clearFn"
  /\ hookFn' = FALSE
  /\ Goto(Main, "clearCtx")
  /\ UNCHANGED <<spawn, child, stop, mutex, hadInit, fault, hookCtx, errorVars, registryVars>>

ClearCtx ==
  /\ pc[Main] = "clearCtx"
  /\ hookCtx' = FALSE
  /\ mutex' = None
  /\ Goto(Main, "scan")
  /\ UNCHANGED <<spawn, child, stop, hadInit, fault, hookFn, errorVars, registryVars>>

\* checkThreadsStopped: ask every registered thread to stop; with none the
\* destructor goes on and the module is gone, else it yields and scans again.
Scan ==
  /\ pc[Main] = "scan" /\ mutex = None
  /\ stop' = [t \in Threads |-> stop[t] \/ t \in Registered]
  /\ Goto(Main, IF Registered = {} THEN "destroyed" ELSE "scan")
  /\ UNCHANGED <<spawn, child, mutex, hadInit, fault, errorVars, hookVars, registryVars>>

-----------------------------------------------------------------------------
\* The host is done with the module, or the process has crashed.
Terminated == (pc[Main] = "destroyed" \/ fault # "none") /\ UNCHANGED vars

MainStep ==
  \/ ConstructFails \/ ConstructSetsHook \/ InitializeReturns \/ InitializeFails
  \/ EntryInit \/ EntryInitTrue \/ EntryInitFalse
  \/ HostCall \/ HostCallEnds \/ GetError
  \/ Close \/ CloseLock \/ ClearFn \/ ClearCtx \/ Scan

SpawnStep(a) ==
  \/ SpawnCheck(a) \/ SpawnCall(a) \/ SpawnRefused(a) \/ SpawnLock(a)
  \/ SpawnFails(a) \/ SpawnStart(a) \/ SpawnStore(a)

ThreadStep(t) ==
  \/ RunLookup(t) \/ RunCheckInit(t) \/ RunNoEntry(t) \/ RunNotInit(t)
  \/ WasmEnds(t) \/ EpochStop(t) \/ FinishRemove(t)

Next ==
  \/ /\ fault = "none"
     /\ \/ MainStep
        \/ \E a \in Actors : SpawnStep(a)
        \/ \E t \in Threads : ThreadStep(t)
  \/ Terminated

Spec == Init /\ [][Next]_vars

-----------------------------------------------------------------------------
(***************************************************************************)
(* Fairness.  A host in wclap_close, an OS thread in the bridge's own code *)
(* and a spawner keep running, and no one starves for threadMutex.  WASM   *)
(* code need not do anything, but one that loops meets its epoch deadline  *)
(* (EpochStop).  Nothing makes WASM code return, spawn, or the host call.  *)
(***************************************************************************)
Sane(A) == fault = "none" /\ A

CloseFairness ==
  /\ SF_vars(Sane(CloseLock)) /\ WF_vars(Sane(ClearFn))
  /\ WF_vars(Sane(ClearCtx))  /\ SF_vars(Sane(Scan))

SpawnFairness(a) ==
  /\ WF_vars(Sane(SpawnCall(a)))
  /\ SF_vars(Sane(SpawnRefused(a) \/ SpawnLock(a)))
  /\ WF_vars(Sane(SpawnFails(a) \/ SpawnStart(a)))
  /\ WF_vars(Sane(SpawnStore(a)))

ThreadFairness(t) ==
  /\ SF_vars(Sane(RunLookup(t))) /\ WF_vars(Sane(RunCheckInit(t)))
  /\ WF_vars(Sane(RunNotInit(t))) /\ WF_vars(Sane(EpochStop(t)))
  /\ SF_vars(Sane(FinishRemove(t)))

FairSpec == /\ Spec /\ CloseFairness
            /\ \A a \in Actors : SpawnFairness(a)
            /\ \A t \in Threads : ThreadFairness(t)

-----------------------------------------------------------------------------
(* Safety *)

\* Every OS thread is in the registry under the index it was given, or its
\* spawner holds the mutex and is about to store it there: the destructor's
\* scan (wclap-module-base.h:65-75) can miss none.
LiveThreadsRegistered ==
  \A t \in LiveThreads :
    /\ slot[t] \in 1..size-1
    /\ \/ threads[slot[t]] = t
       \/ \E a \in Actors : /\ spawn[a] = "started" /\ child[a] = t /\ mutex = a
                             /\ threads[slot[t]] = None /\ pc[t] = "start"

\* When ~WclapModuleBase returns no thread is left that could still use the
\* module: "The thread vector doesn't get destroyed until all the threads
\* have stopped" (wclap-module-base.h:183).
NoThreadOutlivesModule == pc[Main] = "destroyed" => LiveThreads = {}

\* runThread, which starts before the registry holds its Thread
\* (wclap-module.h:240-245), never finds an empty or another's slot.
LookupFindsItself == fault # "nullThread"

\* The invariant the theorems rest on: who holds the mutex, where a spawner
\* can be, what it is about to store, and that a slot's Thread is alive and
\* knows its index.
MutexHeld ==
  /\ \A a \in Actors : spawn[a] \in {"locked", "started"} => mutex = a
  /\ pc[Main] \in {"clearFn", "clearCtx"} => mutex = Main

SpawnersInWasm == \A a \in Actors : spawn[a] # "idle" => InWasm(a)

ChildPending ==
  \A a \in Actors : spawn[a] = "started" =>
    /\ child[a] \in Threads /\ pc[child[a]] = "start"
    /\ slot[child[a]] \in 1..size-1 /\ threads[slot[child[a]]] = None

SlotsHoldLiveThreads ==
  \A i \in 0..size-1 : threads[i] # None =>
    pc[threads[i]] # "none" /\ slot[threads[i]] = i

IInv == /\ TypeOK
        /\ MutexHeld
        /\ SpawnersInWasm
        /\ ChildPending
        /\ SlotsHoldLiveThreads
        /\ LiveThreadsRegistered
        /\ NoThreadOutlivesModule
        /\ LookupFindsItself

\* Slots are reused: the registry never grows past the most threads alive.
RegistryBounded == size <= Cardinality(Threads) + 1

\* A Thread leaves its slot only by its own end, never by a spawner that
\* takes the slot over: the pointer runThread holds unlocked stays valid.
SlotLeftOnlyByItsThread ==
  [][\A i \in 0..size-1 :
       threads[i] # None /\ threads'[i] # threads[i] =>
         threads'[i] = None /\ pc[threads[i]] = "finishing" /\ pc'[threads[i]] = "none"]_vars

\* The module as its host sees it: see ThreadHost.
Phase == CASE pc[Main] \in {"close", "clearFn", "clearCtx", "scan"} -> "closing"
           [] pc[Main] = "destroyed" -> "closed"
           [] OTHER -> "open"

Host == INSTANCE ThreadHost WITH phase <- Phase, running <- LiveThreads

\* Threads start in an open module, while it closes only beside one that
\* still runs, and never once it is gone.
ImplementsThreadHost == Host!Spec

-----------------------------------------------------------------------------
(* Liveness *)

\* wclap_close returns, whatever the WASM threads do, under a time limit (no WASM
\* start function spawning: see SpawnLock).
CloseCompletes == pc[Main] = "close" ~> (pc[Main] = "destroyed" \/ fault # "none")

\* A spawner never waits for ever: the mutex is released on every path, if no WASM
\* start function spawns (see SpawnLock).
SpawnReturns ==
  \A a \in Actors : spawn[a] # "idle" ~> (spawn[a] = "idle" \/ fault # "none")

-----------------------------------------------------------------------------
(* What the repository says and the code does not keep; see README.md. *)

\* "Prevent any new threads from spawning after this point" (wclap-module.h:62):
\* once the hook is cleared no thread starts, and a spawner that finds the hook
\* missing gets -1 (wclap-instance-wasmtime.cpp:369-371), not a call through null.
NoSpawnAfterHookCleared ==
  [][~hookFn /\ pc[Main] \in {"clearCtx", "scan"} =>
       /\ fault' # "nullHook"
       /\ \A t \in Threads : pc[t] = "none" => pc'[t] = "none"]_vars
===============================================================================
