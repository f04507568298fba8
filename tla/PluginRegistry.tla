---------------------------- MODULE PluginRegistry ----------------------------
(***************************************************************************)
(* The plugins of one WclapModule, from create_plugin to destroy, and how  *)
(* a host function that WASM code calls finds the Plugin it is for: it     *)
(* reads an index from the wclap_host in WASM memory and looks it up in    *)
(* pluginList.  The host's main thread creates, initialises and destroys   *)
(* plugins and closes the module; the WASM threads that plugins start call *)
(* host functions beside it.                                               *)
(*                                                                         *)
(* External, and modelled from its use: pluginList (IndexLookup: retain    *)
(* takes a free index, release deletes the object) and arenaPool (an arena *)
(* is out of the pool while a scope or a Plugin has it).                   *)
(***************************************************************************)
EXTENDS Naturals

CONSTANTS Plugins,     \* Plugin objects, each made at most once
          Workers,     \* WASM threads that plugins start
          Arenas,      \* memory arenas of the module
          Indices,     \* indices of pluginList
          Main,        \* the host's main thread
          None

ASSUME NoneAssumption  == None \notin Plugins \cup Arenas \cup Indices
ASSUME MainAssumption  == Main \notin Workers
ASSUME IndexAssumption == 0 \in Indices

Threads == Workers \cup {Main}

VARIABLES
  factory,        \* pluginFactory: "none" yet, a "null" pointer, or "ready"
  failed,         \* InstanceGroup::hasError()
  pool,           \* arenas in arenaPool
  scope,          \* the arena of createPlugin's scope, or None
  hostData,       \* host_data of the wclap_host in each arena: an index
  pluginList,     \* the Plugin at each index, or None
  stage,          \* "new", "created", "inited", or "deleted", for each Plugin
  destroyCalled,
  arena,          \* the arena that each Plugin was made with: its wclap_host is there
  at,             \* what the main thread does: <<step, Plugin or None>>
  owner,          \* the plugin that started each WASM thread, or None
  callback,       \* each thread's host function has the Plugin it found, or None
  aborted         \* ~Plugin has called abort()

wasmVars   == <<owner, callback>>
pluginVars == <<pluginList, stage, destroyCalled, arena, hostData>>
vars == <<factory, failed, pool, scope, pluginVars, at, wasmVars, aborted>>

Alive == {p \in Plugins : stage[p] \in {"created", "inited"}}
Idle  == <<"idle", None>>
ThreadsOf(p) == {w \in Workers : owner[w] = p}

TypeOK ==
  /\ factory \in {"none", "null", "ready"} /\ failed \in BOOLEAN /\ aborted \in BOOLEAN
  /\ pool \subseteq Arenas /\ scope \in Arenas \cup {None}
  /\ hostData \in [Arenas -> Indices]
  /\ pluginList \in [Indices -> Plugins \cup {None}]
  /\ stage \in [Plugins -> {"new", "created", "inited", "deleted"}]
  /\ destroyCalled \in [Plugins -> BOOLEAN]
  /\ arena \in [Plugins -> Arenas \cup {None}]
  /\ at \in {"idle", "refused", "create", "init", "destroy", "release", "closing", "closed"}
              \X (Plugins \cup {None})
  /\ owner \in [Workers -> Plugins \cup {None}]
  /\ callback \in [Threads -> Plugins \cup {None}]
  /\ \A p \in Alive : p = pluginList[hostData[arena[p]]]

Init ==
  /\ factory = "none" /\ failed = FALSE /\ aborted = FALSE
  /\ pool = Arenas /\ scope = None
  /\ hostData = [a \in Arenas |-> 0]
  /\ pluginList = [i \in Indices |-> None]
  /\ stage = [p \in Plugins |-> "new"]
  /\ destroyCalled = [p \in Plugins |-> FALSE]
  /\ arena = [p \in Plugins |-> None]
  /\ at = Idle
  /\ owner = [w \in Workers |-> None]
  /\ callback = [t \in Threads |-> None]

\* A call into WASM returns, or it traps, times out or meets another's error.
MayFail == failed' \in {failed, TRUE}

-----------------------------------------------------------------------------
(* Mutants *)

Retain_KeepsHostData(p, a, i) ==        \* no setPlugin
  /\ pluginList' = [pluginList EXCEPT ![i] = p]
  /\ UNCHANGED hostData

Delete_KeepsArena(p, called) ==        \* no returnToPool
  /\ stage' = [stage EXCEPT ![p] = "deleted"]
  /\ aborted' = ~called
  /\ UNCHANGED <<pool, arena>>

Destroy_ReleaseFirst(p) ==        \* release before the WASM call
  /\ at = Idle /\ p \in Alive
  /\ at' = <<"release", p>>
  /\ UNCHANGED <<factory, failed, pool, scope, pluginVars, wasmVars, aborted>>

-----------------------------------------------------------------------------
(* The pieces of a Plugin's life that create_plugin and destroy share out *)

\* pluginList.retain(this), setPlugin(hostPtr, pluginListIndex).
Retain(p, a, i) ==
  /\ pluginList' = [pluginList EXCEPT ![i] = p]
  /\ hostData' = [hostData EXCEPT ![a] = i]

\* ~Plugin, called with destroyCalled or without: abort(), or the arena goes back.
Delete(p, called) ==
  /\ stage' = [stage EXCEPT ![p] = "deleted"]
  /\ aborted' = ~called
  /\ pool' = pool \cup {arena[p]}
  /\ UNCHANGED arena

DestroyReleases_FlagLast ==        \* destroyCalled is set after release
  /\ at[1] = "release"
  /\ destroyCalled' = [destroyCalled EXCEPT ![at[2]] = TRUE]
  /\ pluginList' = [i \in Indices |-> IF pluginList[i] = at[2] THEN None ELSE pluginList[i]]
  /\ Delete(at[2], destroyCalled[at[2]])
  /\ at' = Idle
  /\ UNCHANGED <<factory, failed, scope, hostData, wasmVars>>

\* getPlugin(context, host)
GetPlugin(a) == pluginList[hostData[a]]

-----------------------------------------------------------------------------
(* The main thread *)

\* getFactory: its first call asks the WASM entry for the factory and reads all
\* its descriptors.  The arena of its scope is back in the pool when it returns.
Enumerate == \/ failed /\ factory' = "null" /\ UNCHANGED failed
             \/ ~failed /\ factory' \in {"null", "ready"} /\ MayFail
GetFactory ==
  /\ at = Idle /\ factory = "none" /\ Enumerate
  /\ UNCHANGED <<pool, scope, pluginVars, at, wasmVars, aborted>>

\* create_plugin with an ID that has a descriptor (without one it changes
\* nothing): the scope's arena gets a copy of hostTemplate, whose host_data is 0.
CreatePlugin ==
  /\ at = Idle /\ factory = "ready" /\ \E p \in Plugins : stage[p] = "new"
  /\ \E a \in pool : /\ pool' = pool \ {a} /\ scope' = a
                     /\ hostData' = [hostData EXCEPT ![a] = 0]
  /\ at' = <<IF failed THEN "refused" ELSE "create", None>>
  /\ UNCHANGED <<factory, failed, pluginList, stage, destroyCalled, arena, wasmVars, aborted>>

\* The WASM call returns null, or is not made because of an error.
CreateFails ==
  /\ at[1] \in {"refused", "create"}
  /\ MayFail
  /\ pool' = pool \cup {scope} /\ scope' = None /\ at' = Idle
  /\ UNCHANGED <<factory, pluginVars, wasmVars, aborted>>

\* The Plugin takes over the arena (scoped.commit()) and starts its Instance.
Construct ==
  /\ at[1] = "create"
  /\ \E p \in Plugins, i \in Indices :
       /\ stage[p] = "new" /\ pluginList[i] = None
       /\ Retain(p, scope, i)
       /\ stage' = [stage EXCEPT ![p] = "created"]
       /\ arena' = [arena EXCEPT ![p] = scope]
  /\ MayFail /\ scope' = None /\ at' = Idle
  /\ UNCHANGED <<factory, pool, destroyCalled, wasmVars, aborted>>

\* pluginInit asks the host for its extensions and calls the WASM init(); the
\* plugin uses the host, and starts threads, from here on.
InitPlugin(p) ==
  /\ at = Idle /\ stage[p] = "created"
  /\ stage' = [stage EXCEPT ![p] = "inited"]
  /\ at' = IF failed THEN at ELSE <<"init", p>>
  /\ UNCHANGED <<factory, failed, pool, scope, pluginList, destroyCalled, arena, hostData,
                 wasmVars, aborted>>

InitReturns ==
  /\ at[1] = "init" /\ callback[Main] = None
  /\ MayFail /\ at' = Idle
  /\ UNCHANGED <<factory, pool, scope, pluginVars, wasmVars, aborted>>

\* pluginDestroy calls the WASM destroy(), which does nothing after an error.
Destroy(p) ==
  /\ at = Idle /\ p \in Alive
  /\ at' = IF failed THEN <<"release", p>> ELSE <<"destroy", p>>
  /\ UNCHANGED <<factory, failed, pool, scope, pluginVars, wasmVars, aborted>>

\* The WASM destroy() waits for the threads the plugin has started, or fails.
DestroyReturns ==
  /\ at[1] = "destroy" /\ callback[Main] = None
  /\ \/ ThreadsOf(at[2]) = {} /\ UNCHANGED failed
     \/ failed' = TRUE
  /\ at' = <<"release", at[2]>>
  /\ UNCHANGED <<factory, pool, scope, pluginVars, wasmVars, aborted>>

\* destroyCalled = true, then pluginList.release(pluginListIndex).
DestroyReleases ==
  /\ at[1] = "release"
  /\ destroyCalled' = [destroyCalled EXCEPT ![at[2]] = TRUE]
  /\ pluginList' = [i \in Indices |-> IF pluginList[i] = at[2] THEN None ELSE pluginList[i]]
  /\ Delete(at[2], destroyCalled'[at[2]])
  /\ at' = Idle
  /\ UNCHANGED <<factory, failed, scope, hostData, wasmVars>>

\* wclap_close stops the WASM threads (WclapThreads), then ~WclapModuleBase
\* deletes what is left in pluginList.
Close ==
  /\ at = Idle /\ at' = <<"closing", None>>
  /\ UNCHANGED <<factory, failed, pool, scope, pluginVars, wasmVars, aborted>>

CloseEnds ==
  /\ at[1] = "closing" /\ \A w \in Workers : owner[w] = None
  /\ IF Alive = {} THEN at' = <<"closed", None>> /\ UNCHANGED <<pluginVars, pool, aborted>>
     ELSE \E p \in Alive : /\ Delete(p, destroyCalled[p])
                           /\ UNCHANGED <<pluginList, destroyCalled, hostData, at>>
  /\ UNCHANGED <<factory, failed, scope, wasmVars>>

-----------------------------------------------------------------------------
(* WASM threads, and the host functions they and the main thread call *)

\* A plugin starts a thread from its init() on, in destroy() or a close only if it
\* has another one that does so; an error refuses it.
ThreadStarts(w, p) ==
  /\ owner[w] = None /\ ~failed
  /\ stage[p] = "inited"
  /\ at \in {<<"destroy", p>>, <<"release", p>>, <<"closing", None>>} => ThreadsOf(p) # {}
  /\ owner' = [owner EXCEPT ![w] = p]
  /\ UNCHANGED <<factory, failed, pool, scope, pluginVars, at, callback, aborted>>

\* It returns, traps, or wclap_close stops it: another's error does not.
ThreadEnds(w) ==
  /\ owner[w] # None /\ callback[w] = None
  /\ owner' = [owner EXCEPT ![w] = None]
  /\ MayFail
  /\ UNCHANGED <<factory, pool, scope, pluginVars, at, callback, aborted>>

\* The plugin whose WASM code a thread runs.  It passes the wclap_host that it got
\* from create_plugin.
Runs(t) == IF t # Main THEN owner[t]
           ELSE IF at[1] \in {"init", "destroy"} THEN at[2] ELSE None

\* Every host function begins with getPlugin, and returns if it finds none.
CallbackFinds(t) ==
  /\ Runs(t) # None /\ callback[t] = None
  /\ GetPlugin(arena[Runs(t)]) # None
  /\ callback' = [callback EXCEPT ![t] = GetPlugin(arena[Runs(t)])]
  /\ UNCHANGED <<factory, failed, pool, scope, pluginVars, at, owner, aborted>>

\* It then goes on to that Plugin's host, and returns to the WASM code.
CallbackForwards(t) ==
  /\ callback[t] # None
  /\ callback' = [callback EXCEPT ![t] = None]
  /\ UNCHANGED <<factory, failed, pool, scope, pluginVars, at, owner, aborted>>

-----------------------------------------------------------------------------
MainNext ==
  \/ GetFactory \/ CreatePlugin \/ CreateFails \/ Construct \/ InitReturns
  \/ DestroyReturns \/ DestroyReleases \/ Close \/ CloseEnds
  \/ \E p \in Plugins : InitPlugin(p) \/ Destroy(p)

WasmNext ==
  \/ \E w \in Workers : ThreadEnds(w) \/ (\E p \in Plugins : ThreadStarts(w, p))
  \/ \E t \in Threads : CallbackFinds(t) \/ CallbackForwards(t)

Stopped == (aborted \/ at[1] = "closed") /\ UNCHANGED vars

Next == \/ ~aborted /\ (MainNext \/ WasmNext)
        \/ Stopped

Spec == Init /\ [][Next]_vars

-----------------------------------------------------------------------------
(* Properties *)

\* The Plugin that a host function has found is not deleted under it: destroy()
\* has waited for the plugin's threads when pluginDestroy releases it
\* (wclap-plugin.h:272-276), unless an error kept destroy() from doing so.
PluginLivesThroughCallback ==
  \A t \in Threads : callback[t] # None => callback[t] \in Alive \/ failed

\* A host function reaches the plugin that called it, however indices and arenas
\* have been reused (wclap-module-base.h:84-124), with the same exception.
CallbackReachesCaller ==
  \A t \in Threads : callback[t] # None => callback[t] = Runs(t) \/ failed

\* An arena is in the pool, in createPlugin's scope, or with one Plugin, never in
\* two of these, and never lost, whichever way create_plugin and destroy end.
ArenasHaveOneHolder ==
  \A a \in Arenas :
    LET holders == {p \in Alive : arena[p] = a} IN
      /\ a \in pool  => a # scope /\ holders = {}
      /\ a = scope   => holders = {}
      /\ a \notin pool => a = scope \/ \E p \in holders : holders = {p}

\* ~Plugin aborts only for plugins that the host has not destroyed when it closes
\* the module (wclap-plugin.h:57-62): never in destroy, nor after it, not even
\* after an error.
AbortMeansNotDestroyed ==
  aborted => at[1] = "closing" /\ \E p \in Plugins : stage[p] = "deleted" /\ ~destroyCalled[p]

\* What makes them inductive: where the main thread is in the life of a plugin, and
\* that until an error WASM code runs only for plugins that are alive, and a
\* plugin being released has no thread left.
StepsAreAlive ==
  /\ scope # None <=> at[1] \in {"refused", "create"}
  /\ at[1] \in {"init", "destroy", "release"} => at[2] \in Alive
  /\ \A p \in Plugins : stage[p] # "new" => arena[p] \in Arenas
CallersAreAlive ==
  /\ \A t \in Threads : callback[t] # None => Runs(t) # None
  /\ \A w \in Workers : owner[w] # None => stage[owner[w]] # "new"
  /\ ~failed => /\ \A w \in Workers : owner[w] # None => owner[w] \in Alive
                /\ \A t \in Threads : callback[t] # None => callback[t] = Runs(t)
                /\ at[1] = "release" => ThreadsOf(at[2]) = {}
IInv == /\ TypeOK /\ ArenasHaveOneHolder /\ AbortMeansNotDestroyed
        /\ StepsAreAlive /\ CallersAreAlive

\* "Errors reported by wclap_get_error() are recoverable (in that you can
\* wclap_close(), with no memory corruptions or leaks)" (README.md:39): a host
\* function never goes on with a deleted Plugin, after an error either.
NoCallbackIntoDeletedPlugin ==
  \A t \in Threads : callback[t] # None => stage[callback[t]] # "deleted"
===============================================================================
