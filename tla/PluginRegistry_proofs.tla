------------------------- MODULE PluginRegistry_proofs -------------------------
(***************************************************************************)
(* For any plugins, WASM threads, arenas and indices: host functions reach *)
(* their own, live plugin until an error, an arena has one holder, and     *)
(* destroying a plugin never aborts.                                       *)
(***************************************************************************)
EXTENDS PluginRegistry, TLAPS

-----------------------------------------------------------------------------
(* The main thread's steps *)

LEMMA StepNames ==
  ASSUME TypeOK
  PROVE  /\ at = <<at[1], at[2]>>
         /\ at[1] \in {"idle", "refused", "create", "init", "destroy", "release", "closing", "closed"}
         /\ at[2] \in Plugins \cup {None}
         /\ at = Idle => at[1] = "idle" /\ at[2] = None
         /\ \A s, p : at = <<s, p>> <=> at[1] = s /\ at[2] = p
  BY DEF TypeOK, Idle

LEMMA AliveIs == \A p : p \in Alive <=> p \in Plugins /\ stage[p] \in {"created", "inited"}
  BY DEF Alive

LEMMA AliveNext == \A p : p \in Alive' <=> p \in Plugins /\ stage'[p] \in {"created", "inited"}
  BY DEF Alive

LEMMA PlaceIs ==
  ASSUME TypeOK, StepsAreAlive, NEW p \in Alive
  PROVE  /\ p \in Plugins /\ arena[p] \in Arenas /\ hostData[arena[p]] \in Indices
         /\ pluginList[hostData[arena[p]]] = p /\ p # None
  <1>1. p \in Plugins /\ stage[p] # "new" /\ p # None  BY NoneAssumption, AliveIs
  <1> QED BY <1>1 DEF TypeOK, StepsAreAlive

\* An arena of a living plugin is neither in the pool, nor in the scope, nor another's.
LEMMA ArenaIsOwn ==
  ASSUME TypeOK, StepsAreAlive, ArenasHaveOneHolder, NEW p \in Alive
  PROVE  /\ arena[p] \notin pool /\ arena[p] # scope
         /\ \A q \in Alive : arena[q] = arena[p] => q = p
  <1>1. arena[p] \in Arenas  BY PlaceIs
  <1> DEFINE holders == {q \in Alive : arena[q] = arena[p]}
  <1>2. p \in holders  OBVIOUS
  <1>3. arena[p] \notin pool /\ arena[p] # scope
    BY <1>1, <1>2 DEF ArenasHaveOneHolder
  <1>4. \E q \in holders : holders = {q}
    BY <1>1, <1>3 DEF ArenasHaveOneHolder
  <1> QED BY <1>2, <1>3, <1>4

-----------------------------------------------------------------------------
(* What a step has to show *)

FactoryStates == {"none", "null", "ready"}
AtStates == {"idle", "refused", "create", "init", "destroy", "release", "closing", "closed"}
              \X (Plugins \cup {None})

\* A step that leaves the plugins' lives and arenas alone.
LEMMA QuietFrame ==
  ASSUME IInv, UNCHANGED <<pool, scope, pluginVars, aborted>>, aborted => at' = at,
         factory' \in FactoryStates, failed' \in BOOLEAN, at' \in AtStates,
         owner' \in [Workers -> Plugins \cup {None}],
         callback' \in [Threads -> Plugins \cup {None}], StepsAreAlive', CallersAreAlive'
  PROVE  IInv'
  <1> USE DEF IInv, pluginVars
  <1>1. Alive' = Alive  BY DEF Alive
  <1>2. ArenasHaveOneHolder'  BY <1>1 DEF ArenasHaveOneHolder
  <1>3. AbortMeansNotDestroyed'  BY DEF AbortMeansNotDestroyed
  <1>4. TypeOK'  BY <1>1 DEF TypeOK, FactoryStates, AtStates
  <1> QED BY <1>2, <1>3, <1>4

\* A step of a WASM thread or a host function.
LEMMA WasmFrame ==
  ASSUME IInv, UNCHANGED <<factory, pool, scope, pluginVars, at, aborted>>,
         failed' \in BOOLEAN, owner' \in [Workers -> Plugins \cup {None}],
         callback' \in [Threads -> Plugins \cup {None}], CallersAreAlive'
  PROVE  IInv'
  <1> USE DEF IInv, pluginVars
  <1>1. Alive' = Alive  BY DEF Alive
  <1>2. StepsAreAlive'  BY <1>1 DEF StepsAreAlive
  <1>3. factory' \in FactoryStates /\ at' \in AtStates  BY DEF TypeOK, FactoryStates, AtStates
  <1> QED BY <1>2, <1>3, QuietFrame

\* A step of the main thread, which leaves WASM threads and host functions alone.
LEMMA CallersFrame ==
  ASSUME IInv, UNCHANGED wasmVars, failed' \in {failed, TRUE},
         callback[Main] # None => Runs(Main)' = Runs(Main),
         \A p \in Plugins : stage[p] # "new" => stage'[p] # "new",
         ~failed' => \A w \in Workers : owner[w] # None => owner[w] \in Alive',
         ~failed' /\ at'[1] = "release" => ThreadsOf(at'[2]) = {}
  PROVE  CallersAreAlive'
  <1> USE DEF IInv, wasmVars
  <1>1. failed \in BOOLEAN /\ owner \in [Workers -> Plugins \cup {None}]  BY DEF TypeOK
  <1>2. \A t \in Threads : callback[t] # None => Runs(t)' = Runs(t)
    BY DEF Runs, Threads
  <1>3. ThreadsOf(at[2])' = ThreadsOf(at'[2])  BY DEF ThreadsOf
  <1>4. \A w \in Workers : owner[w] # None => stage'[owner[w]] # "new"
    BY <1>1 DEF CallersAreAlive
  <1>5. ~failed' => ~failed  BY <1>1
  <1> QED BY <1>2, <1>3, <1>4, <1>5 DEF CallersAreAlive

\* Outside init() and destroy() the main thread is in no host function.
LEMMA MainIsOutside ==
  ASSUME IInv, at[1] \notin {"init", "destroy"}
  PROVE  callback[Main] = None
  <1>1. Main \in Threads /\ Runs(Main) = None  BY DEF Threads, Runs
  <1> QED BY <1>1 DEF IInv, CallersAreAlive

-----------------------------------------------------------------------------
(* WASM threads and the host functions *)

LEMMA ThreadStartsIInv ==
  ASSUME IInv, NEW w \in Workers, NEW p \in Plugins, ThreadStarts(w, p)
  PROVE  IInv'
  <1> USE DEF IInv
  <1>1. /\ UNCHANGED <<failed, callback, stage, at>> /\ ~failed
        /\ owner' = [owner EXCEPT ![w] = p] /\ owner[w] = None
        /\ p \in Alive /\ stage[p] # "new"
    BY AliveIs DEF ThreadStarts, pluginVars
  <1>2. /\ failed \in BOOLEAN /\ owner \in [Workers -> Plugins \cup {None}]
        /\ callback \in [Threads -> Plugins \cup {None}]
    BY DEF TypeOK
  <1>3. owner' \in [Workers -> Plugins \cup {None}]  BY <1>1, <1>2
  <1>4. Alive' = Alive  BY <1>1 DEF Alive
  <1>5. CallersAreAlive'
    <2>1. \A t \in Threads : callback[t] # None => Runs(t)' = Runs(t)
      <3> SUFFICES ASSUME NEW t \in Threads, callback[t] # None PROVE Runs(t)' = Runs(t)
        OBVIOUS
      <3>1. Runs(t) # None  BY DEF CallersAreAlive
      <3> QED BY <1>1, <1>2, <3>1 DEF Runs, Threads
    <2>2. \A v \in Workers : owner'[v] # None => owner'[v] \in Alive' /\ stage'[owner'[v]] # "new"
      BY <1>1, <1>2, <1>4 DEF CallersAreAlive
    <2>3. at[1] = "release" => ThreadsOf(at[2])' = {}
      <3> SUFFICES ASSUME at[1] = "release" PROVE ThreadsOf(at[2])' = {}  OBVIOUS
      <3>1. ThreadsOf(at[2]) = {}  BY <1>1 DEF CallersAreAlive
      <3>2. p # at[2]
        <4> SUFFICES ASSUME p = at[2] PROVE FALSE  OBVIOUS
        <4>1. at = <<"release", p>>  BY StepNames
        <4> QED BY <3>1, <4>1 DEF ThreadStarts
      <3> QED BY <1>1, <1>2, <3>1, <3>2 DEF ThreadsOf
    <2> QED BY <1>1, <2>1, <2>2, <2>3 DEF CallersAreAlive
  <1> QED BY <1>1, <1>2, <1>3, <1>5, WasmFrame DEF ThreadStarts

LEMMA ThreadEndsIInv ==
  ASSUME IInv, NEW w \in Workers, ThreadEnds(w)
  PROVE  IInv'
  <1> USE DEF IInv
  <1>1. /\ failed' \in {failed, TRUE} /\ UNCHANGED <<callback, stage, at>>
        /\ callback[w] = None /\ owner' = [owner EXCEPT ![w] = None]
    BY DEF ThreadEnds, MayFail, pluginVars
  <1>2. /\ failed \in BOOLEAN /\ owner \in [Workers -> Plugins \cup {None}]
        /\ callback \in [Threads -> Plugins \cup {None}]
    BY DEF TypeOK
  <1>3. owner' \in [Workers -> Plugins \cup {None}] /\ failed' \in BOOLEAN
    BY <1>1, <1>2
  <1>4. Alive' = Alive  BY <1>1 DEF Alive
  <1>5. CallersAreAlive'
    <2>1. \A t \in Threads : callback[t] # None => Runs(t)' = Runs(t)
      <3> SUFFICES ASSUME NEW t \in Threads, callback[t] # None PROVE Runs(t)' = Runs(t)
        OBVIOUS
      <3>1. t # w  BY <1>1
      <3> QED BY <1>1, <1>2, <3>1 DEF Runs, Threads
    <2>2. \A v \in Workers : owner'[v] # None => owner'[v] = owner[v]
      BY <1>1, <1>2
    <2>3. at[1] = "release" => (~failed => ThreadsOf(at[2])' = {})
      <3> SUFFICES ASSUME at[1] = "release", ~failed PROVE ThreadsOf(at[2])' = {}  OBVIOUS
      <3>1. ThreadsOf(at[2]) = {}  BY DEF CallersAreAlive
      <3>2. at[2] # None  BY PlaceIs DEF StepsAreAlive
      <3> QED BY <1>1, <1>2, <3>1, <3>2 DEF ThreadsOf
    <2>4. ~failed' => ~failed  BY <1>1, <1>2
    <2> QED BY <1>1, <1>4, <2>1, <2>2, <2>3, <2>4 DEF CallersAreAlive
  <1> QED BY <1>1, <1>2, <1>3, <1>5, WasmFrame DEF ThreadEnds

\* The plugin whose code runs has had an arena; until an error it is alive.
LEMMA RunsIs ==
  ASSUME IInv, NEW t \in Threads, Runs(t) # None
  PROVE  /\ Runs(t) \in Plugins /\ stage[Runs(t)] # "new"
         /\ ~failed => Runs(t) \in Alive
  <1> USE DEF IInv
  <1>1. CASE t = Main
    <2>1. Runs(t) = at[2] /\ at[2] \in Alive  BY <1>1 DEF Runs, StepsAreAlive
    <2> QED BY <2>1, AliveIs
  <1>2. CASE t # Main
    <2>1. Runs(t) = owner[t] /\ t \in Workers  BY <1>2 DEF Runs, Threads
    <2> QED BY <2>1 DEF CallersAreAlive, TypeOK
  <1> QED BY <1>1, <1>2

LEMMA CallbackIInv ==
  ASSUME IInv, NEW t \in Threads, CallbackFinds(t) \/ CallbackForwards(t)
  PROVE  IInv'
  <1> USE DEF IInv
  <1>1. PICK found \in Plugins \cup {None} :
          /\ callback' = [callback EXCEPT ![t] = found]
          /\ found # None => Runs(t) # None /\ (~failed => found = Runs(t))
    <2>1. CASE CallbackFinds(t)
      <3>1. Runs(t) # None /\ callback' = [callback EXCEPT ![t] = GetPlugin(arena[Runs(t)])]
        BY <2>1 DEF CallbackFinds
      <3>2. Runs(t) \in Plugins /\ arena[Runs(t)] \in Arenas
        BY <3>1, RunsIs DEF StepsAreAlive
      <3>3. GetPlugin(arena[Runs(t)]) \in Plugins \cup {None}
        BY <3>2 DEF GetPlugin, TypeOK
      <3>4. ~failed => GetPlugin(arena[Runs(t)]) = Runs(t)
        BY <3>1, RunsIs, PlaceIs DEF GetPlugin
      <3> QED BY <3>1, <3>3, <3>4
    <2>2. CASE CallbackForwards(t)  BY <2>2 DEF CallbackForwards
    <2> QED BY <2>1, <2>2
  <1>2. UNCHANGED <<factory, failed, pool, scope, pluginVars, at, owner, aborted>>
    BY DEF CallbackFinds, CallbackForwards
  <1>3. callback \in [Threads -> Plugins \cup {None}]  BY DEF TypeOK
  <1>4. callback' \in [Threads -> Plugins \cup {None}]  BY <1>1, <1>3
  <1>5. CallersAreAlive'
    <2>1. \A u \in Threads : Runs(u)' = Runs(u)  BY <1>2 DEF Runs
    <2>2. Alive' = Alive /\ stage' = stage /\ \A p : ThreadsOf(p)' = ThreadsOf(p)
      BY <1>2 DEF Alive, pluginVars, ThreadsOf
    <2>3. \A u \in Threads : callback'[u] # None =>
            Runs(u) # None /\ (~failed => callback'[u] = Runs(u))
      BY <1>1, <1>3 DEF CallersAreAlive
    <2> QED BY <1>2, <2>1, <2>2, <2>3 DEF CallersAreAlive
  <1>6. failed' \in BOOLEAN /\ owner' \in [Workers -> Plugins \cup {None}]
    BY <1>2 DEF TypeOK
  <1> QED BY <1>2, <1>4, <1>5, <1>6, WasmFrame

-----------------------------------------------------------------------------
(* The main thread *)

LEMMA GetFactoryIInv ==
  ASSUME IInv, ~aborted, GetFactory
  PROVE  IInv'
  <1> USE DEF IInv
  <1>1. /\ factory' \in FactoryStates /\ failed' \in {failed, TRUE}
        /\ UNCHANGED <<pool, scope, pluginVars, at, wasmVars, aborted>>
    BY DEF GetFactory, Enumerate, MayFail, FactoryStates
  <1>2. Alive' = Alive  BY <1>1 DEF Alive, pluginVars
  <1>3. StepsAreAlive'  BY <1>1, <1>2 DEF StepsAreAlive, pluginVars
  <1>4. CallersAreAlive'
    <2>1. at[1] # "release"  BY StepNames DEF GetFactory
    <2>2. Runs(Main)' = Runs(Main)  BY <1>1 DEF Runs, wasmVars
    <2>3. ~failed' => ~failed  BY <1>1 DEF TypeOK
    <2> QED BY <1>1, <1>2, <2>1, <2>2, <2>3, CallersFrame DEF CallersAreAlive, pluginVars
  <1>5. failed' \in BOOLEAN /\ at' \in AtStates  BY <1>1 DEF TypeOK, AtStates
  <1> QED BY <1>1, <1>3, <1>4, <1>5, QuietFrame DEF TypeOK, wasmVars

\* Steps from one place to another: into init() or destroy(), back, or to the end.
LEMMA MoveIInv ==
  ASSUME IInv, ~aborted, NEW s \in {"idle", "destroy", "release", "closing", "closed"},
         NEW p \in Alive \cup {None}, at' = <<s, p>>,
         s \in {"destroy", "release"} => p # None,
         callback[Main] = None, scope = None, failed' \in {failed, TRUE},
         ~failed' /\ s = "release" => ThreadsOf(p) = {},
         UNCHANGED <<factory, pool, scope, pluginVars, wasmVars, aborted>>
  PROVE  IInv'
  <1> USE DEF IInv
  <1>1. Alive' = Alive  BY DEF Alive, pluginVars
  <1>2. at'[1] = s /\ at'[2] = p /\ p \in Plugins \cup {None}  BY AliveIs
  <1>3. StepsAreAlive'  BY <1>1, <1>2 DEF StepsAreAlive, pluginVars
  <1>4. CallersAreAlive'
    <2>1. ~failed' => ~failed  BY DEF TypeOK
    <2> QED BY <1>1, <1>2, <2>1, CallersFrame DEF CallersAreAlive, pluginVars
  <1>5. failed' \in BOOLEAN /\ at' \in AtStates /\ factory' \in FactoryStates
    BY <1>2 DEF TypeOK, AtStates, FactoryStates
  <1> QED BY <1>3, <1>4, <1>5, QuietFrame DEF TypeOK, wasmVars

LEMMA InitReturnsIInv ==
  ASSUME IInv, ~aborted, InitReturns
  PROVE  IInv'
  <1>1. at' = <<"idle", None>> /\ scope = None /\ callback[Main] = None
    BY DEF InitReturns, Idle, IInv, StepsAreAlive
  <1> QED BY <1>1, MoveIInv DEF InitReturns, MayFail

LEMMA DestroyIInv ==
  ASSUME IInv, ~aborted, NEW p \in Plugins, Destroy(p)
  PROVE  IInv'
  <1>1. at[1] = "idle" /\ p \in Alive  BY StepNames DEF Destroy, IInv
  <1>2. callback[Main] = None /\ scope = None  BY <1>1, MainIsOutside DEF IInv, StepsAreAlive
  <1>3. p # None  BY NoneAssumption
  <1>4. failed' = failed /\ UNCHANGED <<factory, pool, scope, pluginVars, wasmVars, aborted>>
    BY DEF Destroy
  <1>5. CASE failed
    <2>1. at' = <<"release", p>> /\ failed'  BY <1>4, <1>5 DEF Destroy
    <2> QED BY <1>1, <1>2, <1>3, <1>4, <2>1, MoveIInv
  <1>6. CASE ~failed
    <2>1. at' = <<"destroy", p>>  BY <1>6 DEF Destroy
    <2> QED BY <1>1, <1>2, <1>3, <1>4, <2>1, MoveIInv
  <1> QED BY <1>5, <1>6

LEMMA DestroyReturnsIInv ==
  ASSUME IInv, ~aborted, DestroyReturns
  PROVE  IInv'
  <1> DEFINE p == at[2]
  <1>1. at[1] = "destroy" /\ callback[Main] = None /\ at' = <<"release", p>>
    BY DEF DestroyReturns
  <1>2. p \in Alive /\ p # None /\ scope = None
    BY <1>1, PlaceIs DEF IInv, StepsAreAlive
  <1>3. failed' \in {failed, TRUE} /\ (~failed' => ThreadsOf(p) = {})
    BY DEF DestroyReturns
  <1>4. UNCHANGED <<factory, pool, scope, pluginVars, wasmVars, aborted>>
    BY DEF DestroyReturns
  <1> HIDE DEF p
  <1> QED BY <1>1, <1>2, <1>3, <1>4, MoveIInv

LEMMA CloseIInv ==
  ASSUME IInv, ~aborted, Close
  PROVE  IInv'
  <1>1. at[1] = "idle"  BY StepNames DEF Close, IInv
  <1>2. callback[Main] = None /\ scope = None  BY <1>1, MainIsOutside DEF IInv, StepsAreAlive
  <1>3. failed' = failed /\ at' = <<"closing", None>>
        /\ UNCHANGED <<factory, pool, scope, pluginVars, wasmVars, aborted>>
    BY DEF Close
  <1> QED BY <1>2, <1>3, MoveIInv

-----------------------------------------------------------------------------
(* create_plugin: the arena goes from the pool to the scope, and on to the Plugin *)

\* What is the same in the steps of create_plugin and init.
LEMMA CreateFrame ==
  ASSUME IInv, ~aborted, at[1] \in {"idle", "refused", "create"},
         UNCHANGED <<factory, destroyCalled, wasmVars, aborted>>, failed' \in {failed, TRUE},
         at' \in AtStates, at'[1] # "release",
         \A p \in Plugins : stage[p] # "new" => stage'[p] # "new",
         Alive \subseteq Alive', StepsAreAlive', ArenasHaveOneHolder',
         pool' \subseteq Arenas, scope' \in Arenas \cup {None},
         hostData' \in [Arenas -> Indices], pluginList' \in [Indices -> Plugins \cup {None}],
         stage' \in [Plugins -> {"new", "created", "inited", "deleted"}],
         arena' \in [Plugins -> Arenas \cup {None}],
         \A p \in Alive' : p = pluginList'[hostData'[arena'[p]]]
  PROVE  IInv'
  <1> USE DEF IInv
  <1>1. CallersAreAlive'
    <2>1. callback[Main] = None  BY MainIsOutside
    <2>2. ~failed' => ~failed  BY DEF TypeOK
    <2>3. ~failed' => \A w \in Workers : owner[w] # None => owner[w] \in Alive'
      BY <2>2 DEF CallersAreAlive
    <2> QED BY <2>1, <2>3, CallersFrame
  <1>2. AbortMeansNotDestroyed'  BY DEF AbortMeansNotDestroyed
  <1>3. TypeOK'  BY DEF TypeOK, AtStates, wasmVars
  <1> QED BY <1>1, <1>2, <1>3

LEMMA CreatePluginIInv ==
  ASSUME IInv, ~aborted, CreatePlugin
  PROVE  IInv'
  <1> USE DEF IInv
  <1>1. PICK a \in pool : /\ pool' = pool \ {a} /\ scope' = a
                          /\ hostData' = [hostData EXCEPT ![a] = 0]
    BY DEF CreatePlugin
  <1>2. /\ UNCHANGED <<factory, failed, pluginList, stage, destroyCalled, arena, wasmVars, aborted>>
        /\ at[1] = "idle" /\ at'[1] \in {"refused", "create"} /\ at'[2] = None
        /\ at' \in AtStates
    BY StepNames DEF CreatePlugin, AtStates
  <1>3. Alive' = Alive  BY <1>2 DEF Alive
  <1>4. a \in Arenas /\ a # None /\ scope = None
    BY <1>1, <1>2, NoneAssumption DEF TypeOK, StepsAreAlive
  <1>5. \A p \in Alive : arena[p] # a  BY <1>1, ArenaIsOwn
  <1>6. StepsAreAlive'  BY <1>1, <1>2, <1>4 DEF StepsAreAlive
  <1>7. ArenasHaveOneHolder'
    <2> SUFFICES ASSUME NEW b \in Arenas
                 PROVE  LET holders == {p \in Alive : arena[p] = b} IN
                          /\ b \in pool'  => b # scope' /\ holders = {}
                          /\ b = scope'   => holders = {}
                          /\ b \notin pool' => b = scope' \/ \E p \in holders : holders = {p}
      BY <1>2, <1>3 DEF ArenasHaveOneHolder
    <2>1. CASE b = a  BY <1>1, <1>5, <2>1
    <2>2. CASE b # a  BY <1>1, <1>4, <2>2, NoneAssumption DEF ArenasHaveOneHolder
    <2> QED BY <2>1, <2>2
  <1>8. hostData' \in [Arenas -> Indices] /\ pool' \subseteq Arenas /\ scope' \in Arenas \cup {None}
    BY <1>1, <1>4, IndexAssumption DEF TypeOK
  <1>9. \A p \in Alive' : p = pluginList'[hostData'[arena'[p]]]
    BY <1>1, <1>2, <1>3, <1>5, PlaceIs DEF TypeOK
  <1>10. /\ pluginList' \in [Indices -> Plugins \cup {None}]
         /\ stage' \in [Plugins -> {"new", "created", "inited", "deleted"}]
         /\ arena' \in [Plugins -> Arenas \cup {None}]
    BY <1>2 DEF TypeOK
  <1> QED BY <1>2, <1>3, <1>6, <1>7, <1>8, <1>9, <1>10, CreateFrame

LEMMA CreateFailsIInv ==
  ASSUME IInv, ~aborted, CreateFails
  PROVE  IInv'
  <1> USE DEF IInv
  <1>1. /\ UNCHANGED <<factory, pluginVars, wasmVars, aborted>> /\ failed' \in {failed, TRUE}
        /\ pool' = pool \cup {scope} /\ scope' = None
        /\ at[1] \in {"refused", "create"} /\ at' = <<"idle", None>>
    BY DEF CreateFails, MayFail, Idle
  <1>2. scope \in Arenas /\ scope # None  BY <1>1 DEF TypeOK, StepsAreAlive
  <1>3. Alive' = Alive  BY <1>1 DEF Alive, pluginVars
  <1>4. at'[1] = "idle" /\ at' \in AtStates  BY <1>1 DEF AtStates
  <1>5. StepsAreAlive'  BY <1>1, <1>4 DEF StepsAreAlive, pluginVars
  <1>6. ArenasHaveOneHolder'
    BY <1>1, <1>2, <1>3, NoneAssumption DEF ArenasHaveOneHolder, pluginVars
  <1>7. /\ pool' \subseteq Arenas /\ scope' \in Arenas \cup {None}
        /\ hostData' \in [Arenas -> Indices] /\ pluginList' \in [Indices -> Plugins \cup {None}]
        /\ stage' \in [Plugins -> {"new", "created", "inited", "deleted"}]
        /\ arena' \in [Plugins -> Arenas \cup {None}]
        /\ \A p \in Alive' : p = pluginList'[hostData'[arena'[p]]]
    BY <1>1, <1>2, <1>3 DEF TypeOK, pluginVars
  <1> QED BY <1>1, <1>3, <1>4, <1>5, <1>6, <1>7, CreateFrame DEF pluginVars

\* The index is free and the arena the scope's, so that no other plugin's are touched.
LEMMA ConstructIInv ==
  ASSUME IInv, ~aborted, Construct
  PROVE  IInv'
  <1> USE DEF IInv
  <1>1. PICK p \in Plugins, i \in Indices :
          /\ stage[p] = "new" /\ pluginList[i] = None
          /\ pluginList' = [pluginList EXCEPT ![i] = p]
          /\ hostData' = [hostData EXCEPT ![scope] = i]
          /\ stage' = [stage EXCEPT ![p] = "created"]
          /\ arena' = [arena EXCEPT ![p] = scope]
    BY DEF Construct, Retain
  <1>2. /\ UNCHANGED <<factory, pool, destroyCalled, wasmVars, aborted>>
        /\ failed' \in {failed, TRUE} /\ scope' = None
        /\ at[1] = "create" /\ at' = <<"idle", None>>
    BY DEF Construct, MayFail, Idle
  <1>3. scope \in Arenas /\ scope # None  BY <1>2 DEF TypeOK, StepsAreAlive
  <1>4. p \notin Alive /\ Alive' = Alive \cup {p}  BY <1>1, AliveIs, AliveNext DEF TypeOK
  <1>5. \A q \in Alive : q # p /\ arena'[q] = arena[q] /\ arena[q] # scope
    BY <1>1, <1>4, ArenaIsOwn, AliveIs DEF TypeOK
  <1>6. arena'[p] = scope  BY <1>1 DEF TypeOK
  <1>7. at'[1] = "idle" /\ at' \in AtStates  BY <1>2 DEF AtStates
  <1>8. StepsAreAlive'
    BY <1>1, <1>2, <1>3, <1>7 DEF StepsAreAlive, TypeOK
  <1>9. ArenasHaveOneHolder'
    <2> SUFFICES ASSUME NEW b \in Arenas
                 PROVE  LET holders == {q \in Alive' : arena'[q] = b} IN
                          /\ b \in pool'  => b # scope' /\ holders = {}
                          /\ b = scope'   => holders = {}
                          /\ b \notin pool' => b = scope' \/ \E q \in holders : holders = {q}
      BY DEF ArenasHaveOneHolder
    <2> DEFINE before == {q \in Alive : arena[q] = b}
               holders == {q \in Alive' : arena'[q] = b}
    <2>1. b # scope' /\ pool' = pool  BY <1>2, NoneAssumption
    <2>2. CASE b = scope
      <3>1. holders = {p} /\ b \notin pool
        BY <1>3, <1>4, <1>5, <1>6, <2>2 DEF ArenasHaveOneHolder
      <3> QED BY <2>1, <3>1
    <2>3. CASE b # scope
      <3>1. holders = before  BY <1>4, <1>5, <1>6, <2>3
      <3> QED BY <2>1, <2>3, <3>1 DEF ArenasHaveOneHolder
    <2> QED BY <2>2, <2>3
  <1>10. \A q \in Alive' : q = pluginList'[hostData'[arena'[q]]]
    <2>1. pluginList'[hostData'[arena'[p]]] = p  BY <1>1, <1>3, <1>6 DEF TypeOK
    <2>2. ASSUME NEW q \in Alive PROVE q = pluginList'[hostData'[arena'[q]]]
      <3>1. /\ arena[q] \in Arenas /\ hostData[arena[q]] \in Indices
            /\ pluginList[hostData[arena[q]]] = q /\ q # None
        BY PlaceIs
      <3>2. hostData'[arena'[q]] = hostData[arena[q]] /\ hostData[arena[q]] # i
        BY <1>1, <1>5, <3>1 DEF TypeOK
      <3> QED BY <1>1, <3>1, <3>2 DEF TypeOK
    <2> QED BY <1>4, <2>1, <2>2
  <1>11. /\ pool' \subseteq Arenas /\ scope' \in Arenas \cup {None}
         /\ hostData' \in [Arenas -> Indices] /\ pluginList' \in [Indices -> Plugins \cup {None}]
         /\ stage' \in [Plugins -> {"new", "created", "inited", "deleted"}]
         /\ arena' \in [Plugins -> Arenas \cup {None}]
         /\ \A q \in Plugins : stage[q] # "new" => stage'[q] # "new"
    BY <1>1, <1>2, <1>3 DEF TypeOK
  <1> QED BY <1>2, <1>4, <1>7, <1>8, <1>9, <1>10, <1>11, CreateFrame

LEMMA InitPluginIInv ==
  ASSUME IInv, ~aborted, NEW p \in Plugins, InitPlugin(p)
  PROVE  IInv'
  <1> USE DEF IInv
  <1>1. /\ stage[p] = "created" /\ stage' = [stage EXCEPT ![p] = "inited"]
        /\ UNCHANGED <<factory, failed, pool, scope, pluginList, destroyCalled, arena, hostData,
                       wasmVars, aborted>>
        /\ at[1] = "idle" /\ at'[1] \in {"idle", "init"} /\ at' \in AtStates
        /\ at'[1] = "init" => at'[2] = p
    BY StepNames DEF InitPlugin, AtStates
  <1>2. Alive' = Alive /\ p \in Alive
    <2>1. stage \in [Plugins -> {"new", "created", "inited", "deleted"}]  BY DEF TypeOK
    <2>2. \A q \in Plugins : stage'[q] = IF q = p THEN "inited" ELSE stage[q]  BY <1>1, <2>1
    <2>3. \A q : q \in Alive' <=> q \in Alive  BY ONLY <1>1, <2>2, AliveIs, AliveNext
    <2> QED BY <1>1, <2>3, AliveIs
  <1>3. StepsAreAlive'  BY <1>1, <1>2 DEF StepsAreAlive, TypeOK
  <1>4. ArenasHaveOneHolder'  BY <1>1, <1>2 DEF ArenasHaveOneHolder
  <1>5. /\ pool' \subseteq Arenas /\ scope' \in Arenas \cup {None}
        /\ hostData' \in [Arenas -> Indices] /\ pluginList' \in [Indices -> Plugins \cup {None}]
        /\ stage' \in [Plugins -> {"new", "created", "inited", "deleted"}]
        /\ arena' \in [Plugins -> Arenas \cup {None}]
        /\ \A q \in Plugins : stage[q] # "new" => stage'[q] # "new"
        /\ \A q \in Alive' : q = pluginList'[hostData'[arena'[q]]]
    BY <1>1, <1>2 DEF TypeOK
  <1> QED BY <1>1, <1>2, <1>3, <1>4, <1>5, CreateFrame

-----------------------------------------------------------------------------
(* The ends of a Plugin *)

\* ~Plugin gives back an arena that was its own.
LEMMA DeleteFrees ==
  ASSUME IInv, NEW p \in Alive, NEW called \in BOOLEAN, Delete(p, called), scope' = scope
  PROVE  /\ Alive' = Alive \ {p}
         /\ stage' \in [Plugins -> {"new", "created", "inited", "deleted"}]
         /\ \A q \in Plugins : stage'[q] = IF q = p THEN "deleted" ELSE stage[q]
         /\ pool' \subseteq Arenas /\ ArenasHaveOneHolder'
  <1> USE DEF IInv
  <1>1. /\ stage' = [stage EXCEPT ![p] = "deleted"] /\ arena' = arena
        /\ pool' = pool \cup {arena[p]}
    BY DEF Delete
  <1>2. p \in Plugins /\ arena[p] \in Arenas  BY PlaceIs
  <1>3. /\ stage' \in [Plugins -> {"new", "created", "inited", "deleted"}]
        /\ \A q \in Plugins : stage'[q] = IF q = p THEN "deleted" ELSE stage[q]
    BY <1>1, <1>2 DEF TypeOK
  <1>4. Alive' = Alive \ {p}  BY <1>3, AliveIs, AliveNext
  <1>5. ArenasHaveOneHolder'
    <2> SUFFICES ASSUME NEW b \in Arenas
                 PROVE  LET holders == {q \in Alive' : arena[q] = b} IN
                          /\ b \in pool'  => b # scope /\ holders = {}
                          /\ b = scope   => holders = {}
                          /\ b \notin pool' => b = scope \/ \E q \in holders : holders = {q}
      BY <1>1 DEF ArenasHaveOneHolder
    <2>1. CASE b = arena[p]  BY <1>1, <1>4, <2>1, ArenaIsOwn
    <2>2. CASE b # arena[p]
      <3>1. {q \in Alive' : arena[q] = b} = {q \in Alive : arena[q] = b}  BY <1>4, <2>2
      <3> QED BY <1>1, <2>2, <3>1 DEF ArenasHaveOneHolder
    <2> QED BY <2>1, <2>2
  <1> QED BY <1>1, <1>2, <1>3, <1>4, <1>5 DEF TypeOK

LEMMA DestroyReleasesIInv ==
  ASSUME IInv, ~aborted, DestroyReleases
  PROVE  IInv'
  <1> USE DEF IInv
  <1> DEFINE p == at[2]
  <1>1. p \in Alive /\ p \in Plugins /\ p # None /\ scope = None
    BY PlaceIs DEF DestroyReleases, StepsAreAlive
  <1>2. /\ destroyCalled' = [destroyCalled EXCEPT ![p] = TRUE]
        /\ pluginList' = [i \in Indices |-> IF pluginList[i] = p THEN None ELSE pluginList[i]]
        /\ Delete(p, destroyCalled'[p])
        /\ at[1] = "release" /\ at' = <<"idle", None>>
        /\ UNCHANGED <<factory, failed, scope, hostData, wasmVars>>
    BY DEF DestroyReleases, Idle
  <1>3. destroyCalled' \in [Plugins -> BOOLEAN] /\ destroyCalled'[p] = TRUE
    BY <1>1, <1>2 DEF TypeOK
  <1> HIDE DEF p
  <1>4. /\ Alive' = Alive \ {p}
        /\ stage' \in [Plugins -> {"new", "created", "inited", "deleted"}]
        /\ \A q \in Plugins : stage'[q] = IF q = p THEN "deleted" ELSE stage[q]
        /\ pool' \subseteq Arenas /\ ArenasHaveOneHolder'
    BY <1>1, <1>2, <1>3, DeleteFrees
  <1>5. aborted' = FALSE /\ arena' = arena  BY <1>2, <1>3 DEF Delete
  <1>6. at'[1] = "idle" /\ at' \in AtStates  BY <1>2 DEF AtStates
  <1>7. AbortMeansNotDestroyed'  BY <1>5 DEF AbortMeansNotDestroyed
  <1>8. StepsAreAlive'
    <2>1. \A q \in Plugins : stage'[q] # "new" => arena'[q] \in Arenas
      BY <1>1, <1>4, <1>5, PlaceIs DEF StepsAreAlive
    <2> QED BY <1>1, <1>2, <1>6, <2>1 DEF StepsAreAlive
  <1>9. CallersAreAlive'
    <2>1. callback[Main] = None  BY <1>2, MainIsOutside
    <2>2. ~failed => \A w \in Workers : owner[w] # None => owner[w] \in Alive'
      <3> SUFFICES ASSUME ~failed, NEW w \in Workers, owner[w] # None PROVE owner[w] \in Alive'
        OBVIOUS
      <3>1. owner[w] \in Alive  BY DEF CallersAreAlive
      <3>2. ThreadsOf(p) = {}  BY <1>2 DEF CallersAreAlive, p
      <3>3. owner[w] # p  BY <3>2 DEF ThreadsOf
      <3> QED BY <1>4, <3>1, <3>3
    <2> QED BY <1>2, <1>4, <1>6, <2>1, <2>2, CallersFrame
  <1>10. TypeOK'
    <2>1. pluginList' \in [Indices -> Plugins \cup {None}]  BY <1>2 DEF TypeOK
    <2>2. \A q \in Alive' : q = pluginList'[hostData'[arena'[q]]]
      BY <1>2, <1>4, <1>5, PlaceIs
    <2> QED BY <1>2, <1>3, <1>4, <1>5, <1>6, <2>1, <2>2 DEF TypeOK, AtStates, wasmVars
  <1> QED BY <1>4, <1>7, <1>8, <1>9, <1>10

LEMMA CloseEndsIInv ==
  ASSUME IInv, ~aborted, CloseEnds
  PROVE  IInv'
  <1> USE DEF IInv
  <1>1. /\ at[1] = "closing" /\ \A w \in Workers : owner[w] = None
        /\ UNCHANGED <<factory, failed, scope, wasmVars>>
    BY DEF CloseEnds
  <1>2. callback[Main] = None /\ scope = None  BY <1>1, MainIsOutside DEF StepsAreAlive
  <1>3. CASE /\ at' = <<"closed", None>> /\ UNCHANGED <<pluginVars, pool, aborted>>
    BY <1>1, <1>2, <1>3, MoveIInv
  <1>4. ASSUME NEW p \in Alive, Delete(p, destroyCalled[p]),
               UNCHANGED <<pluginList, destroyCalled, hostData, at>>
        PROVE  IInv'
    <2>1. p \in Plugins /\ destroyCalled[p] \in BOOLEAN  BY AliveIs DEF TypeOK
    <2>2. /\ Alive' = Alive \ {p}
          /\ stage' \in [Plugins -> {"new", "created", "inited", "deleted"}]
          /\ \A q \in Plugins : stage'[q] = IF q = p THEN "deleted" ELSE stage[q]
          /\ pool' \subseteq Arenas /\ ArenasHaveOneHolder'
      BY <1>1, <1>4, <2>1, DeleteFrees
    <2>3. aborted' = ~destroyCalled[p] /\ arena' = arena  BY <1>4 DEF Delete
    <2>4. AbortMeansNotDestroyed'
      BY <1>1, <1>4, <2>1, <2>2, <2>3 DEF AbortMeansNotDestroyed
    <2>5. StepsAreAlive'
      <3>1. \A q \in Plugins : stage'[q] # "new" => arena'[q] \in Arenas
        BY <2>1, <2>2, <2>3, PlaceIs DEF StepsAreAlive
      <3> QED BY <1>1, <1>2, <1>4, <3>1 DEF StepsAreAlive
    <2>6. CallersAreAlive'
      BY <1>1, <1>2, <1>4, <2>2, CallersFrame
    <2>7. TypeOK'
      <3>1. \A q \in Alive' : q = pluginList'[hostData'[arena'[q]]]
        BY <1>4, <2>2, <2>3, PlaceIs
      <3> QED BY <1>1, <1>4, <2>1, <2>2, <2>3, <3>1 DEF TypeOK, wasmVars
    <2> QED BY <2>2, <2>4, <2>5, <2>6, <2>7
  <1> QED BY <1>3, <1>4 DEF CloseEnds

-----------------------------------------------------------------------------
(* The theorems *)

LEMMA InitIInv == Init => IInv
  <1> SUFFICES ASSUME Init PROVE IInv  OBVIOUS
  <1> USE DEF Init
  <1>1. Alive = {} /\ at[1] = "idle" /\ at[2] = None  BY DEF Alive, Idle
  <1>2. TypeOK  BY <1>1, IndexAssumption DEF TypeOK, Idle
  <1>3. ArenasHaveOneHolder  BY <1>1, NoneAssumption DEF ArenasHaveOneHolder
  <1>4. AbortMeansNotDestroyed  BY DEF AbortMeansNotDestroyed
  <1>5. StepsAreAlive  BY <1>1 DEF StepsAreAlive
  <1>6. CallersAreAlive  BY <1>1 DEF CallersAreAlive
  <1> QED BY <1>2, <1>3, <1>4, <1>5, <1>6 DEF IInv

LEMMA NextIInv == IInv /\ [Next]_vars => IInv'
  <1> SUFFICES ASSUME IInv, [Next]_vars PROVE IInv'  OBVIOUS
  <1>1. CASE UNCHANGED vars
    <2>1. Alive' = Alive  BY <1>1 DEF vars, pluginVars, Alive
    <2>2. UNCHANGED <<factory, failed, pool, scope, pluginVars, at, wasmVars, aborted>>
      BY <1>1 DEF vars
    <2>3. CallersAreAlive'
      BY <2>1, <2>2 DEF IInv, CallersAreAlive, pluginVars, wasmVars, Runs, ThreadsOf
    <2> QED BY <2>2, <2>3, WasmFrame DEF IInv, TypeOK, wasmVars
  <1>2. CASE ~aborted /\ MainNext
    <2>1. CASE \E p \in Plugins : InitPlugin(p) \/ Destroy(p)
      BY <1>2, <2>1, InitPluginIInv, DestroyIInv
    <2>2. CASE GetFactory \/ CreatePlugin \/ CreateFails \/ Construct \/ InitReturns
      BY <1>2, <2>2, GetFactoryIInv, CreatePluginIInv, CreateFailsIInv, ConstructIInv, InitReturnsIInv
    <2>3. CASE DestroyReturns \/ DestroyReleases \/ Close \/ CloseEnds
      BY <1>2, <2>3, DestroyReturnsIInv, DestroyReleasesIInv, CloseIInv, CloseEndsIInv
    <2> QED BY <1>2, <2>1, <2>2, <2>3 DEF MainNext
  <1>3. CASE WasmNext
    BY <1>3, ThreadStartsIInv, ThreadEndsIInv, CallbackIInv DEF WasmNext
  <1> QED BY <1>1, <1>2, <1>3 DEF Next, Stopped

\* IInv is inductive.
THEOREM Invariance == Spec => []IInv
  <1> QED BY InitIInv, NextIInv, PTL DEF Spec

\* The variables keep their shape, and a living plugin is found by the index that
\* its wclap_host holds (wclap-module-base.h:84-124).
THEOREM TypeCorrect == Spec => []TypeOK
  <1>1. IInv => TypeOK  BY DEF IInv
  <1> QED BY <1>1, Invariance, PTL

\* Without an error no host function's Plugin is deleted under it.
THEOREM PluginStays == Spec => []PluginLivesThroughCallback
  <1>1. IInv => PluginLivesThroughCallback
    <2> SUFFICES ASSUME IInv, NEW t \in Threads, callback[t] # None, ~failed
                 PROVE  callback[t] \in Alive
      BY DEF PluginLivesThroughCallback
    <2>1. callback[t] = Runs(t) /\ Runs(t) # None  BY DEF IInv, CallersAreAlive
    <2> QED BY <2>1, RunsIs
  <1> QED BY <1>1, Invariance, PTL

\* Without an error a host function reaches the plugin that called it.
THEOREM ReachesCaller == Spec => []CallbackReachesCaller
  <1>1. IInv => CallbackReachesCaller  BY DEF IInv, CallersAreAlive, CallbackReachesCaller
  <1> QED BY <1>1, Invariance, PTL

\* createPlugin and ~Plugin neither lose an arena nor give it to two.
THEOREM ArenasAreOwned == Spec => []ArenasHaveOneHolder
  <1>1. IInv => ArenasHaveOneHolder  BY DEF IInv
  <1> QED BY <1>1, Invariance, PTL

\* pluginDestroy never runs into the abort() of ~Plugin.
THEOREM DestroyNeverAborts == Spec => []AbortMeansNotDestroyed
  <1>1. IInv => AbortMeansNotDestroyed  BY DEF IInv
  <1> QED BY <1>1, Invariance, PTL
===============================================================================
