------------------------------- MODULE BridgeApi -------------------------------
(***************************************************************************)
(* The C API's global state (wclap-bridge.cpp) and the engine beneath it   *)
(* (InstanceGroup::globalInit/globalDeinit and the epoch thread): host     *)
(* threads initialise, de-initialise, open and close in any order.  Init   *)
(* and deinit hold globalInitMutex; open and close only read and write     *)
(* atomics, so their steps interleave with everything.                     *)
(***************************************************************************)
EXTENDS Integers, FiniteSets

CONSTANTS Callers,   \* host threads that use the API
          Wclaps,    \* handles that may be open at once
          Limits,    \* values of timeLimitMs the host asks for
          None       \* no owner, no handle

ASSUME CallersAssumption == None \notin Callers /\ None \notin Wclaps
ASSUME WclapsAssumption  == IsFiniteSet(Wclaps)
ASSUME LimitsAssumption  == Limits \subseteq Nat /\ Limits # {}

epochCounterMs == 10

VARIABLES
  pc,               \* where each caller is in the API function it called
  arg,              \* init: timeLimitMs, None in deinit
  handle,           \* the WCLAP a caller is opening or closing
  initMutex,        \* holder of globalInitMutex
  globalInitOK, globalInitMs, activeWclapCount, timeLimitEpochs,
  engine,           \* globalWasmEngine points to an engine
  epochRunning,     \* globalEpochRunning
  epochPc,          \* the epoch thread: "none" if it is not joinable
  wclap,            \* the life of each handle
  onEngine,         \* the engine a handle's module was made on still exists
  outcome,          \* "ok", "abort"ed, or undefined behaviour in a thread
  overlap           \* history: an open or close has run beside an init or deinit

globals   == <<globalInitOK, globalInitMs, timeLimitEpochs>>
engineVars == <<engine, epochRunning, epochPc>>
wclapVars == <<wclap, onEngine, activeWclapCount>>
vars == <<pc, arg, handle, initMutex, outcome, overlap, globals, engineVars, wclapVars>>

TypeOK ==
  /\ pc \in [Callers -> {"idle", "decide", "stopEpoch", "join", "delete", "create",
                         "finish", "group", "count", "construct", "destroy"}]
  /\ arg \in [Callers -> Limits \cup {None}]
  /\ handle \in [Callers -> Wclaps \cup {None}]
  /\ initMutex \in Callers \cup {None}
  /\ globalInitOK \in BOOLEAN /\ globalInitMs \in Limits \cup {0}
  /\ activeWclapCount \in Nat /\ timeLimitEpochs \in Nat
  /\ engine \in BOOLEAN /\ epochRunning \in BOOLEAN
  /\ epochPc \in {"none", "check", "tick", "exited"}
  /\ wclap \in [Wclaps -> {"closed", "opening", "constructing", "open", "closing"}]
  /\ onEngine \in [Wclaps -> BOOLEAN]
  /\ outcome \in {"ok", "abort", "openDeadEngine", "epochDeadEngine"}
  /\ overlap \in BOOLEAN

Init ==
  /\ pc = [c \in Callers |-> "idle"]
  /\ arg = [c \in Callers |-> None] /\ handle = [c \in Callers |-> None]
  /\ initMutex = None
  /\ globalInitOK = FALSE /\ globalInitMs = 0
  /\ activeWclapCount = 0 /\ timeLimitEpochs = 0
  /\ engine = FALSE /\ epochRunning = FALSE /\ epochPc = "none"
  /\ wclap = [w \in Wclaps |-> "closed"] /\ onEngine = [w \in Wclaps |-> FALSE]
  /\ outcome = "ok" /\ overlap = FALSE

Goto(c, l) == pc' = [pc EXCEPT ![c] = l]

\* timeLimitEpochs of a limit: two spare epochs, 0 for "no limit".
Epochs(ms) == IF ms > 0 THEN ms \div epochCounterMs + 2 ELSE 0

\* A deinit with nothing to undo, or an init that asks for the limit in force.
NothingToDo(c) == IF globalInitOK THEN arg[c] = globalInitMs ELSE arg[c] = None

-----------------------------------------------------------------------------
(* Mutants *)

StopEpoch_KeepsRunning(c) ==     \* joins without clearing the flag
  /\ pc[c] = "stopEpoch"
  /\ Goto(c, IF epochPc # "none" THEN "join" ELSE "delete")
  /\ UNCHANGED <<arg, handle, initMutex, outcome, globals, engineVars, wclapVars>>

StopEpoch_NoJoin(c) ==           \* detaches instead of joining
  /\ pc[c] = "stopEpoch"
  /\ epochRunning' = FALSE
  /\ Goto(c, "delete")
  /\ UNCHANGED <<arg, handle, initMutex, outcome, globals, engine, epochPc, wclapVars>>

Decide_NoCount(c) ==             \* reconfigures under active WCLAPs
  /\ pc[c] = "decide"
  /\ IF NothingToDo(c)
     THEN Goto(c, "idle") /\ initMutex' = None
     ELSE Goto(c, IF globalInitOK THEN "stopEpoch" ELSE "create") /\ UNCHANGED initMutex
  /\ UNCHANGED <<arg, handle, outcome, globals, engineVars, wclapVars>>

Finish_Always(c) ==              \* globalInitOK whatever globalInit returned
  /\ pc[c] = "finish"
  /\ globalInitOK' = (arg[c] # None)
  /\ IF arg[c] # None /\ engine /\ globalInitMs > 0
     THEN epochRunning' = TRUE /\ epochPc' = "check"
     ELSE UNCHANGED <<epochRunning, epochPc>>
  /\ initMutex' = None /\ Goto(c, "idle")
  /\ UNCHANGED <<arg, handle, outcome, globalInitMs, timeLimitEpochs, engine, wclapVars>>

OpenCheck_NoTest(c) ==           \* opens without an engine
  /\ pc[c] = "idle"
  /\ \E w \in Wclaps : /\ wclap[w] = "closed"
                       /\ wclap' = [wclap EXCEPT ![w] = "opening"]
                       /\ handle' = [handle EXCEPT ![c] = w]
  /\ Goto(c, "group")
  /\ UNCHANGED <<arg, initMutex, outcome, globals, engineVars, onEngine, activeWclapCount>>

OpenGroupFails_Counted(c) ==     \* counts a WCLAP whose open has failed
  /\ pc[c] = "group" /\ engine
  /\ wclap' = [wclap EXCEPT ![handle[c]] = "closed"]
  /\ activeWclapCount' = activeWclapCount + 1
  /\ handle' = [handle EXCEPT ![c] = None]
  /\ Goto(c, "idle")
  /\ UNCHANGED <<arg, initMutex, outcome, globals, engineVars, onEngine>>

-----------------------------------------------------------------------------
(* wclap_global_init and wclap_global_deinit, under globalInitMutex *)

Lock(c, a) ==
  /\ pc[c] = "idle" /\ initMutex = None
  /\ initMutex' = c
  /\ arg' = [arg EXCEPT ![c] = a]
  /\ Goto(c, "decide")
  /\ UNCHANGED <<handle, outcome, globals, engineVars, wclapVars>>

GlobalInit(c) == \E ms \in Limits : Lock(c, ms)
GlobalDeinit(c) == Lock(c, None)

\* Nothing to do, the same limit again, or abort() while WCLAPs are active.
Decide(c) ==
  /\ pc[c] = "decide"
  /\ \/ NothingToDo(c) /\ Goto(c, "idle") /\ initMutex' = None /\ UNCHANGED outcome
     \/ /\ ~NothingToDo(c) /\ globalInitOK /\ activeWclapCount > 0
        /\ outcome' = "abort" /\ UNCHANGED <<pc, initMutex>>
     \/ /\ ~NothingToDo(c) /\ ~(globalInitOK /\ activeWclapCount > 0)
        /\ Goto(c, IF globalInitOK THEN "stopEpoch" ELSE "create")
        /\ UNCHANGED <<initMutex, outcome>>
  /\ UNCHANGED <<arg, handle, globals, engineVars, wclapVars>>

StopEpoch(c) ==
  /\ pc[c] = "stopEpoch"
  /\ epochRunning' = IF epochPc # "none" THEN FALSE ELSE epochRunning
  /\ Goto(c, IF epochPc # "none" THEN "join" ELSE "delete")
  /\ UNCHANGED <<arg, handle, initMutex, outcome, globals, engine, epochPc, wclapVars>>

JoinEpoch(c) ==
  /\ pc[c] = "join" /\ epochPc = "exited"
  /\ epochPc' = "none"
  /\ Goto(c, "delete")
  /\ UNCHANGED <<arg, handle, initMutex, outcome, globals, engine, epochRunning, wclapVars>>

\* wasm_engine_delete and the null store; globalInitOK is still true.
DeleteEngine(c) ==
  /\ pc[c] = "delete"
  /\ engine' = FALSE
  /\ onEngine' = [w \in Wclaps |-> FALSE]
  /\ Goto(c, IF arg[c] = None THEN "finish" ELSE "create")
  /\ UNCHANGED <<arg, handle, initMutex, outcome, globals, epochRunning, epochPc,
                 wclap, activeWclapCount>>

\* globalInit as far as the engine: it may fail before or after the limit is set.
CreateEngine(c) ==
  /\ pc[c] = "create"
  /\ globalInitMs' = arg[c]
  /\ \/ timeLimitEpochs' = Epochs(arg[c]) /\ engine' \in BOOLEAN
     \/ UNCHANGED <<timeLimitEpochs, engine>>
  /\ Goto(c, "finish")
  /\ UNCHANGED <<arg, handle, initMutex, outcome, globalInitOK, epochRunning, epochPc, wclapVars>>

\* The epoch thread of a successful init, globalInitOK and the unlock.
Finish(c) ==
  /\ pc[c] = "finish"
  /\ globalInitOK' = (arg[c] # None /\ engine)
  /\ IF arg[c] # None /\ engine /\ globalInitMs > 0
     THEN epochRunning' = TRUE /\ epochPc' = "check"
     ELSE UNCHANGED <<epochRunning, epochPc>>
  /\ initMutex' = None /\ Goto(c, "idle")
  /\ UNCHANGED <<arg, handle, outcome, globalInitMs, timeLimitEpochs, engine, wclapVars>>

-----------------------------------------------------------------------------
(* wclap_open_with_dirs and wclap_close, without a lock *)

\* The test of globalInitOK, then the file is read: a long way before the engine
\* is used.  An open that returns null here changes nothing.
OpenCheck(c) ==
  /\ pc[c] = "idle" /\ globalInitOK
  /\ \E w \in Wclaps : /\ wclap[w] = "closed"
                       /\ wclap' = [wclap EXCEPT ![w] = "opening"]
                       /\ handle' = [handle EXCEPT ![c] = w]
  /\ Goto(c, "group")
  /\ UNCHANGED <<arg, initMutex, outcome, globals, engineVars, onEngine, activeWclapCount>>

\* The InstanceGroup compiles the module on the engine.
OpenGroup(c) ==
  /\ pc[c] = "group"
  /\ IF engine
     THEN /\ onEngine' = [onEngine EXCEPT ![handle[c]] = TRUE]
          /\ Goto(c, "count") /\ UNCHANGED outcome
     ELSE outcome' = "openDeadEngine" /\ UNCHANGED <<pc, onEngine>>
  /\ UNCHANGED <<arg, handle, initMutex, globals, engineVars, wclap, activeWclapCount>>

\* The group has an error: it is deleted and null returned.
OpenGroupFails(c) ==
  /\ pc[c] = "group" /\ engine
  /\ wclap' = [wclap EXCEPT ![handle[c]] = "closed"]
  /\ handle' = [handle EXCEPT ![c] = None]
  /\ Goto(c, "idle")
  /\ UNCHANGED <<arg, initMutex, outcome, globals, engineVars, onEngine, activeWclapCount>>

OpenCount(c) ==
  /\ pc[c] = "count"
  /\ activeWclapCount' = activeWclapCount + 1
  /\ wclap' = [wclap EXCEPT ![handle[c]] = "constructing"]
  /\ Goto(c, "construct")
  /\ UNCHANGED <<arg, handle, initMutex, outcome, globals, engineVars, onEngine>>

\* The module's first Instance makes its store on globalWasmEngine.
OpenConstruct(c) ==
  /\ pc[c] = "construct"
  /\ IF onEngine[handle[c]]
     THEN /\ wclap' = [wclap EXCEPT ![handle[c]] = "open"]
          /\ handle' = [handle EXCEPT ![c] = None]
          /\ Goto(c, "idle") /\ UNCHANGED outcome
     ELSE outcome' = "openDeadEngine" /\ UNCHANGED <<pc, wclap, handle>>
  /\ UNCHANGED <<arg, initMutex, globals, engineVars, onEngine, activeWclapCount>>

\* The count goes down before the destructor runs, WASM threads and all.
CloseCount(c) ==
  /\ pc[c] = "idle"
  /\ \E w \in Wclaps : /\ wclap[w] = "open"
                       /\ wclap' = [wclap EXCEPT ![w] = "closing"]
                       /\ handle' = [handle EXCEPT ![c] = w]
  /\ activeWclapCount' = activeWclapCount - 1
  /\ Goto(c, "destroy")
  /\ UNCHANGED <<arg, initMutex, outcome, globals, engineVars, onEngine>>

CloseDestroy(c) ==
  /\ pc[c] = "destroy"
  /\ wclap' = [wclap EXCEPT ![handle[c]] = "closed"]
  /\ onEngine' = [onEngine EXCEPT ![handle[c]] = FALSE]
  /\ handle' = [handle EXCEPT ![c] = None]
  /\ Goto(c, "idle")
  /\ UNCHANGED <<arg, initMutex, outcome, globals, engineVars, activeWclapCount>>

-----------------------------------------------------------------------------
(* epochThreadFunction *)

EpochCheck ==
  /\ epochPc = "check"
  /\ epochPc' = IF epochRunning THEN "tick" ELSE "exited"
  /\ UNCHANGED <<pc, arg, handle, initMutex, outcome, globals, engine, epochRunning, wclapVars>>

EpochTick ==
  /\ epochPc = "tick"
  /\ IF engine THEN epochPc' = "check" /\ UNCHANGED outcome
               ELSE outcome' = "epochDeadEngine" /\ UNCHANGED epochPc
  /\ UNCHANGED <<pc, arg, handle, initMutex, globals, engine, epochRunning, wclapVars>>

-----------------------------------------------------------------------------
GlobalStep(c) == \/ GlobalInit(c) \/ GlobalDeinit(c) \/ Decide(c) \/ StopEpoch(c)
                 \/ JoinEpoch(c) \/ DeleteEngine(c) \/ CreateEngine(c) \/ Finish(c)

WclapStep(c) == \/ OpenCheck(c) \/ OpenGroup(c) \/ OpenGroupFails(c) \/ OpenCount(c)
                \/ OpenConstruct(c) \/ CloseCount(c) \/ CloseDestroy(c)

\* The process has aborted or crashed.
Dead == outcome # "ok" /\ UNCHANGED vars

\* Only init and deinit are made for concurrent callers (globalInitMutex): the
\* history variable tells the runs in which an open or a close met one of them.
InGlobal == {"decide", "stopEpoch", "join", "delete", "create", "finish"}
InWclap  == {"group", "count", "construct", "destroy"}
Overlap  == \E c, d \in Callers : pc[c] \in InGlobal /\ pc[d] \in InWclap

Alive(A) == outcome = "ok" /\ A /\ overlap' = (overlap \/ Overlap')

Next == \/ \E c \in Callers : Alive(GlobalStep(c) \/ WclapStep(c))
        \/ Alive(EpochCheck)
        \/ Alive(EpochTick)
        \/ Dead

Spec == Init /\ [][Next]_vars

\* Callers inside init or deinit, and the epoch thread, keep running.
FairSpec ==
  /\ Spec
  /\ WF_vars(Alive(EpochCheck)) /\ WF_vars(Alive(EpochTick))
  /\ \A c \in Callers :
       WF_vars(Alive(\/ Decide(c) \/ StopEpoch(c) \/ JoinEpoch(c)
                     \/ DeleteEngine(c) \/ CreateEngine(c) \/ Finish(c)))

-----------------------------------------------------------------------------
(* Properties *)

\* globalDeinit stops and joins the epoch thread before it deletes the engine:
\* no tick is made on a dead one.
EpochThreadUsesLiveEngine == outcome # "epochDeadEngine"

\* The global state agrees with itself: OK means an engine, its time limit in
\* epochs, and a running epoch thread if there is a limit.
Settled ==
  /\ engine = globalInitOK
  /\ (epochPc # "none") = (globalInitOK /\ globalInitMs > 0)
  /\ epochPc # "none" => epochRunning /\ epochPc # "exited"
  /\ globalInitOK => timeLimitEpochs = Epochs(globalInitMs)

\* Nobody is inside init or deinit when globalInitMutex is free: what every call
\* of the API then finds is settled, whether the last init succeeded or failed.
InitConsistent == initMutex = None => Settled

\* The count that the abort() checks rely on is that of the modules there are,
\* from the end of their InstanceGroup's creation to the start of their close.
CountMatchesOpen ==
  activeWclapCount = Cardinality({w \in Wclaps : wclap[w] \in {"constructing", "open"}})

\* "Tried to de-init WCLAP bridge while WCLAPs are still active" and
\* "Tried to reconfigure ..." (wclap-bridge.cpp:26,39): as long as opens and
\* closes keep clear of init and deinit, the engine is never deleted under a
\* WCLAP that has been constructed and not yet destroyed.
EngineOutlivesWclaps ==
  ~overlap =>
    \A w \in Wclaps : wclap[w] \in {"constructing", "open", "closing"} => onEngine[w]

\* On the same terms an open that has seen globalInitOK finds its engine.
OpenFindsEngine == outcome = "openDeadEngine" => overlap

\* Init and deinit return: the epoch thread sees the flag and can be joined.
GlobalCallsReturn ==
  \A c \in Callers : pc[c] = "decide" ~> (pc[c] = "idle" \/ outcome # "ok")

-----------------------------------------------------------------------------
(* The inductive invariant *)

\* globalInitMutex is held by the caller inside init or deinit.
Owners == \A c \in Callers : pc[c] \in InGlobal <=> initMutex = c

\* The engine at each step of init and deinit; the epoch thread only with it.
EngineSteps ==
  /\ epochPc # "none" => engine
  /\ outcome # "epochDeadEngine"
  /\ (\A c \in Callers : pc[c] \in InGlobal => pc[c] \in {"decide", "stopEpoch"}) => Settled
  /\ \A c \in Callers :
       /\ pc[c] = "join"   => ~epochRunning
       /\ pc[c] \in {"delete", "create", "finish"} => epochPc = "none"
       /\ pc[c] = "create" => ~engine /\ arg[c] # None
       /\ pc[c] = "finish" /\ engine =>
            arg[c] # None /\ globalInitMs = arg[c] /\ timeLimitEpochs = Epochs(globalInitMs)

\* A WCLAP that is being opened or closed belongs to one caller.
HandleStage(l) == IF l \in {"group", "count"} THEN "opening"
                  ELSE IF l = "construct" THEN "constructing" ELSE "closing"

Handles ==
  /\ \A c \in Callers : pc[c] \in InWclap =>
       handle[c] \in Wclaps /\ wclap[handle[c]] = HandleStage(pc[c])
  /\ \A c, d \in Callers : pc[c] \in InWclap /\ pc[d] \in InWclap /\ handle[c] = handle[d] => c = d
  /\ \A w \in Wclaps : wclap[w] \in {"opening", "constructing", "closing"} =>
       \E c \in Callers : pc[c] \in InWclap /\ handle[c] = w

\* Without an overlap no WCLAP is left when the engine is about to go, and those
\* that are being opened have one.
Made == {"constructing", "open", "closing"}
Sequential ==
  /\ Overlap => overlap
  /\ ~overlap => \A c \in Callers :
       /\ pc[c] \in {"stopEpoch", "join", "delete"} => \A w \in Wclaps : wclap[w] \notin Made
       /\ pc[c] = "group" => globalInitOK
       /\ pc[c] = "count" => onEngine[handle[c]]

\* Inductive: together these are preserved by every step, and the properties
\* above follow from them.
IInv == /\ TypeOK /\ Owners /\ EngineSteps /\ Handles /\ CountMatchesOpen
        /\ Sequential /\ EngineOutlivesWclaps /\ OpenFindsEngine
===============================================================================
