------------------------------ MODULE PluginCalls ------------------------------
(***************************************************************************)
(* One Plugin's CLAP methods as the host's threads call them: the          *)
(* recursive locks a method takes (hostEventsMutex, hostStreamsMutex, the  *)
(* callMutex of the Instance it runs on), the host pointers it publishes   *)
(* for WASM code to use, host functions that re-enter the plugin, and the  *)
(* host's thread pool.  The host keeps CLAP's threading rules; the WASM    *)
(* code may trap whenever it runs.                                         *)
(***************************************************************************)
EXTENDS Integers, Sequences, FiniteSets

CONSTANTS Main, Audio,    \* the host's main and audio threads
          Workers,        \* its thread pool, {} if it has none
          None,
          SharedMemory,   \* the WCLAP imports memory: the plugin has its own Instance
          MaxDepth,       \* bound: nested method calls on the main thread
          MaxCallbacks    \* bound: host calls by one activation of a WASM function

ASSUME HostAssumption  == /\ Main # Audio /\ {Main, Audio} \cap Workers = {}
                          /\ None \notin Workers \cup {Main, Audio} /\ IsFiniteSet(Workers)
ASSUME BoundAssumption == /\ MaxDepth \in Nat \ {0} /\ MaxCallbacks \in Nat
                          /\ SharedMemory \in BOOLEAN

Actors == Workers \cup {Main, Audio}

VARIABLES
  stack,       \* each actor's active methods, innermost last
  locks,       \* owner and depth of each recursive mutex
  outEvents,   \* whose method set hostOutputEvents, None if it is null
  ostream,     \* depth of the method that set hostOstream, 0 if it is null
  phase,       \* the plugin, as CLAP sees it
  pending,     \* thread-pool tasks no worker has taken
  hasError     \* the InstanceGroup has an error

vars == <<stack, locks, outEvents, ostream, phase, pending, hasError>>

\* The mutex a method holds throughout, and the Instance it calls.
EventOps  == {"process", "flush"}
StreamOps == {"save"}
SetupOps  == {"activate", "deactivate", "start", "stop", "reset"}
Ops       == EventOps \cup StreamOps \cup SetupOps \cup {"method", "exec"}
HostLocks == {"events", "streams"}
Locks     == HostLocks \cup {"mainCall", "audioCall"}

Guard(op) == IF op \in EventOps THEN "events" ELSE "streams"

\* audioThread is the main Instance if startInstance() gave no other.
CallMutex(op) == IF op \in SetupOps /\ SharedMemory THEN "audioCall" ELSE "mainCall"

\* Where WASM code is running or waits in a host function: for the thread pool,
\* or for the mutex of that name.
InCall == {"wasm", "pool", "events", "streams"}

Frame == [op : Ops, at : {"lock", "call", "leave"} \cup InCall, callbacks : 0..MaxCallbacks]

TypeOK ==
  /\ stack \in [Actors -> Seq(Frame)]
  /\ locks \in [Locks -> [owner : Actors \cup {None}, depth : Nat]]
  /\ outEvents \in Actors \cup {None} /\ ostream \in 0..MaxDepth
  /\ phase \in {"inactive", "active", "processing"}
  /\ pending \in 0..Cardinality(Workers)
  /\ hasError \in BOOLEAN

Init ==
  /\ stack = [a \in Actors |-> <<>>]
  /\ locks = [l \in Locks |-> [owner |-> None, depth |-> 0]]
  /\ outEvents = None /\ ostream = 0
  /\ phase = "inactive" /\ pending = 0 /\ hasError = FALSE

Idle(a)  == stack[a] = <<>>
Top(a)   == stack[a][Len(stack[a])]
At(a, l) == ~Idle(a) /\ Top(a).at = l
Running(a, op) == \E i \in 1..Len(stack[a]) : stack[a][i].op = op

\* Move the innermost method of a on.
Goto(a, l) == stack' = [stack EXCEPT ![a][Len(stack[a])].at = l]

\* A recursive mutex: free, or taken again by its owner.
CanLock(a, l) == locks[l].owner \in {None, a}
Lock(a, l)    == locks' = [locks EXCEPT ![l] = [owner |-> a, depth |-> @.depth + 1]]
Unlock(l)     == locks' = [locks EXCEPT ![l] =
                    IF @.depth = 1 THEN [owner |-> None, depth |-> 0]
                                   ELSE [owner |-> @.owner, depth |-> @.depth - 1]]

-----------------------------------------------------------------------------
(* Mutants *)

WtCall_UnlocksOnError(a) ==     \* unlocks on a path that did not lock
  /\ At(a, "call") /\ CanLock(a, CallMutex(Top(a).op))
  /\ IF hasError THEN Goto(a, "leave") /\ Unlock(CallMutex(Top(a).op))
                 ELSE Goto(a, "wasm") /\ Lock(a, CallMutex(Top(a).op))
  /\ UNCHANGED <<outEvents, ostream, phase, pending, hasError>>

WasmReturns_KeepsLock(a) ==     \* an error path that leaves callMutex locked
  /\ At(a, "wasm")
  /\ hasError' \in {hasError, TRUE}
  /\ IF hasError' THEN UNCHANGED locks ELSE Unlock(CallMutex(Top(a).op))
  /\ Goto(a, "leave")
  /\ UNCHANGED <<outEvents, ostream, phase, pending>>

Unpublish_Forgets(a) == outEvents   \* leaves hostOutputEvents set

-----------------------------------------------------------------------------
(* What the host may call *)

\* CLAP's threading rules: flush is the audio thread's while the plugin is
\* active, activation does not overlap with anything on the audio thread.
MayEnter(a, op) ==
  CASE a = Main /\ op \in {"method", "save"} -> TRUE
    [] a = Main /\ op = "flush"      -> phase = "inactive" /\ ~Running(Main, "activate")
    [] a = Main /\ op = "activate"   -> phase = "inactive" /\ Idle(Main)
    [] a = Main /\ op = "deactivate" -> phase = "active" /\ Idle(Main) /\ Idle(Audio)
    [] a = Audio /\ op = "start"     -> phase = "active" /\ ~Running(Main, "deactivate")
    [] a = Audio /\ op \in {"process", "stop"} -> phase = "processing"
    [] a = Audio /\ op \in {"flush", "reset"} ->
         phase # "inactive" /\ ~Running(Main, "deactivate")
    [] a \in Workers /\ op = "exec"  -> pending > 0
    [] OTHER -> FALSE

Enter(a, op) ==
  stack' = [stack EXCEPT ![a] = Append(@,
    [op |-> op, at |-> IF op \in EventOps \cup StreamOps THEN "lock" ELSE "call",
     callbacks |-> MaxCallbacks])]

\* A call from the host's own event loop, audio callback or pool.
HostCalls(a, op) ==
  /\ Idle(a) /\ MayEnter(a, op)
  /\ Enter(a, op)
  /\ pending' = IF op = "exec" THEN pending - 1 ELSE pending
  /\ UNCHANGED <<locks, outEvents, ostream, phase, hasError>>

\* WASM code calls a host function, and the host calls the plugin from there.
HostReenters(op) ==
  /\ At(Main, "wasm") /\ Top(Main).callbacks > 0
  /\ CallMutex(Top(Main).op) = "mainCall"
  /\ Len(stack[Main]) < MaxDepth /\ MayEnter(Main, op) /\ op \notin SetupOps
  /\ LET n == Len(stack[Main])
     IN stack' = [stack EXCEPT ![Main] =
          Append([stack[Main] EXCEPT ![n].callbacks = @ - 1],
            [op |-> op, at |-> IF op \in EventOps \cup StreamOps THEN "lock" ELSE "call",
             callbacks |-> MaxCallbacks])]
  /\ UNCHANGED <<locks, outEvents, ostream, phase, pending, hasError>>

-----------------------------------------------------------------------------
(* The steps of a method *)

\* hostEventsMutex or hostStreamsMutex, then the host's pointer is published.
Publish(a) ==
  /\ At(a, "lock") /\ CanLock(a, Guard(Top(a).op))
  /\ Lock(a, Guard(Top(a).op))
  /\ outEvents' = IF Top(a).op \in EventOps THEN a ELSE outEvents
  /\ ostream' = IF Top(a).op \in StreamOps THEN Len(stack[a]) ELSE ostream
  /\ Goto(a, "call")
  /\ UNCHANGED <<phase, pending, hasError>>

\* wtCall: lock, then the WASM function unless the group has an error.
WtCall(a) ==
  /\ At(a, "call") /\ CanLock(a, CallMutex(Top(a).op))
  /\ IF hasError THEN Goto(a, "leave") /\ UNCHANGED locks
                 ELSE Goto(a, "wasm") /\ Lock(a, CallMutex(Top(a).op))
  /\ UNCHANGED <<outEvents, ostream, phase, pending, hasError>>

\* The WASM function returns, traps or times out.
WasmReturns(a) ==
  /\ At(a, "wasm")
  /\ hasError' \in {hasError, TRUE}
  /\ Unlock(CallMutex(Top(a).op))
  /\ Goto(a, "leave")
  /\ UNCHANGED <<outEvents, ostream, phase, pending>>

\* WASM code calls a host function that takes no lock, through its table: only the
\* main Instance's has them (addHostFunctions is never called for the plugin's own).
HostFunction(a) ==
  /\ At(a, "wasm") /\ Top(a).callbacks > 0
  /\ LET n == Len(stack[a]) IN
       IF CallMutex(Top(a).op) = "mainCall"
       THEN stack' = [stack EXCEPT ![a][n].callbacks = @ - 1] /\ UNCHANGED <<locks, hasError>>
       ELSE /\ stack' = [stack EXCEPT ![a][n].callbacks = @ - 1, ![a][n].at = "leave"]
            /\ hasError' = TRUE
            /\ Unlock("audioCall")
  /\ UNCHANGED <<outEvents, ostream, phase, pending>>

\* WASM code asks for the size, an event or a push of an event list, or for a part of
\* a stream.  The host function needs mutex l while callMutex is held; nothing
\* says that the list is one that a call on this thread was given.
HostAsks(a, l) ==
  /\ At(a, "wasm") /\ Top(a).callbacks > 0 /\ CallMutex(Top(a).op) = "mainCall"
  /\ LET n == Len(stack[a]) IN stack' = [stack EXCEPT ![a][n].callbacks = @ - 1, ![a][n].at = l]
  /\ UNCHANGED <<locks, outEvents, ostream, phase, pending, hasError>>

\* It gets the mutex, and gives it back before it returns (the host takes the event
\* or the bytes without calling the plugin).  No deadline ends the wait for it.
HostAnswers(a, l) ==
  /\ At(a, l) /\ CanLock(a, l)
  /\ Goto(a, "wasm")
  /\ UNCHANGED <<locks, outEvents, ostream, phase, pending, hasError>>

\* hostThreadPool->request_exec, called by process(), returns when all its
\* tasks have run (threadPool_exec).  Some, none or all go to the pool's threads;
\* the host may run the rest on the audio thread, where callMutex is recursive.
RequestExec ==
  /\ At(Audio, "wasm") /\ Top(Audio).op = "process" /\ Top(Audio).callbacks > 0
  /\ Workers # {}
  /\ pending' \in 0..Cardinality(Workers)
  /\ stack' = [stack EXCEPT ![Audio][1].callbacks = @ - 1, ![Audio][1].at = "pool"]
  /\ UNCHANGED <<locks, outEvents, ostream, phase, hasError>>

RequestExecReturns ==
  /\ At(Audio, "pool") /\ pending = 0 /\ \A w \in Workers : Idle(w)
  /\ Goto(Audio, "wasm")
  /\ UNCHANGED <<locks, outEvents, ostream, phase, pending, hasError>>

\* hostOutputEvents as a method that set it leaves it.
Unpublish(a) == IF Top(a).op \in EventOps THEN None ELSE outEvents

\* The phase after a method returns; one that is refused changes nothing.
PhaseAfter(op) ==
  CASE op = "activate"   -> {phase, "active"}
    [] op = "deactivate" -> {"inactive"}
    [] op = "start"      -> {phase, "processing"}
    [] op = "stop"       -> {"active"}
    [] OTHER             -> {phase}

Leave(a) ==
  /\ At(a, "leave")
  /\ LET op == Top(a).op IN
       /\ IF op \in EventOps \cup StreamOps THEN Unlock(Guard(op)) ELSE UNCHANGED locks
       /\ ostream' = IF op \in StreamOps THEN 0 ELSE ostream
       /\ phase' \in PhaseAfter(op)
  /\ outEvents' = Unpublish(a)
  /\ stack' = [stack EXCEPT ![a] = SubSeq(@, 1, Len(@) - 1)]
  /\ UNCHANGED <<pending, hasError>>

-----------------------------------------------------------------------------
Step(a) == \/ Publish(a) \/ WtCall(a) \/ WasmReturns(a) \/ Leave(a)
           \/ \E l \in HostLocks : HostAnswers(a, l)

Next == \/ \E a \in Actors, op \in Ops : HostCalls(a, op)
        \/ \E op \in Ops : HostReenters(op)
        \/ \E a \in Actors : Step(a) \/ HostFunction(a)
        \/ \E a \in Actors, l \in HostLocks : HostAsks(a, l)
        \/ RequestExec \/ RequestExecReturns

Spec == Init /\ [][Next]_vars

\* Threads inside the bridge keep running, no one starves for a mutex, WASM
\* code ends (it traps at its epoch deadline), the pool takes its tasks.
FairSpec ==
  /\ Spec
  /\ \A a \in Actors : SF_vars(Step(a))
  /\ \A w \in Workers : WF_vars(HostCalls(w, "exec"))
  /\ WF_vars(RequestExecReturns)

-----------------------------------------------------------------------------
(* Properties *)

\* A method that holds mutex l, and the frames of a that do.
Holds(f, l) ==
  \/ f.at # "lock" /\ f.op \in EventOps \cup StreamOps /\ Guard(f.op) = l
  \/ f.at \in InCall /\ CallMutex(f.op) = l

Holding(a, l) == {i \in 1..Len(stack[a]) : Holds(stack[a][i], l)}

\* Each recursive mutex is held by one thread, as often as methods of that
\* thread are inside it: every path out of a method releases what it took.
LocksBalanced ==
  \A l \in Locks, a \in Actors :
    Cardinality(Holding(a, l)) = IF locks[l].owner = a THEN locks[l].depth ELSE 0

\* hostOutputEvents never outlives the process() or flush() it was passed to,
\* and only the thread that holds hostEventsMutex finds its own events there.
OutEventsAreLive ==
  outEvents # None =>
    /\ locks["events"].owner = outEvents
    /\ Running(outEvents, "process") \/ Running(outEvents, "flush")

\* What else the inductive invariant needs: a mutex is free at depth 0, methods
\* nest on the main thread only, and those that wait for a guard have one.
InOrder ==
  /\ \A l \in Locks : locks[l].owner = None <=> locks[l].depth = 0
  /\ \A a \in Actors : Len(stack[a]) <= IF a = Main THEN MaxDepth ELSE 1
  /\ \A a \in Actors : \A i \in 1..Len(stack[a]) :
       stack[a][i].at = "lock" => stack[a][i].op \in EventOps \cup StreamOps

\* The type invariant, the two properties above and what makes them inductive.
IInv == TypeOK /\ InOrder /\ LocksBalanced /\ OutEventsAreLive

\* The host functions of HostAsks lock in the opposite order to the methods: one
\* thread's WASM code wants the list or stream that another thread's method was
\* given, and that method waits for the callMutex which this WASM code runs under.
LockInversion ==
  \E a, b \in Actors, l \in HostLocks :
    /\ At(a, l) /\ locks[l].owner = b
    /\ At(b, "call") /\ locks[CallMutex(Top(b).op)].owner = a
    /\ a # b

\* Wherever WASM code traps, and whichever lists and streams it uses when, a method
\* the host calls on the audio thread returns, unless process() waits for the pool or
\* two threads are in LockInversion: there is no other deadlock.  WASM code that uses
\* lists and streams only inside the call that passed them never is in the second.
AudioReturns == ~Idle(Audio) ~> Idle(Audio) \/ At(Audio, "pool") \/ LockInversion

\* So does every call on the main thread, with the same two exceptions.
MainReturns == ~Idle(Main) ~> Idle(Main) \/ At(Audio, "pool") \/ LockInversion

\* "The bridge supports all the (non-draft) extensions ..." (README.md): a
\* thread-pool request by process() returns.
PoolRequestReturns == At(Audio, "pool") ~> ~At(Audio, "pool")

\* Host functions "will forward calls to the appropriate Plugin"
\* (wclap-module-base.h:126): using one is no error of the group.
HostFunctionsForward ==
  [][\A a \in Actors : HostFunction(a) => hasError' = hasError]_vars
===============================================================================
