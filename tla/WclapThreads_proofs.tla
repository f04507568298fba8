------------------------- MODULE WclapThreads_proofs -------------------------
(***************************************************************************)
(* Theorems about WclapThreads, for every set of threads: type             *)
(* correctness, the inductive invariant of the registry, and what follows  *)
(* from it.                                                                *)
(***************************************************************************)
EXTENDS WclapThreads, FiniteSetTheorems, TLAPS

USE ActorsAssumption, LimitAssumption DEF Actors

-----------------------------------------------------------------------------
(* Type correctness *)

\* The constructor starts from a well-formed state.
LEMMA TypeInit == Init => TypeOK
<1> SUFFICES ASSUME Init PROVE TypeOK
  OBVIOUS
<1>1. 0..size-1 = 0..0 /\ size \in Nat \ {0}
  BY DEF Init
<1>2. threads \in [0..size-1 -> Threads \cup {None}]
  BY <1>1 DEF Init
<1> QED
  BY <1>1, <1>2 DEF Init, TypeOK, MainPc, ThreadPc, SpawnPc, Errors

\* One step per action; only SpawnStart and the two stores change the registry.
LEMMA TypeNext == TypeOK /\ [Next]_vars => TypeOK'
<1> SUFFICES ASSUME TypeOK, [Next]_vars PROVE TypeOK'
  OBVIOUS
<1> USE DEF TypeOK, MainPc, ThreadPc, SpawnPc, Errors, Goto, SetGroupError,
            errorVars, hookVars, registryVars
<1>1. CASE ConstructFails
  BY <1>1 DEF ConstructFails
<1>2. CASE ConstructSetsHook
  BY <1>2 DEF ConstructSetsHook
<1>3. CASE InitializeReturns
  BY <1>3 DEF InitializeReturns
<1>4. CASE InitializeFails
  BY <1>4 DEF InitializeFails
<1>5. CASE EntryInit
  BY <1>5, ZenonT(60) DEF EntryInit
<1>6. CASE EntryInitTrue
  BY <1>6 DEF EntryInitTrue
<1>7. CASE EntryInitFalse
  BY <1>7 DEF EntryInitFalse
<1>8. CASE HostCall
  BY <1>8 DEF HostCall
<1>9. CASE HostCallEnds
  BY <1>9 DEF HostCallEnds
<1>10. CASE GetError
  BY <1>10 DEF GetError
<1>11. CASE Close
  BY <1>11 DEF Close
<1>12. CASE CloseLock
  BY <1>12 DEF CloseLock
<1>13. CASE ClearFn
  BY <1>13 DEF ClearFn
<1>14. CASE ClearCtx
  BY <1>14 DEF ClearCtx
<1>15. CASE Scan
  BY <1>15 DEF Scan
<1>16. ASSUME NEW a \in Actors, SpawnCheck(a) PROVE TypeOK'
  BY <1>16 DEF SpawnCheck
<1>17. ASSUME NEW a \in Actors, SpawnCall(a) PROVE TypeOK'
  BY <1>17 DEF SpawnCall
<1>18. ASSUME NEW a \in Actors, SpawnRefused(a) PROVE TypeOK'
  BY <1>18 DEF SpawnRefused
<1>19. ASSUME NEW a \in Actors, SpawnLock(a) PROVE TypeOK'
  BY <1>19 DEF SpawnLock
<1>20. ASSUME NEW a \in Actors, SpawnFails(a) PROVE TypeOK'
  BY <1>20 DEF SpawnFails
<1>21. ASSUME NEW a \in Actors, SpawnStart(a) PROVE TypeOK'
  <2>1. PICK t \in Threads, i \in 1..size :
           /\ pc' = [pc EXCEPT ![t] = "start"]
           /\ slot' = [slot EXCEPT ![t] = i]
           /\ stop' = [stop EXCEPT ![t] = FALSE]
           /\ child' = [child EXCEPT ![a] = t]
           /\ size' = IF i = size THEN size + 1 ELSE size
           /\ threads' = [j \in 0..size'-1 |-> IF j < size THEN threads[j] ELSE None]
    BY <1>21 DEF SpawnStart
  <2>2. size' \in Nat \ {0}
    BY <2>1
  <2>3. threads' \in [0..size'-1 -> Threads \cup {None}]
    BY <2>1, <2>2
  <2> QED
    BY <1>21, <2>1, <2>2, <2>3 DEF SpawnStart
<1>22. ASSUME NEW a \in Actors, SpawnStore(a) PROVE TypeOK'
  <2>1. threads' \in [0..size'-1 -> Threads \cup {None}]
    <3>1. child[a] \in Threads \cup {None} /\ size' = size
      BY <1>22 DEF SpawnStore
    <3>2. threads' = [threads EXCEPT ![slot[child[a]]] = child[a]]
      BY <1>22 DEF SpawnStore
    <3> QED
      BY <3>1, <3>2
  <2> QED
    BY <1>22, <2>1, ZenonT(60) DEF SpawnStore
<1>23. ASSUME NEW t \in Threads, RunLookup(t) PROVE TypeOK'
  <2>1. CASE threads[slot[t]] = t
    <3>1. /\ pc' = [pc EXCEPT ![t] = "entered"] /\ fault' = fault
          /\ UNCHANGED <<spawn, child, stop, mutex, hadInit, errorVars, hookVars, registryVars>>
      BY ONLY <1>23, <2>1 DEF RunLookup, Goto
    <3> QED
      BY <3>1, ActorsAssumption
  <2>2. CASE threads[slot[t]] # t
    BY <1>23, <2>2 DEF RunLookup
  <2> QED
    BY <2>1, <2>2
<1>24. ASSUME NEW t \in Threads, RunCheckInit(t) PROVE TypeOK'
  BY <1>24 DEF RunCheckInit
<1>25. ASSUME NEW t \in Threads, RunNoEntry(t) PROVE TypeOK'
  BY <1>25 DEF RunNoEntry
<1>26. ASSUME NEW t \in Threads, RunNotInit(t) PROVE TypeOK'
  BY <1>26 DEF RunNotInit
<1>27. ASSUME NEW t \in Threads, WasmEnds(t) PROVE TypeOK'
  BY <1>27 DEF WasmEnds
<1>28. ASSUME NEW t \in Threads, EpochStop(t) PROVE TypeOK'
  BY <1>28 DEF EpochStop
<1>29. ASSUME NEW t \in Threads, FinishRemove(t) PROVE TypeOK'
  BY <1>29 DEF FinishRemove
<1>30. CASE UNCHANGED vars
  BY <1>30 DEF vars
<1> QED
  BY <1>1, <1>2, <1>3, <1>4, <1>5, <1>6, <1>7, <1>8, <1>9, <1>10, <1>11, <1>12, <1>13, <1>14, <1>15, <1>16, <1>17, <1>18, <1>19, <1>20, <1>21, <1>22, <1>23, <1>24, <1>25, <1>26, <1>27, <1>28, <1>29, <1>30
  DEF Next, MainStep, SpawnStep, ThreadStep, Terminated

\* Every variable keeps its shape in every behaviour.
THEOREM TypeCorrect == Spec => []TypeOK
<1>1. Init => TypeOK
  BY TypeInit
<1>2. TypeOK /\ [Next]_vars => TypeOK'
  BY TypeNext
<1> QED
  BY <1>1, <1>2, PTL DEF Spec

-----------------------------------------------------------------------------
(* The inductive invariant *)

\* Before the constructor runs no thread, slot or mutex is in use.
LEMMA InitIInv == Init => IInv
<1> SUFFICES ASSUME Init PROVE IInv
  OBVIOUS
<1>1. TypeOK
  BY TypeInit
<1>2. \A i \in 0..size-1 : threads[i] = None
  BY DEF Init
<1>3. LiveThreads = {}
  BY DEF Init, LiveThreads
<1> QED
  BY <1>1, <1>2, <1>3 DEF Init, IInv, MutexHeld, SpawnersInWasm, ChildPending,
     SlotsHoldLiveThreads, LiveThreadsRegistered, NoThreadOutlivesModule, LookupFindsItself

\* A step of the host that leaves locks, spawners and registry alone, taken
\* outside a spawn, and neither enters the locked part of the destructor nor
\* ends it.
LEMMA HostMoves ==
  ASSUME IInv, TypeOK',
         NEW l \in MainPc \ {"clearFn", "clearCtx", "destroyed"},
         spawn[Main] = "idle", Goto(Main, l),
         UNCHANGED <<spawn, child, mutex, fault, registryVars>>
  PROVE  IInv'
<1> USE DEF IInv, Goto, registryVars
<1>1. \A t \in Threads : pc'[t] = pc[t]
  BY DEF TypeOK
<1>2. pc'[Main] = l
  BY DEF TypeOK
<1>3. LiveThreads' = LiveThreads
  BY <1>1 DEF LiveThreads
<1>4. MutexHeld'
  BY <1>2 DEF MutexHeld
<1>5. SpawnersInWasm'
  BY <1>1 DEF SpawnersInWasm, InWasm
<1>6. ChildPending'
  BY <1>1 DEF ChildPending
<1>7. SlotsHoldLiveThreads'
  BY <1>1 DEF SlotsHoldLiveThreads, TypeOK
<1>8. LiveThreadsRegistered'
  BY <1>1, <1>3 DEF LiveThreadsRegistered, LiveThreads
<1>9. NoThreadOutlivesModule' /\ LookupFindsItself'
  BY <1>2 DEF NoThreadOutlivesModule, LookupFindsItself, MainPc
<1> QED
  BY <1>4, <1>5, <1>6, <1>7, <1>8, <1>9

\* A step of a registered thread from one place of its function to another.
LEMMA ThreadMoves ==
  ASSUME IInv, TypeOK', NEW t \in Threads, NEW l \in ThreadPc \ {"none"},
         pc[t] \notin {"none", "start"}, spawn[t] = "idle", Goto(t, l),
         UNCHANGED <<spawn, child, mutex, fault, registryVars>>
  PROVE  IInv'
<1> USE DEF IInv, Goto, registryVars
<1>1. pc'[Main] = pc[Main]
  BY DEF TypeOK
<1>2. \A u \in Threads \ {t} : pc'[u] = pc[u]
  BY DEF TypeOK
<1>3. pc'[t] = l
  BY DEF TypeOK
<1>4. LiveThreads' = LiveThreads
  BY <1>2, <1>3 DEF LiveThreads
<1>5. MutexHeld'
  BY <1>1 DEF MutexHeld
<1>6. SpawnersInWasm'
  BY <1>1, <1>2 DEF SpawnersInWasm, InWasm
<1>7. ChildPending'
  BY <1>2 DEF ChildPending
<1>8. SlotsHoldLiveThreads'
  BY <1>2, <1>3 DEF SlotsHoldLiveThreads, TypeOK
<1>9. LiveThreadsRegistered'
  BY <1>2, <1>4 DEF LiveThreadsRegistered, LiveThreads
<1>10. NoThreadOutlivesModule' /\ LookupFindsItself'
  BY <1>1, <1>4 DEF NoThreadOutlivesModule, LookupFindsItself
<1> QED
  BY <1>5, <1>6, <1>7, <1>8, <1>9, <1>10

\* With the mutex free no spawner is in its critical section, so no thread is
\* still to be stored.
LEMMA CloseLockIInv == ASSUME IInv, TypeOK', CloseLock PROVE IInv'
<1> USE DEF IInv, CloseLock, Goto, errorVars, hookVars, registryVars
<1>1. /\ pc'[Main] = "clearFn" /\ mutex' = Main
      /\ \A t \in Threads : pc'[t] = pc[t]
  BY DEF TypeOK
<1>2. \A a \in Actors : spawn[a] \notin {"locked", "started"}
  BY DEF MutexHeld
<1>3. LiveThreads' = LiveThreads
  BY <1>1 DEF LiveThreads
<1>4. MutexHeld' /\ ChildPending'
  BY <1>1, <1>2 DEF MutexHeld, ChildPending
<1>5. SpawnersInWasm'
  BY <1>1 DEF SpawnersInWasm, InWasm
<1>6. SlotsHoldLiveThreads'
  BY <1>1 DEF SlotsHoldLiveThreads, TypeOK
<1>7. LiveThreadsRegistered'
  BY <1>2, <1>3 DEF LiveThreadsRegistered
<1>8. NoThreadOutlivesModule' /\ LookupFindsItself'
  BY <1>1 DEF NoThreadOutlivesModule, LookupFindsItself
<1> QED
  BY <1>4, <1>5, <1>6, <1>7, <1>8

\* The destructor's two stores are made with the mutex held.
LEMMA ClearFnIInv == ASSUME IInv, TypeOK', ClearFn PROVE IInv'
<1> USE DEF IInv, ClearFn, Goto, errorVars, registryVars
<1>1. pc'[Main] = "clearCtx" /\ \A t \in Threads : pc'[t] = pc[t]
  BY DEF TypeOK
<1>2. LiveThreads' = LiveThreads
  BY <1>1 DEF LiveThreads
<1>3. MutexHeld'
  BY <1>1 DEF MutexHeld
<1>4. SpawnersInWasm'
  BY <1>1 DEF SpawnersInWasm, InWasm
<1>5. ChildPending'
  BY <1>1 DEF ChildPending
<1>6. SlotsHoldLiveThreads'
  BY <1>1 DEF SlotsHoldLiveThreads, TypeOK
<1>7. LiveThreadsRegistered'
  BY <1>1, <1>2 DEF LiveThreadsRegistered, LiveThreads
<1>8. NoThreadOutlivesModule' /\ LookupFindsItself'
  BY <1>1 DEF NoThreadOutlivesModule, LookupFindsItself
<1> QED
  BY <1>3, <1>4, <1>5, <1>6, <1>7, <1>8

\* The second store also frees the mutex, which its holder alone had.
LEMMA ClearCtxIInv == ASSUME IInv, TypeOK', ClearCtx PROVE IInv'
<1> USE DEF IInv, ClearCtx, Goto, errorVars, registryVars
<1>1. pc'[Main] = "scan" /\ \A t \in Threads : pc'[t] = pc[t]
  BY DEF TypeOK
<1>2. mutex = Main /\ spawn[Main] = "idle"
  BY DEF MutexHeld, SpawnersInWasm, InWasm
<1>3. \A a \in Actors : spawn[a] \notin {"locked", "started"}
  BY <1>2 DEF MutexHeld
<1>4. LiveThreads' = LiveThreads
  BY <1>1 DEF LiveThreads
<1>5. MutexHeld' /\ ChildPending'
  BY <1>1, <1>3 DEF MutexHeld, ChildPending
<1>6. SpawnersInWasm'
  BY <1>1 DEF SpawnersInWasm, InWasm
<1>7. SlotsHoldLiveThreads'
  BY <1>1 DEF SlotsHoldLiveThreads, TypeOK
<1>8. LiveThreadsRegistered'
  BY <1>3, <1>4 DEF LiveThreadsRegistered
<1>9. NoThreadOutlivesModule' /\ LookupFindsItself'
  BY <1>1 DEF NoThreadOutlivesModule, LookupFindsItself
<1> QED
  BY <1>5, <1>6, <1>7, <1>8, <1>9

\* A scan that finds every slot empty, with the mutex free, has found every
\* live thread: there is none.
LEMMA ScanIInv == ASSUME IInv, TypeOK', Scan PROVE IInv'
<1> USE DEF IInv, Scan, Goto, errorVars, hookVars, registryVars
<1>1. /\ pc'[Main] \in {"scan", "destroyed"}
      /\ \A t \in Threads : pc'[t] = pc[t]
  BY DEF TypeOK
<1>2. \A a \in Actors : spawn[a] \notin {"locked", "started"}
  BY DEF MutexHeld
<1>3. \A t \in LiveThreads : slot[t] \in 1..size-1 /\ threads[slot[t]] = t
  BY <1>2 DEF LiveThreadsRegistered
<1>4. ASSUME Registered = {} PROVE LiveThreads = {}
  <2>1. SUFFICES ASSUME NEW t \in LiveThreads PROVE FALSE
    OBVIOUS
  <2>2. t # None
    BY DEF LiveThreads
  <2>3. slot[t] \in 0..size-1
    BY <1>3 DEF TypeOK
  <2>4. t \in Registered
    BY <1>3, <2>2, <2>3 DEF Registered
  <2> QED
    BY <1>4, <2>4
<1>5. LiveThreads' = LiveThreads
  BY <1>1 DEF LiveThreads
<1>6. MutexHeld' /\ ChildPending'
  BY <1>1, <1>2 DEF MutexHeld, ChildPending
<1>7. SpawnersInWasm'
  BY <1>1 DEF SpawnersInWasm, InWasm
<1>8. SlotsHoldLiveThreads'
  BY <1>1 DEF SlotsHoldLiveThreads, TypeOK
<1>9. LiveThreadsRegistered'
  BY <1>2, <1>5 DEF LiveThreadsRegistered
<1>10. NoThreadOutlivesModule'
  <2>1. CASE Registered = {}
    BY <1>4, <1>5, <2>1 DEF NoThreadOutlivesModule
  <2>2. CASE Registered # {}
    BY <2>2 DEF NoThreadOutlivesModule, TypeOK
  <2> QED
    BY <2>1, <2>2
<1>11. LookupFindsItself'
  BY DEF LookupFindsItself
<1> QED
  BY <1>6, <1>7, <1>8, <1>9, <1>10, <1>11

\* A spawner outside its critical section changes nothing the registry knows.
LEMMA SpawnerMoves ==
  ASSUME IInv, TypeOK', NEW a \in Actors, NEW l \in SpawnPc \ {"started"},
         spawn[a] # "started", InWasm(a),
         spawn' = [spawn EXCEPT ![a] = l],
         \/ l # "locked" /\ mutex' = mutex
         \/ l = "locked" /\ mutex = None /\ mutex' = a
         \/ l = "idle" /\ mutex = a /\ mutex' = None,
         fault' # "nullThread",
         UNCHANGED <<pc, child, registryVars>>
  PROVE  IInv'
<1> USE DEF IInv, registryVars
<1>1. spawn'[a] = l /\ \A b \in Actors \ {a} : spawn'[b] = spawn[b]
  BY DEF TypeOK
<1>2. LiveThreads' = LiveThreads
  BY DEF LiveThreads
<1>3. /\ \A b \in Actors : spawn'[b] \in {"locked", "started"} => mutex' = b
  BY <1>1 DEF MutexHeld
<1>4. pc'[Main] \in {"clearFn", "clearCtx"} => mutex' = Main
  <2>1. SUFFICES ASSUME pc[Main] \in {"clearFn", "clearCtx"} PROVE mutex' = mutex
    BY DEF MutexHeld
  <2>2. a # Main /\ mutex = Main
    BY <2>1 DEF MutexHeld, InWasm
  <2> QED
    BY <2>2
<1>5. MutexHeld'
  BY <1>3, <1>4 DEF MutexHeld
<1>6. SpawnersInWasm'
  BY <1>1 DEF SpawnersInWasm, InWasm
<1>7. ChildPending'
  BY <1>1 DEF ChildPending
<1>8. SlotsHoldLiveThreads'
  BY DEF SlotsHoldLiveThreads
<1>9. LiveThreadsRegistered'
  <2>1. SUFFICES ASSUME NEW t \in LiveThreads
                 PROVE  /\ slot[t] \in 1..size-1
                        /\ \/ threads[slot[t]] = t
                           \/ \E b \in Actors : /\ spawn'[b] = "started" /\ child[b] = t
                                                /\ mutex' = b
                                                /\ threads[slot[t]] = None /\ pc[t] = "start"
    BY <1>2 DEF LiveThreadsRegistered
  <2>2. CASE threads[slot[t]] = t
    BY <2>2 DEF LiveThreadsRegistered
  <2>3. CASE threads[slot[t]] # t
    <3>1. PICK b \in Actors : /\ spawn[b] = "started" /\ child[b] = t /\ mutex = b
                              /\ threads[slot[t]] = None /\ pc[t] = "start"
      BY <2>3 DEF LiveThreadsRegistered
    <3>2. b # a /\ spawn'[b] = "started"
      BY <1>1, <3>1
    <3>3. mutex' = b
      BY <1>3, <3>2
    <3> QED
      BY <3>1, <3>2, <3>3 DEF LiveThreadsRegistered
  <2> QED
    BY <2>2, <2>3
<1>10. NoThreadOutlivesModule' /\ LookupFindsItself'
  BY <1>2 DEF NoThreadOutlivesModule, LookupFindsItself
<1> QED
  BY <1>5, <1>6, <1>7, <1>8, <1>9, <1>10

\* The new thread is its spawner's pending child; its slot stays empty.
LEMMA SpawnStartIInv ==
  ASSUME IInv, TypeOK', NEW a \in Actors, SpawnStart(a)
  PROVE  IInv'
<1> USE DEF IInv, Goto, errorVars, hookVars
<1>1. PICK t \in Threads, i \in 1..size :
         /\ pc[t] = "none" /\ FirstEmpty(i)
         /\ pc' = [pc EXCEPT ![t] = "start"]
         /\ slot' = [slot EXCEPT ![t] = i]
         /\ child' = [child EXCEPT ![a] = t]
         /\ size' = IF i = size THEN size + 1 ELSE size
         /\ threads' = [j \in 0..size'-1 |-> IF j < size THEN threads[j] ELSE None]
  BY DEF SpawnStart
<1>2. /\ spawn[a] = "locked" /\ spawn' = [spawn EXCEPT ![a] = "started"]
      /\ mutex' = mutex /\ fault' = fault
  BY DEF SpawnStart
<1>3. mutex = a /\ InWasm(a)
  BY <1>2 DEF MutexHeld, SpawnersInWasm
<1>4. \A b \in Actors : spawn[b] # "started"
  BY <1>2, <1>3 DEF MutexHeld
<1>5. /\ spawn'[a] = "started" /\ child'[a] = t
      /\ \A b \in Actors \ {a} : spawn'[b] = spawn[b]
  BY <1>1, <1>2 DEF TypeOK
<1>6. /\ pc'[t] = "start" /\ pc'[Main] = pc[Main] /\ slot'[t] = i
      /\ \A u \in Threads \ {t} : pc'[u] = pc[u] /\ slot'[u] = slot[u]
  BY <1>1 DEF TypeOK
<1>7. /\ \A j \in 0..size-1 : j \in 0..size'-1 /\ threads'[j] = threads[j]
      /\ \A j \in 0..size'-1 : j \notin 0..size-1 => threads'[j] = None
  BY <1>1 DEF TypeOK
<1>8. i \in 1..size'-1 /\ threads'[i] = None
  BY <1>1, <1>7 DEF TypeOK, FirstEmpty
<1>9. LiveThreads' = LiveThreads \cup {t}
  BY <1>6 DEF LiveThreads
<1>10. MutexHeld'
  BY <1>2, <1>3, <1>4, <1>5, <1>6 DEF MutexHeld, SpawnersInWasm
<1>11. SpawnersInWasm'
  BY <1>1, <1>3, <1>5, <1>6 DEF SpawnersInWasm, InWasm
<1>12. ChildPending'
  BY <1>4, <1>5, <1>6, <1>8 DEF ChildPending
<1>13. SlotsHoldLiveThreads'
  <2>1. SUFFICES ASSUME NEW j \in 0..size'-1, threads'[j] # None
                 PROVE  pc'[threads'[j]] # "none" /\ slot'[threads'[j]] = j
    BY DEF SlotsHoldLiveThreads
  <2>2. j \in 0..size-1 /\ threads'[j] = threads[j]
    BY <1>7, <2>1
  <2>3. threads[j] \in Threads \ {t}
    BY <1>1, <2>1, <2>2 DEF SlotsHoldLiveThreads, TypeOK
  <2> QED
    BY <1>6, <2>1, <2>2, <2>3 DEF SlotsHoldLiveThreads
<1>14. LiveThreadsRegistered'
  <2>1. SUFFICES ASSUME NEW u \in LiveThreads'
                 PROVE  /\ slot'[u] \in 1..size'-1
                        /\ \/ threads'[slot'[u]] = u
                           \/ \E b \in Actors : /\ spawn'[b] = "started" /\ child'[b] = u
                                                /\ mutex' = b
                                                /\ threads'[slot'[u]] = None /\ pc'[u] = "start"
    BY DEF LiveThreadsRegistered
  <2>2. CASE u = t
    BY <1>2, <1>3, <1>5, <1>6, <1>8, <2>2
  <2>3. CASE u # t
    <3>1. u \in LiveThreads /\ slot'[u] = slot[u]
      BY <1>6, <1>9, <2>3 DEF LiveThreads
    <3>2. slot[u] \in 1..size-1 /\ threads[slot[u]] = u
      BY <1>4, <3>1 DEF LiveThreadsRegistered
    <3>3. slot[u] \in 0..size-1 /\ size' \in {size, size + 1} /\ size \in Nat
      BY <1>1, <3>2 DEF TypeOK
    <3>4. slot[u] \in 1..size'-1
      BY <3>2, <3>3
    <3>5. threads'[slot[u]] = u
      BY <1>7, <3>2, <3>3
    <3> QED
      BY <3>1, <3>4, <3>5
  <2> QED
    BY <2>2, <2>3
<1>15. NoThreadOutlivesModule'
  BY <1>3, <1>6 DEF NoThreadOutlivesModule, InWasm, LiveThreads
<1>16. LookupFindsItself'
  BY <1>2 DEF LookupFindsItself
<1> QED
  BY <1>10, <1>11, <1>12, <1>13, <1>14, <1>15, <1>16

\* The pending child's slot is still empty, so storing it displaces no Thread.
LEMMA SpawnStoreIInv ==
  ASSUME IInv, TypeOK', NEW a \in Actors, SpawnStore(a)
  PROVE  IInv'
<1> USE DEF IInv, errorVars, hookVars
<1> DEFINE c == child[a]
<1>1. /\ c \in Threads /\ pc[c] = "start"
      /\ slot[c] \in 1..size-1 /\ slot[c] \in 0..size-1 /\ threads[slot[c]] = None
  BY DEF SpawnStore, ChildPending, TypeOK
<1>2. /\ threads' = [threads EXCEPT ![slot[c]] = c]
      /\ spawn' = [spawn EXCEPT ![a] = "idle"]
      /\ mutex = a /\ mutex' = None
      /\ UNCHANGED <<pc, slot, size, fault>>
  BY DEF SpawnStore, MutexHeld
<1>3. /\ threads'[slot[c]] = c
      /\ \A i \in 0..size-1 : i # slot[c] => threads'[i] = threads[i]
  BY <1>1, <1>2 DEF TypeOK
<1>4. InWasm(a)
  BY DEF SpawnStore, SpawnersInWasm
<1>5. \A b \in Actors : spawn'[b] \notin {"locked", "started"}
  BY <1>2 DEF MutexHeld, TypeOK
<1>6. LiveThreads' = LiveThreads
  BY <1>2 DEF LiveThreads
<1>7. MutexHeld'
  <2>1. pc[Main] \notin {"clearFn", "clearCtx"}
    BY <1>2, <1>4 DEF MutexHeld, InWasm
  <2> QED
    BY <1>2, <1>5, <2>1 DEF MutexHeld
<1>8. SpawnersInWasm'
  BY <1>2 DEF SpawnersInWasm, InWasm, TypeOK
<1>9. ChildPending'
  BY <1>5 DEF ChildPending
<1>10. SlotsHoldLiveThreads'
  BY <1>1, <1>2, <1>3 DEF SlotsHoldLiveThreads
<1>11. LiveThreadsRegistered'
  <2>1. SUFFICES ASSUME NEW u \in LiveThreads
                 PROVE  slot[u] \in 1..size-1 /\ threads'[slot[u]] = u
    BY <1>2, <1>6 DEF LiveThreadsRegistered
  <2>2. CASE threads[slot[u]] = u
    <3>1. slot[u] \in 1..size-1 /\ slot[u] \in 0..size-1 /\ u # None
      BY DEF LiveThreadsRegistered, LiveThreads, TypeOK
    <3> QED
      BY <1>1, <1>3, <2>2, <3>1
  <2>3. CASE threads[slot[u]] # u
    <3>1. u = c
      BY <1>2, <2>3 DEF LiveThreadsRegistered
    <3> QED
      BY <1>1, <1>3, <3>1
  <2> QED
    BY <2>2, <2>3
<1>12. NoThreadOutlivesModule' /\ LookupFindsItself'
  BY <1>2, <1>6 DEF NoThreadOutlivesModule, LookupFindsItself
<1> QED
  BY <1>7, <1>8, <1>9, <1>10, <1>11, <1>12

\* With the mutex free a starting thread's spawner has stored it.
LEMMA RunLookupIInv ==
  ASSUME IInv, TypeOK', NEW t \in Threads, RunLookup(t)
  PROVE  IInv'
<1> USE DEF IInv, Goto, errorVars, hookVars, registryVars
<1>1. \A a \in Actors : spawn[a] \notin {"locked", "started"}
  BY DEF RunLookup, MutexHeld
<1>2. threads[slot[t]] = t
  BY <1>1 DEF RunLookup, LiveThreadsRegistered, LiveThreads
<1>3. /\ pc' = [pc EXCEPT ![t] = "entered"]
      /\ UNCHANGED <<spawn, child, mutex, threads, size, slot, fault>>
  BY <1>2 DEF RunLookup
<1>4. /\ pc'[t] = "entered" /\ pc'[Main] = pc[Main] /\ pc[t] = "start"
      /\ \A u \in Threads \ {t} : pc'[u] = pc[u]
  BY <1>3 DEF TypeOK, RunLookup
<1>5. LiveThreads' = LiveThreads
  BY <1>4 DEF LiveThreads
<1>6. MutexHeld' /\ ChildPending'
  BY <1>1, <1>3, <1>4 DEF MutexHeld, ChildPending
<1>7. SpawnersInWasm'
  BY <1>3, <1>4 DEF SpawnersInWasm, InWasm
<1>8. SlotsHoldLiveThreads'
  BY <1>3, <1>4 DEF SlotsHoldLiveThreads, TypeOK
<1>9. LiveThreadsRegistered'
  BY <1>1, <1>3, <1>5 DEF LiveThreadsRegistered
<1>10. NoThreadOutlivesModule' /\ LookupFindsItself'
  BY <1>3, <1>4, <1>5 DEF NoThreadOutlivesModule, LookupFindsItself
<1> QED
  BY <1>6, <1>7, <1>8, <1>9, <1>10

\* A thread that ends empties its own slot and no other.
LEMMA FinishRemoveIInv ==
  ASSUME IInv, TypeOK', NEW t \in Threads, FinishRemove(t)
  PROVE  IInv'
<1> USE DEF IInv, Goto, errorVars, hookVars
<1>1. \A a \in Actors : spawn[a] \notin {"locked", "started"}
  BY DEF FinishRemove, MutexHeld
<1>2. \A u \in LiveThreads : slot[u] \in 0..size-1 /\ slot[u] \in 1..size-1 /\ threads[slot[u]] = u
  BY <1>1 DEF LiveThreadsRegistered, TypeOK
<1>3. t \in LiveThreads /\ pc[t] = "finishing" /\ spawn[t] = "idle"
  BY DEF FinishRemove, LiveThreads, SpawnersInWasm, InWasm
<1>4. /\ threads' = [threads EXCEPT ![slot[t]] = None]
      /\ pc' = [pc EXCEPT ![t] = "none"]
      /\ UNCHANGED <<spawn, child, mutex, size, slot, fault>>
  BY DEF FinishRemove
<1>5. /\ pc'[t] = "none" /\ pc'[Main] = pc[Main]
      /\ \A u \in Threads \ {t} : pc'[u] = pc[u]
  BY <1>4 DEF TypeOK
<1>6. /\ threads'[slot[t]] = None
      /\ \A i \in 0..size-1 : i # slot[t] => threads'[i] = threads[i]
  BY <1>2, <1>3, <1>4 DEF TypeOK
<1>7. LiveThreads' = LiveThreads \ {t}
  BY <1>5 DEF LiveThreads
<1>8. MutexHeld' /\ ChildPending'
  BY <1>1, <1>4, <1>5 DEF MutexHeld, ChildPending
<1>9. SpawnersInWasm'
  BY <1>3, <1>4, <1>5 DEF SpawnersInWasm, InWasm
<1>10. SlotsHoldLiveThreads'
  <2>1. SUFFICES ASSUME NEW i \in 0..size-1, threads'[i] # None
                 PROVE  pc'[threads'[i]] # "none" /\ slot[threads'[i]] = i
    BY <1>4 DEF SlotsHoldLiveThreads
  <2>2. i # slot[t] /\ threads'[i] = threads[i]
    BY <1>6, <2>1
  <2>3. threads[i] \in Threads /\ slot[threads[i]] = i /\ pc[threads[i]] # "none"
    BY <2>1, <2>2 DEF SlotsHoldLiveThreads, TypeOK
  <2> QED
    BY <1>5, <2>2, <2>3
<1>11. LiveThreadsRegistered'
  <2>1. SUFFICES ASSUME NEW u \in LiveThreads, u # t
                 PROVE  slot[u] \in 1..size-1 /\ threads'[slot[u]] = u
    BY <1>4, <1>7 DEF LiveThreadsRegistered
  <2>2. slot[u] # slot[t]
    BY <1>2, <1>3, <2>1
  <2> QED
    BY <1>2, <1>6, <2>2
<1>12. NoThreadOutlivesModule' /\ LookupFindsItself'
  BY <1>4, <1>5, <1>7 DEF NoThreadOutlivesModule, LookupFindsItself
<1> QED
  BY <1>8, <1>9, <1>10, <1>11, <1>12

\* Every step keeps the invariant: one case per action.
LEMMA NextIInv == IInv /\ [Next]_vars => IInv'
<1> SUFFICES ASSUME IInv, [Next]_vars PROVE IInv'
  OBVIOUS
<1>1. TypeOK /\ TypeOK'
  BY TypeNext DEF IInv
<1>2. CASE ConstructFails
  <2>1. spawn[Main] = "idle" /\ fault' = fault
    BY <1>2 DEF ConstructFails, IInv, SpawnersInWasm, InWasm
  <2>2. Goto(Main, "open") /\ UNCHANGED <<spawn, child, mutex, registryVars>>
    BY <1>2 DEF ConstructFails
  <2> QED
    BY <1>1, <2>1, <2>2, HostMoves DEF MainPc
<1>3. CASE ConstructSetsHook
  <2>1. spawn[Main] = "idle" /\ fault' = fault
    BY <1>3 DEF ConstructSetsHook, IInv, SpawnersInWasm, InWasm
  <2>2. Goto(Main, "initialize") /\ UNCHANGED <<spawn, child, mutex, registryVars>>
    BY <1>3 DEF ConstructSetsHook
  <2> QED
    BY <1>1, <2>1, <2>2, HostMoves DEF MainPc
<1>4. CASE InitializeReturns
  <2>1. spawn[Main] = "idle" /\ fault' = fault
    BY <1>4 DEF InitializeReturns, IInv, SpawnersInWasm, InWasm
  <2>2. Goto(Main, "entry") /\ UNCHANGED <<spawn, child, mutex, registryVars>>
    BY <1>4 DEF InitializeReturns
  <2> QED
    BY <1>1, <2>1, <2>2, HostMoves DEF MainPc
<1>5. CASE InitializeFails
  <2>1. spawn[Main] = "idle" /\ fault' = fault
    BY <1>5 DEF InitializeFails, IInv, SpawnersInWasm, InWasm
  <2>2. Goto(Main, "open") /\ UNCHANGED <<spawn, child, mutex, registryVars>>
    BY <1>5 DEF InitializeFails
  <2> QED
    BY <1>1, <2>1, <2>2, HostMoves DEF MainPc
<1>6. CASE EntryInitTrue
  <2>1. spawn[Main] = "idle" /\ fault' = fault
    BY <1>6 DEF EntryInitTrue, IInv, SpawnersInWasm, InWasm
  <2>2. Goto(Main, "open") /\ UNCHANGED <<spawn, child, mutex, registryVars>>
    BY <1>6 DEF EntryInitTrue
  <2> QED
    BY <1>1, <2>1, <2>2, HostMoves DEF MainPc
<1>7. CASE EntryInitFalse
  <2>1. spawn[Main] = "idle" /\ fault' = fault
    BY <1>7 DEF EntryInitFalse, IInv, SpawnersInWasm, InWasm
  <2>2. Goto(Main, "open") /\ UNCHANGED <<spawn, child, mutex, registryVars>>
    BY <1>7 DEF EntryInitFalse
  <2> QED
    BY <1>1, <2>1, <2>2, HostMoves DEF MainPc
<1>8. CASE HostCall
  <2>1. spawn[Main] = "idle" /\ fault' = fault
    BY <1>8 DEF HostCall, IInv, SpawnersInWasm, InWasm
  <2>2. Goto(Main, "call") /\ UNCHANGED <<spawn, child, mutex, registryVars>>
    BY <1>8 DEF HostCall
  <2> QED
    BY <1>1, <2>1, <2>2, HostMoves DEF MainPc
<1>9. CASE HostCallEnds
  <2>1. spawn[Main] = "idle" /\ fault' = fault
    BY <1>9 DEF HostCallEnds, IInv, SpawnersInWasm, InWasm
  <2>2. Goto(Main, "open") /\ UNCHANGED <<spawn, child, mutex, registryVars>>
    BY <1>9 DEF HostCallEnds
  <2> QED
    BY <1>1, <2>1, <2>2, HostMoves DEF MainPc
<1>10. CASE Close
  <2>1. spawn[Main] = "idle" /\ fault' = fault
    BY <1>10 DEF Close, IInv, SpawnersInWasm, InWasm
  <2>2. Goto(Main, "close") /\ UNCHANGED <<spawn, child, mutex, registryVars>>
    BY <1>10 DEF Close
  <2> QED
    BY <1>1, <2>1, <2>2, HostMoves DEF MainPc
<1>11. CASE EntryInit
  <2>1. spawn[Main] = "idle" /\ fault' = fault
    BY <1>11 DEF EntryInit, IInv, SpawnersInWasm, InWasm
  <2>2. /\ Goto(Main, "entryInit") \/ Goto(Main, "open")
        /\ UNCHANGED <<spawn, child, mutex, registryVars>>
    BY <1>11 DEF EntryInit
  <2> QED
    BY <1>1, <2>1, <2>2, HostMoves DEF MainPc
<1>12. CASE GetError
  BY <1>1, <1>12 DEF GetError, IInv, MutexHeld, SpawnersInWasm, InWasm, ChildPending,
     SlotsHoldLiveThreads, LiveThreadsRegistered, LiveThreads, NoThreadOutlivesModule,
     LookupFindsItself, errorVars, hookVars, registryVars
<1>13. CASE CloseLock
  BY <1>1, <1>13, CloseLockIInv
<1>14. CASE ClearFn
  BY <1>1, <1>14, ClearFnIInv
<1>15. CASE ClearCtx
  BY <1>1, <1>15, ClearCtxIInv
<1>16. CASE Scan
  BY <1>1, <1>16, ScanIInv
<1>17. ASSUME NEW a \in Actors, SpawnCheck(a) PROVE IInv'
  <2>1. /\ InWasm(a) /\ spawn[a] # "started"
        /\ spawn' = [spawn EXCEPT ![a] = "checked"]
        /\ fault' # "nullThread" /\ UNCHANGED <<pc, child, registryVars>>
    BY <1>17 DEF SpawnCheck, IInv, SpawnersInWasm, LookupFindsItself
  <2>2. mutex' = mutex
    BY <1>17 DEF SpawnCheck, IInv, MutexHeld
  <2> QED
    BY <1>1, <2>1, <2>2, SpawnerMoves DEF SpawnPc
<1>18. ASSUME NEW a \in Actors, SpawnRefused(a) PROVE IInv'
  <2>1. /\ InWasm(a) /\ spawn[a] # "started"
        /\ spawn' = [spawn EXCEPT ![a] = "idle"]
        /\ fault' # "nullThread" /\ UNCHANGED <<pc, child, registryVars>>
    BY <1>18 DEF SpawnRefused, IInv, SpawnersInWasm, LookupFindsItself
  <2>2. mutex' = mutex
    BY <1>18 DEF SpawnRefused, IInv, MutexHeld
  <2> QED
    BY <1>1, <2>1, <2>2, SpawnerMoves DEF SpawnPc
<1>19. ASSUME NEW a \in Actors, SpawnLock(a) PROVE IInv'
  <2>1. /\ InWasm(a) /\ spawn[a] # "started"
        /\ spawn' = [spawn EXCEPT ![a] = "locked"]
        /\ fault' # "nullThread" /\ UNCHANGED <<pc, child, registryVars>>
    BY <1>19 DEF SpawnLock, IInv, SpawnersInWasm, LookupFindsItself
  <2>2. mutex = None /\ mutex' = a
    BY <1>19 DEF SpawnLock, IInv, MutexHeld
  <2> QED
    BY <1>1, <2>1, <2>2, SpawnerMoves DEF SpawnPc
<1>20. ASSUME NEW a \in Actors, SpawnFails(a) PROVE IInv'
  <2>1. /\ InWasm(a) /\ spawn[a] # "started"
        /\ spawn' = [spawn EXCEPT ![a] = "idle"]
        /\ fault' # "nullThread" /\ UNCHANGED <<pc, child, registryVars>>
    BY <1>20 DEF SpawnFails, IInv, SpawnersInWasm, LookupFindsItself
  <2>2. mutex = a /\ mutex' = None
    BY <1>20 DEF SpawnFails, IInv, MutexHeld
  <2> QED
    BY <1>1, <2>1, <2>2, SpawnerMoves DEF SpawnPc
<1>21. ASSUME NEW a \in Actors, SpawnCall(a) PROVE IInv'
  <2>1. /\ InWasm(a) /\ spawn[a] = "checked" /\ mutex' = mutex
        /\ UNCHANGED <<pc, child, registryVars>>
    BY <1>21 DEF SpawnCall, IInv, SpawnersInWasm
  <2>2. CASE spawn' = [spawn EXCEPT ![a] = "called"] /\ fault' = fault
    BY <1>1, <2>1, <2>2, SpawnerMoves DEF SpawnPc, IInv, LookupFindsItself
  <2>3. CASE spawn' = spawn /\ fault' = "nullHook"
    BY <1>1, <2>1, <2>3 DEF IInv, MutexHeld, SpawnersInWasm, InWasm, ChildPending,
       SlotsHoldLiveThreads, LiveThreadsRegistered, LiveThreads, NoThreadOutlivesModule,
       LookupFindsItself, registryVars
  <2> QED
    BY <1>21, <2>2, <2>3 DEF SpawnCall
<1>22. ASSUME NEW a \in Actors, SpawnStart(a) PROVE IInv'
  BY <1>1, <1>22, SpawnStartIInv
<1>23. ASSUME NEW a \in Actors, SpawnStore(a) PROVE IInv'
  BY <1>1, <1>23, SpawnStoreIInv
<1>24. ASSUME NEW t \in Threads, RunNoEntry(t) PROVE IInv'
  <2>1. pc[t] \notin {"none", "start"} /\ spawn[t] = "idle"
    BY <1>24 DEF RunNoEntry, IInv, SpawnersInWasm, InWasm
  <2>2. Goto(t, "finishing") /\ UNCHANGED <<spawn, child, mutex, fault, registryVars>>
    BY <1>24 DEF RunNoEntry
  <2> QED
    BY <1>1, <2>1, <2>2, ThreadMoves DEF ThreadPc
<1>25. ASSUME NEW t \in Threads, RunNotInit(t) PROVE IInv'
  <2>1. pc[t] \notin {"none", "start"} /\ spawn[t] = "idle"
    BY <1>25 DEF RunNotInit, IInv, SpawnersInWasm, InWasm
  <2>2. Goto(t, "finishing") /\ UNCHANGED <<spawn, child, mutex, fault, registryVars>>
    BY <1>25 DEF RunNotInit
  <2> QED
    BY <1>1, <2>1, <2>2, ThreadMoves DEF ThreadPc
<1>26. ASSUME NEW t \in Threads, WasmEnds(t) PROVE IInv'
  <2>1. pc[t] \notin {"none", "start"} /\ spawn[t] = "idle"
    BY <1>26 DEF WasmEnds, IInv, SpawnersInWasm, InWasm
  <2>2. Goto(t, "finishing") /\ UNCHANGED <<spawn, child, mutex, fault, registryVars>>
    BY <1>26 DEF WasmEnds
  <2> QED
    BY <1>1, <2>1, <2>2, ThreadMoves DEF ThreadPc
<1>27. ASSUME NEW t \in Threads, EpochStop(t) PROVE IInv'
  <2>1. pc[t] \notin {"none", "start"} /\ spawn[t] = "idle"
    BY <1>27 DEF EpochStop, IInv, SpawnersInWasm, InWasm
  <2>2. Goto(t, "finishing") /\ UNCHANGED <<spawn, child, mutex, fault, registryVars>>
    BY <1>27 DEF EpochStop
  <2> QED
    BY <1>1, <2>1, <2>2, ThreadMoves DEF ThreadPc
<1>28. ASSUME NEW t \in Threads, RunCheckInit(t) PROVE IInv'
  <2>1. pc[t] \notin {"none", "start"} /\ spawn[t] = "idle"
    BY <1>28 DEF RunCheckInit, IInv, SpawnersInWasm, InWasm
  <2>2. /\ Goto(t, "wasm") \/ Goto(t, "notInit")
        /\ UNCHANGED <<spawn, child, mutex, fault, registryVars>>
    BY <1>28 DEF RunCheckInit, Goto
  <2> QED
    BY <1>1, <2>1, <2>2, ThreadMoves DEF ThreadPc
<1>29. ASSUME NEW t \in Threads, RunLookup(t) PROVE IInv'
  BY <1>1, <1>29, RunLookupIInv
<1>30. ASSUME NEW t \in Threads, FinishRemove(t) PROVE IInv'
  BY <1>1, <1>30, FinishRemoveIInv
<1>31. CASE UNCHANGED vars
  BY <1>1, <1>31 DEF vars, IInv, MutexHeld, SpawnersInWasm, InWasm, ChildPending,
     SlotsHoldLiveThreads, LiveThreadsRegistered, LiveThreads, NoThreadOutlivesModule,
     LookupFindsItself, errorVars, hookVars, registryVars
<1> QED
  BY <1>1, <1>2, <1>3, <1>4, <1>5, <1>6, <1>7, <1>8, <1>9, <1>10, <1>11, <1>12, <1>13, <1>14, <1>15, <1>16, <1>17, <1>18, <1>19, <1>20, <1>21, <1>22, <1>23, <1>24, <1>25, <1>26, <1>27, <1>28, <1>29, <1>30, <1>31
  DEF Next, MainStep, SpawnStep, ThreadStep, Terminated

\* The inductive invariant holds in every behaviour.
THEOREM Invariance == Spec => []IInv
<1>1. IInv /\ [Next]_vars => IInv'
  BY NextIInv
<1> QED
  BY InitIInv, <1>1, PTL DEF Spec

-----------------------------------------------------------------------------
(* What follows *)

\* No schedule of host and threads leaves a thread alive once wclap_close has
\* destroyed the module.
THEOREM NoneOutlives == Spec => []NoThreadOutlivesModule
<1>1. IInv => NoThreadOutlivesModule
  BY DEF IInv
<1> QED
  BY Invariance, <1>1, PTL

\* Every live thread is registered under its own index, or being stored by a
\* spawner that holds the mutex.
THEOREM AllRegistered == Spec => []LiveThreadsRegistered
<1>1. IInv => LiveThreadsRegistered
  BY DEF IInv
<1> QED
  BY Invariance, <1>1, PTL

\* runThread's lookup of its own slot never comes back with null or another's.
THEOREM LookupIsSafe == Spec => []LookupFindsItself
<1>1. IInv => LookupFindsItself
  BY DEF IInv
<1> QED
  BY Invariance, <1>1, PTL

-----------------------------------------------------------------------------
(* WclapThreads implements ThreadHost *)

\* Only SpawnStart, FinishRemove, Close and the last Scan are steps of
\* ThreadHost; every other action leaves its state alone.
LEMMA StepRefines == IInv /\ [Next]_vars => [Host!Next]_(Host!vars)
<1> SUFFICES ASSUME IInv, [Next]_vars
             PROVE  Host!Next \/ (Phase' = Phase /\ LiveThreads' = LiveThreads)
  BY DEF Host!vars
<1>1. TypeOK /\ TypeOK'
  BY TypeNext DEF IInv
<1>2. ASSUME NEW l \in MainPc, Goto(Main, l)
      PROVE  LiveThreads' = LiveThreads /\ pc'[Main] = l
  BY <1>1, <1>2 DEF LiveThreads, Goto, TypeOK
<1>3. ASSUME NEW t \in Threads, NEW l \in ThreadPc \ {"none"}, pc[t] # "none", Goto(t, l)
      PROVE  Phase' = Phase /\ LiveThreads' = LiveThreads
  BY <1>1, <1>3 DEF LiveThreads, Goto, TypeOK, Phase
<1>4. CASE ConstructFails
  BY <1>1, <1>2, <1>4 DEF ConstructFails, Phase, MainPc
<1>5. CASE ConstructSetsHook
  BY <1>1, <1>2, <1>5 DEF ConstructSetsHook, Phase, MainPc
<1>6. CASE InitializeReturns
  BY <1>1, <1>2, <1>6 DEF InitializeReturns, Phase, MainPc
<1>7. CASE InitializeFails
  BY <1>1, <1>2, <1>7 DEF InitializeFails, Phase, MainPc
<1>8. CASE EntryInit
  BY <1>1, <1>2, <1>8 DEF EntryInit, Phase, MainPc
<1>9. CASE EntryInitTrue
  BY <1>1, <1>2, <1>9 DEF EntryInitTrue, Phase, MainPc
<1>10. CASE EntryInitFalse
  BY <1>1, <1>2, <1>10 DEF EntryInitFalse, Phase, MainPc
<1>11. CASE HostCall
  BY <1>1, <1>2, <1>11 DEF HostCall, Phase, MainPc
<1>12. CASE HostCallEnds
  BY <1>1, <1>2, <1>12 DEF HostCallEnds, Phase, MainPc
<1>13. CASE GetError
  BY <1>1, <1>2, <1>13 DEF GetError, Phase, MainPc, LiveThreads
<1>14. CASE CloseLock
  BY <1>1, <1>2, <1>14 DEF CloseLock, Phase, MainPc
<1>15. CASE ClearFn
  BY <1>1, <1>2, <1>15 DEF ClearFn, Phase, MainPc
<1>16. CASE ClearCtx
  BY <1>1, <1>2, <1>16 DEF ClearCtx, Phase, MainPc
<1>17. CASE Close
  <2>1. Phase = "open" /\ Phase' = "closing" /\ LiveThreads' = LiveThreads
    BY <1>2, <1>17 DEF Close, Phase, MainPc
  <2> QED
    BY <2>1 DEF Host!Next, Host!BeginClose
<1>18. CASE Scan
  <2>1. Phase = "closing" /\ LiveThreads' = LiveThreads /\ pc'[Main] \in {"scan", "destroyed"}
    BY <1>2, <1>18 DEF Scan, Phase, MainPc
  <2>2. CASE pc'[Main] = "scan"
    BY <2>1, <2>2 DEF Phase
  <2>3. CASE pc'[Main] = "destroyed"
    <3>1. LiveThreads = {} /\ Phase' = "closed"
      BY <1>1, <1>18, <2>1, <2>3, ScanIInv DEF IInv, NoThreadOutlivesModule, Phase
    <3> QED
      BY <2>1, <3>1 DEF Host!Next, Host!EndClose
  <2> QED
    BY <2>1, <2>2, <2>3
<1>19. ASSUME NEW a \in Actors, SpawnCheck(a)
      PROVE  Phase' = Phase /\ LiveThreads' = LiveThreads
  BY <1>19 DEF SpawnCheck, Phase, LiveThreads
<1>20. ASSUME NEW a \in Actors, SpawnCall(a)
      PROVE  Phase' = Phase /\ LiveThreads' = LiveThreads
  BY <1>20 DEF SpawnCall, Phase, LiveThreads
<1>21. ASSUME NEW a \in Actors, SpawnRefused(a)
      PROVE  Phase' = Phase /\ LiveThreads' = LiveThreads
  BY <1>21 DEF SpawnRefused, Phase, LiveThreads
<1>22. ASSUME NEW a \in Actors, SpawnLock(a)
      PROVE  Phase' = Phase /\ LiveThreads' = LiveThreads
  BY <1>22 DEF SpawnLock, Phase, LiveThreads
<1>23. ASSUME NEW a \in Actors, SpawnFails(a)
      PROVE  Phase' = Phase /\ LiveThreads' = LiveThreads
  BY <1>23 DEF SpawnFails, Phase, LiveThreads
<1>24. ASSUME NEW a \in Actors, SpawnStore(a)
      PROVE  Phase' = Phase /\ LiveThreads' = LiveThreads
  BY <1>24 DEF SpawnStore, Phase, LiveThreads
<1>25. ASSUME NEW t \in Threads, RunLookup(t)
      PROVE  Phase' = Phase /\ LiveThreads' = LiveThreads
  BY <1>3, <1>25 DEF RunLookup, ThreadPc, Phase, LiveThreads
<1>26. ASSUME NEW t \in Threads, RunCheckInit(t)
      PROVE  Phase' = Phase /\ LiveThreads' = LiveThreads
  BY <1>3, <1>26 DEF RunCheckInit, ThreadPc
<1>27. ASSUME NEW t \in Threads, RunNoEntry(t)
      PROVE  Phase' = Phase /\ LiveThreads' = LiveThreads
  BY <1>3, <1>27 DEF RunNoEntry, ThreadPc
<1>28. ASSUME NEW t \in Threads, RunNotInit(t)
      PROVE  Phase' = Phase /\ LiveThreads' = LiveThreads
  BY <1>3, <1>28 DEF RunNotInit, ThreadPc
<1>29. ASSUME NEW t \in Threads, WasmEnds(t)
      PROVE  Phase' = Phase /\ LiveThreads' = LiveThreads
  BY <1>3, <1>29 DEF WasmEnds, ThreadPc
<1>30. ASSUME NEW t \in Threads, EpochStop(t)
      PROVE  Phase' = Phase /\ LiveThreads' = LiveThreads
  BY <1>3, <1>30 DEF EpochStop, ThreadPc
<1>31. ASSUME NEW a \in Actors, SpawnStart(a) PROVE Host!Next
  <2>1. PICK t \in Threads : pc[t] = "none" /\ pc' = [pc EXCEPT ![t] = "start"]
    BY <1>31 DEF SpawnStart, Goto
  <2>2. t \notin LiveThreads /\ LiveThreads' = LiveThreads \cup {t} /\ pc'[Main] = pc[Main]
    BY <1>1, <2>1 DEF LiveThreads, TypeOK
  <2>3. InWasm(a)
    BY <1>31 DEF SpawnStart, IInv, SpawnersInWasm
  <2>4. Phase' = Phase
    BY <2>2 DEF Phase
  <2>5. Phase = "open" \/ (Phase = "closing" /\ LiveThreads # {})
    <3>1. CASE a = Main
      BY <2>3, <3>1 DEF InWasm, Phase
    <3>2. CASE a # Main
      <4>1. a \in LiveThreads
        BY <2>3, <3>2 DEF InWasm, LiveThreads
      <4> QED
        BY <4>1 DEF IInv, NoThreadOutlivesModule, Phase
    <3> QED
      BY <3>1, <3>2
  <2> QED
    BY <2>2, <2>4, <2>5 DEF Host!Next, Host!Start
<1>32. ASSUME NEW t \in Threads, FinishRemove(t) PROVE Host!Next
  <2>1. /\ t \in LiveThreads /\ LiveThreads' = LiveThreads \ {t}
        /\ pc'[Main] = pc[Main]
    BY <1>1, <1>32 DEF FinishRemove, Goto, LiveThreads, TypeOK
  <2> QED
    BY <2>1 DEF Host!Next, Host!Stop, Phase
<1>33. CASE UNCHANGED vars
  BY <1>33 DEF vars, Phase, LiveThreads
<1> QED
  BY <1>4, <1>5, <1>6, <1>7, <1>8, <1>9, <1>10, <1>11, <1>12, <1>13, <1>14, <1>15, <1>16, <1>17, <1>18, <1>19, <1>20, <1>21, <1>22, <1>23, <1>24, <1>25, <1>26, <1>27, <1>28, <1>29, <1>30, <1>31, <1>32, <1>33
  DEF Next, MainStep, SpawnStep, ThreadStep, Terminated

\* Whatever the schedule, threads start only in an open module or beside one
\* that still runs, and the close ends only when none is left.
THEOREM Refinement == Spec => ImplementsThreadHost
<1>1. Init => Host!Init
  BY DEF Init, Host!Init, Phase, LiveThreads
<1>2. IInv /\ [Next]_vars => [Host!Next]_(Host!vars)
  BY StepRefines
<1> QED
  BY <1>1, <1>2, Invariance, PTL DEF Spec, ImplementsThreadHost, Host!Spec

-----------------------------------------------------------------------------
(* The registry *)

\* The registry grows only when slots 1..size-1 are all taken, by as many
\* different threads, none of which is the new one.
LEMMA GrowthIsBounded ==
  ASSUME TypeOK, SlotsHoldLiveThreads, FirstEmpty(size),
         NEW t \in Threads, pc[t] = "none"
  PROVE  size <= Cardinality(Threads)
<1> DEFINE S == 1..size-1
           T == Threads \ {t}
           f == [j \in S |-> threads[j]]
<1>1. S \subseteq 0..size-1 /\ size \in Nat \ {0}
  BY DEF TypeOK
<1>2. \A j \in S : threads[j] \in Threads /\ threads[j] # t /\ slot[threads[j]] = j
  BY <1>1 DEF TypeOK, FirstEmpty, SlotsHoldLiveThreads
<1>3. f \in [S -> T]
  BY <1>2
<1>4. \A i, j \in S : f[i] = f[j] => i = j
  BY <1>2
<1>5. f \in Injection(S, T)
  BY <1>3, <1>4 DEF Injection, IsInjective
<1>6. IsFiniteSet(T) /\ Cardinality(T) = Cardinality(Threads) - 1
  BY ThreadsAssumption, FS_RemoveElement
<1>7. Cardinality(S) = size - 1
  BY <1>1, FS_Interval
<1>8. Cardinality(S) <= Cardinality(T)
  BY <1>5, <1>6, FS_Injection
<1>9. Cardinality(Threads) \in Nat
  BY ThreadsAssumption, FS_CardinalityType
<1> QED
  BY <1>1, <1>6, <1>7, <1>8, <1>9

\* Only SpawnStart makes the registry longer.
LEMMA NextBounded == IInv /\ RegistryBounded /\ [Next]_vars => RegistryBounded'
<1> SUFFICES ASSUME IInv, RegistryBounded, [Next]_vars PROVE RegistryBounded'
  OBVIOUS
<1> USE DEF RegistryBounded, registryVars
<1>1. CASE MainStep
  BY <1>1 DEF MainStep, ConstructFails, ConstructSetsHook, InitializeReturns, InitializeFails, EntryInit, EntryInitTrue, EntryInitFalse, HostCall, HostCallEnds, GetError, Close, CloseLock, ClearFn, ClearCtx, Scan
<1>2. ASSUME NEW a \in Actors, SpawnStep(a) PROVE RegistryBounded'
  <2>1. CASE SpawnStart(a)
    <3>1. PICK t \in Threads, i \in 1..size :
             pc[t] = "none" /\ FirstEmpty(i) /\ size' = IF i = size THEN size + 1 ELSE size
      BY <2>1 DEF SpawnStart
    <3>2. CASE i = size
      <4>1. size <= Cardinality(Threads)
        BY <3>1, <3>2, GrowthIsBounded DEF IInv
      <4>2. size \in Nat /\ Cardinality(Threads) \in Nat
        BY ThreadsAssumption, FS_CardinalityType DEF IInv, TypeOK
      <4> QED
        BY <3>1, <3>2, <4>1, <4>2
    <3>3. CASE i # size
      BY <3>1, <3>3
    <3> QED
      BY <3>2, <3>3
  <2>2. CASE ~SpawnStart(a)
    BY <1>2, <2>2 DEF SpawnStep, SpawnStore, SpawnCheck, SpawnCall, SpawnRefused, SpawnLock, SpawnFails
  <2> QED
    BY <2>1, <2>2
<1>3. ASSUME NEW t \in Threads, ThreadStep(t) PROVE RegistryBounded'
  BY <1>3 DEF ThreadStep, FinishRemove, RunLookup, RunCheckInit, RunNoEntry, RunNotInit, WasmEnds, EpochStop
<1>4. CASE UNCHANGED vars
  BY <1>4 DEF vars
<1> QED
  BY <1>1, <1>2, <1>3, <1>4 DEF Next, Terminated

\* However many threads come and go, the registry is never longer than the
\* most that were alive at once (and the reserved slot 0).
THEOREM RegistryStaysBounded == Spec => []RegistryBounded
<1>1. Init => RegistryBounded
  <2>1. Cardinality(Threads) \in Nat
    BY ThreadsAssumption, FS_CardinalityType
  <2> QED
    BY <2>1 DEF Init, RegistryBounded
<1>2. IInv /\ RegistryBounded /\ [Next]_vars => RegistryBounded'
  BY NextBounded
<1> QED
  BY <1>1, <1>2, Invariance, PTL DEF Spec

\* The body of SlotLeftOnlyByItsThread, for one step.
SlotStep ==
  \A i \in 0..size-1 :
    threads[i] # None /\ threads'[i] # threads[i] =>
      threads'[i] = None /\ pc[threads[i]] = "finishing" /\ pc'[threads[i]] = "none"

\* Only FinishRemove empties a slot, and only that of the thread that ends.
LEMMA StepLeavesSlots == IInv /\ [Next]_vars => SlotStep
<1> SUFFICES ASSUME IInv, [Next]_vars PROVE SlotStep
  OBVIOUS
<1> USE DEF registryVars
<1>1. CASE MainStep
  BY <1>1 DEF SlotStep, MainStep, ConstructFails, ConstructSetsHook, InitializeReturns, InitializeFails, EntryInit, EntryInitTrue, EntryInitFalse, HostCall, HostCallEnds, GetError, Close, CloseLock, ClearFn, ClearCtx, Scan
<1>2. ASSUME NEW a \in Actors, SpawnStep(a) PROVE SlotStep
  <2>1. CASE SpawnStart(a)
    <3>1. PICK i \in 1..size :
             /\ size' = IF i = size THEN size + 1 ELSE size
             /\ threads' = [j \in 0..size'-1 |-> IF j < size THEN threads[j] ELSE None]
      BY <2>1 DEF SpawnStart
    <3>2. size \in Nat /\ 0..size-1 \subseteq 0..size'-1
      BY <3>1 DEF IInv, TypeOK
    <3>3. \A j \in 0..size-1 : threads'[j] = threads[j]
      BY <3>1, <3>2
    <3> QED
      BY <3>3 DEF SlotStep
  <2>2. CASE SpawnStore(a)
    <3>1. threads' = [threads EXCEPT ![slot[child[a]]] = child[a]]
      BY <2>2 DEF SpawnStore
    <3>2. threads[slot[child[a]]] = None
      BY <2>2 DEF SpawnStore, IInv, ChildPending
    <3>3. \A j \in 0..size-1 : j # slot[child[a]] => threads'[j] = threads[j]
      BY <3>1 DEF IInv, TypeOK
    <3> QED
      BY <3>2, <3>3 DEF SlotStep
  <2>3. CASE ~SpawnStart(a) /\ ~SpawnStore(a)
    BY <1>2, <2>3 DEF SlotStep, SpawnStep, SpawnCheck, SpawnCall, SpawnRefused, SpawnLock, SpawnFails
  <2> QED
    BY <2>1, <2>2, <2>3
<1>3. ASSUME NEW t \in Threads, ThreadStep(t) PROVE SlotStep
  <2>1. CASE FinishRemove(t)
    <3>1. /\ pc[t] = "finishing" /\ mutex = None
          /\ threads' = [threads EXCEPT ![slot[t]] = None]
          /\ pc' = [pc EXCEPT ![t] = "none"]
      BY <2>1 DEF FinishRemove, Goto
    <3>2. threads[slot[t]] = t /\ slot[t] \in 0..size-1
      BY <3>1 DEF IInv, MutexHeld, LiveThreadsRegistered, LiveThreads, TypeOK
    <3>3. /\ pc'[t] = "none" /\ threads'[slot[t]] = None
          /\ \A j \in 0..size-1 : j # slot[t] => threads'[j] = threads[j]
      BY <3>1, <3>2 DEF IInv, TypeOK
    <3> QED
      BY <3>1, <3>2, <3>3 DEF SlotStep
  <2>2. CASE ~FinishRemove(t)
    BY <1>3, <2>2 DEF SlotStep, ThreadStep, RunLookup, RunCheckInit, RunNoEntry, RunNotInit, WasmEnds, EpochStop
  <2> QED
    BY <2>1, <2>2
<1>4. CASE UNCHANGED vars
  BY <1>4 DEF vars, SlotStep
<1> QED
  BY <1>1, <1>2, <1>3, <1>4 DEF Next, Terminated

\* No Thread is displaced from its slot by another: the pointer that runThread
\* uses without the lock stays valid until the thread itself gives it up.
THEOREM SlotsAreOwned == Spec => SlotLeftOnlyByItsThread
<1>1. IInv /\ [Next]_vars => [SlotStep]_vars
  BY StepLeavesSlots
<1> QED
  BY <1>1, Invariance, PTL DEF Spec, SlotLeftOnlyByItsThread, SlotStep
===============================================================================
