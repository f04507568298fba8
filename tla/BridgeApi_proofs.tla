--------------------------- MODULE BridgeApi_proofs ---------------------------
(***************************************************************************)
(* Theorems about BridgeApi, for any callers, any finite set of handles    *)
(* and any time limits: the invariant IInv is inductive, and the safety    *)
(* properties of the global state and of the engine follow from it.  One   *)
(* lemma for each part of the invariant, one step in it for each action.   *)
(***************************************************************************)
EXTENDS BridgeApi, FiniteSetTheorems, TLAPS

USE CallersAssumption, WclapsAssumption, LimitsAssumption DEF InGlobal, InWclap

\* The handles that activeWclapCount counts.
Counted == {w \in Wclaps : wclap[w] \in {"constructing", "open"}}

\* They are finitely many: a count of zero means that there are none.
LEMMA CountedFinite == IsFiniteSet(Counted) /\ (Cardinality(Counted) = 0 <=> Counted = {})
<1>1. IsFiniteSet(Counted)
  BY FS_Subset DEF Counted
<1> QED
  BY <1>1, FS_EmptySet

\* A limit of any length is a whole number of epochs.
LEMMA EpochsType == \A ms \in Limits : Epochs(ms) \in Nat
<1> TAKE ms \in Limits
<1>1. ms \in Nat /\ 10 \in Nat \ {0}
  OBVIOUS
<1>2. ms \div 10 \in Nat
  BY <1>1
<1> QED
  BY <1>1, <1>2 DEF Epochs, epochCounterMs

-----------------------------------------------------------------------------
(* The initial states *)

\* Before the first call nobody is inside the API and there is no engine.
LEMMA InitIInv == Init => IInv
<1> SUFFICES ASSUME Init PROVE IInv
  OBVIOUS
<1>1. TypeOK
  BY DEF Init, TypeOK
<1>2. Owners /\ EngineSteps /\ Handles
  BY DEF Init, Owners, EngineSteps, Settled, Handles
<1>3. CountMatchesOpen
  <2>1. Counted = {}
    BY DEF Init, Counted
  <2> QED
    BY <2>1, FS_EmptySet DEF Init, CountMatchesOpen, Counted
<1>4. Sequential /\ EngineOutlivesWclaps /\ OpenFindsEngine
  BY DEF Init, Sequential, Overlap, EngineOutlivesWclaps, OpenFindsEngine
<1> QED
  BY <1>1, <1>2, <1>3, <1>4 DEF IInv

-----------------------------------------------------------------------------
(* The steps *)

\* Types: a limit in force is not None, and a close finds something to count down.
LEMMA TypeNext == IInv /\ Next => TypeOK'
<1> SUFFICES ASSUME IInv, Next PROVE TypeOK'
  OBVIOUS
<1> USE DEF IInv, TypeOK, EngineSteps, Alive, Goto, globals, engineVars, wclapVars, vars
<1>1. ASSUME NEW c \in Callers, NEW a \in Limits \cup {None}, Alive(Lock(c, a)) PROVE TypeOK'
  BY <1>1 DEF Lock
<1>2. ASSUME NEW c \in Callers, Alive(Decide(c)) PROVE TypeOK'
  BY <1>2 DEF Decide
<1>3. ASSUME NEW c \in Callers, Alive(StopEpoch(c)) PROVE TypeOK'
  BY <1>3 DEF StopEpoch
<1>4. ASSUME NEW c \in Callers, Alive(JoinEpoch(c)) PROVE TypeOK'
  BY <1>4 DEF JoinEpoch
<1>5. ASSUME NEW c \in Callers, Alive(DeleteEngine(c)) PROVE TypeOK'
  BY <1>5 DEF DeleteEngine
<1>6. ASSUME NEW c \in Callers, Alive(CreateEngine(c)) PROVE TypeOK'
  <2>1. arg[c] \in Limits /\ globalInitMs' = arg[c]
    BY <1>6 DEF CreateEngine
  <2>2. Epochs(arg[c]) \in Nat
    BY <2>1, EpochsType
  <2>3. timeLimitEpochs' \in Nat /\ engine' \in BOOLEAN
    BY <1>6, <2>2 DEF CreateEngine
  <2>4. pc' = [pc EXCEPT ![c] = "finish"] /\ overlap' \in BOOLEAN
    BY <1>6 DEF CreateEngine
  <2> QED
    BY <1>6, <2>1, <2>3, <2>4 DEF CreateEngine
<1>7. ASSUME NEW c \in Callers, Alive(Finish(c)) PROVE TypeOK'
  BY <1>7 DEF Finish
<1>8. ASSUME NEW c \in Callers, Alive(OpenCheck(c)) PROVE TypeOK'
  BY <1>8 DEF OpenCheck
<1>9. ASSUME NEW c \in Callers, Alive(OpenGroup(c)) PROVE TypeOK'
  <2>1. onEngine' \in [Wclaps -> BOOLEAN]
    BY <1>9 DEF OpenGroup
  <2>2. pc' = [pc EXCEPT ![c] = "count"] \/ pc' = pc
    BY <1>9 DEF OpenGroup
  <2>3. outcome' \in {"ok", "openDeadEngine"} /\ overlap' \in BOOLEAN
    BY <1>9 DEF OpenGroup
  <2> QED
    BY <1>9, <2>1, <2>2, <2>3 DEF OpenGroup
<1>10. ASSUME NEW c \in Callers, Alive(OpenGroupFails(c)) PROVE TypeOK'
  BY <1>10 DEF OpenGroupFails
<1>11. ASSUME NEW c \in Callers, Alive(OpenCount(c)) PROVE TypeOK'
  <2>1. activeWclapCount' \in Nat
    BY <1>11 DEF OpenCount
  <2>2. /\ pc' = [pc EXCEPT ![c] = "construct"]
        /\ wclap' = [wclap EXCEPT ![handle[c]] = "constructing"]
        /\ overlap' \in BOOLEAN
    BY <1>11 DEF OpenCount
  <2> QED
    BY <1>11, <2>1, <2>2 DEF OpenCount
<1>12. ASSUME NEW c \in Callers, Alive(OpenConstruct(c)) PROVE TypeOK'
  BY <1>12 DEF OpenConstruct
<1>13. ASSUME NEW c \in Callers, Alive(CloseCount(c)) PROVE TypeOK'
  <2>1. Counted # {}
    BY <1>13 DEF CloseCount, Counted
  <2>2. activeWclapCount \in Nat \ {0}
    BY <2>1, CountedFinite DEF CountMatchesOpen, Counted
  <2> QED
    BY <1>13, <2>2 DEF CloseCount
<1>14. ASSUME NEW c \in Callers, Alive(CloseDestroy(c)) PROVE TypeOK'
  BY <1>14 DEF CloseDestroy
<1>15. CASE Alive(EpochCheck)
  BY <1>15 DEF EpochCheck
<1>16. CASE Alive(EpochTick)
  BY <1>16 DEF EpochTick
<1>17. CASE Dead
  BY <1>17 DEF Dead
<1> QED
  BY <1>1, <1>2, <1>3, <1>4, <1>5, <1>6, <1>7, <1>8, <1>9, <1>10, <1>11, <1>12, <1>13, <1>14,
      <1>15, <1>16, <1>17
  DEF Next, Alive, GlobalStep, WclapStep, GlobalInit, GlobalDeinit

\* The mutex: taken with Lock, kept through init or deinit, released at its end.
LEMMA OwnersNext == IInv /\ Next => Owners'
<1> SUFFICES ASSUME IInv, Next PROVE Owners'
  OBVIOUS
<1> USE DEF IInv, TypeOK, Owners, Alive, Goto, globals, engineVars, wclapVars, vars
<1>1. ASSUME NEW c \in Callers, NEW a \in Limits \cup {None}, Alive(Lock(c, a)) PROVE Owners'
  BY <1>1 DEF Lock
<1>2. ASSUME NEW c \in Callers, Alive(Decide(c)) PROVE Owners'
  BY <1>2 DEF Decide
<1>3. ASSUME NEW c \in Callers, Alive(StopEpoch(c)) PROVE Owners'
  BY <1>3 DEF StopEpoch
<1>4. ASSUME NEW c \in Callers, Alive(JoinEpoch(c)) PROVE Owners'
  BY <1>4 DEF JoinEpoch
<1>5. ASSUME NEW c \in Callers, Alive(DeleteEngine(c)) PROVE Owners'
  BY <1>5 DEF DeleteEngine
<1>6. ASSUME NEW c \in Callers, Alive(CreateEngine(c)) PROVE Owners'
  BY <1>6 DEF CreateEngine
<1>7. ASSUME NEW c \in Callers, Alive(Finish(c)) PROVE Owners'
  BY <1>7 DEF Finish
<1>8. ASSUME NEW c \in Callers, Alive(OpenCheck(c)) PROVE Owners'
  BY <1>8 DEF OpenCheck
<1>9. ASSUME NEW c \in Callers, Alive(OpenGroup(c)) PROVE Owners'
  BY <1>9 DEF OpenGroup
<1>10. ASSUME NEW c \in Callers, Alive(OpenGroupFails(c)) PROVE Owners'
  BY <1>10 DEF OpenGroupFails
<1>11. ASSUME NEW c \in Callers, Alive(OpenCount(c)) PROVE Owners'
  BY <1>11 DEF OpenCount
<1>12. ASSUME NEW c \in Callers, Alive(OpenConstruct(c)) PROVE Owners'
  BY <1>12 DEF OpenConstruct
<1>13. ASSUME NEW c \in Callers, Alive(CloseCount(c)) PROVE Owners'
  BY <1>13 DEF CloseCount
<1>14. ASSUME NEW c \in Callers, Alive(CloseDestroy(c)) PROVE Owners'
  BY <1>14 DEF CloseDestroy
<1>15. CASE Alive(EpochCheck)
  BY <1>15 DEF EpochCheck
<1>16. CASE Alive(EpochTick)
  BY <1>16 DEF EpochTick
<1>17. CASE Dead
  BY <1>17 DEF Dead
<1> QED
  BY <1>1, <1>2, <1>3, <1>4, <1>5, <1>6, <1>7, <1>8, <1>9, <1>10, <1>11, <1>12, <1>13, <1>14,
      <1>15, <1>16, <1>17
  DEF Next, Alive, GlobalStep, WclapStep, GlobalInit, GlobalDeinit

\* The engine and the epoch thread: only the holder of the mutex changes the
\* globals, and the thread has been joined when the engine goes.
LEMMA EngineNext == IInv /\ Next => EngineSteps'
<1> SUFFICES ASSUME IInv, Next PROVE EngineSteps'
  OBVIOUS
<1> USE DEF IInv, TypeOK, Owners, EngineSteps, Settled, NothingToDo, Alive, Goto, globals,
    engineVars, wclapVars, vars
<1>1. ASSUME NEW c \in Callers, NEW a \in Limits \cup {None}, Alive(Lock(c,
    a)) PROVE EngineSteps'
  BY <1>1 DEF Lock
<1>2. ASSUME NEW c \in Callers, Alive(Decide(c)) PROVE EngineSteps'
  BY <1>2 DEF Decide
<1>3. ASSUME NEW c \in Callers, Alive(StopEpoch(c)) PROVE EngineSteps'
  BY <1>3 DEF StopEpoch
<1>4. ASSUME NEW c \in Callers, Alive(JoinEpoch(c)) PROVE EngineSteps'
  BY <1>4 DEF JoinEpoch
<1>5. ASSUME NEW c \in Callers, Alive(DeleteEngine(c)) PROVE EngineSteps'
  BY <1>5 DEF DeleteEngine
<1>6. ASSUME NEW c \in Callers, Alive(CreateEngine(c)) PROVE EngineSteps'
  BY <1>6 DEF CreateEngine
<1>7. ASSUME NEW c \in Callers, Alive(Finish(c)) PROVE EngineSteps'
  BY <1>7 DEF Finish
<1>8. ASSUME NEW c \in Callers, Alive(OpenCheck(c)) PROVE EngineSteps'
  BY <1>8 DEF OpenCheck
<1>9. ASSUME NEW c \in Callers, Alive(OpenGroup(c)) PROVE EngineSteps'
  BY <1>9 DEF OpenGroup
<1>10. ASSUME NEW c \in Callers, Alive(OpenGroupFails(c)) PROVE EngineSteps'
  BY <1>10 DEF OpenGroupFails
<1>11. ASSUME NEW c \in Callers, Alive(OpenCount(c)) PROVE EngineSteps'
  BY <1>11 DEF OpenCount
<1>12. ASSUME NEW c \in Callers, Alive(OpenConstruct(c)) PROVE EngineSteps'
  BY <1>12 DEF OpenConstruct
<1>13. ASSUME NEW c \in Callers, Alive(CloseCount(c)) PROVE EngineSteps'
  BY <1>13 DEF CloseCount
<1>14. ASSUME NEW c \in Callers, Alive(CloseDestroy(c)) PROVE EngineSteps'
  BY <1>14 DEF CloseDestroy
<1>15. CASE Alive(EpochCheck)
  BY <1>15 DEF EpochCheck
<1>16. CASE Alive(EpochTick)
  BY <1>16 DEF EpochTick
<1>17. CASE Dead
  BY <1>17 DEF Dead
<1> QED
  BY <1>1, <1>2, <1>3, <1>4, <1>5, <1>6, <1>7, <1>8, <1>9, <1>10, <1>11, <1>12, <1>13, <1>14,
      <1>15, <1>16, <1>17
  DEF Next, Alive, GlobalStep, WclapStep, GlobalInit, GlobalDeinit

\* Every opening or closing handle has one caller.
LEMMA HandlesNext == IInv /\ Next => Handles'
<1> SUFFICES ASSUME IInv, Next PROVE Handles'
  OBVIOUS
<1> USE DEF IInv, TypeOK, Handles, HandleStage, Alive, Goto, globals, engineVars, wclapVars,
    vars
<1>1. ASSUME NEW c \in Callers, NEW a \in Limits \cup {None}, Alive(Lock(c, a)) PROVE Handles'
  BY <1>1 DEF Lock
<1>2. ASSUME NEW c \in Callers, Alive(Decide(c)) PROVE Handles'
  BY <1>2 DEF Decide
<1>3. ASSUME NEW c \in Callers, Alive(StopEpoch(c)) PROVE Handles'
  BY <1>3 DEF StopEpoch
<1>4. ASSUME NEW c \in Callers, Alive(JoinEpoch(c)) PROVE Handles'
  BY <1>4 DEF JoinEpoch
<1>5. ASSUME NEW c \in Callers, Alive(DeleteEngine(c)) PROVE Handles'
  BY <1>5 DEF DeleteEngine
<1>6. ASSUME NEW c \in Callers, Alive(CreateEngine(c)) PROVE Handles'
  BY <1>6 DEF CreateEngine
<1>7. ASSUME NEW c \in Callers, Alive(Finish(c)) PROVE Handles'
  BY <1>7 DEF Finish
<1>8. ASSUME NEW c \in Callers, Alive(OpenCheck(c)) PROVE Handles'
  BY <1>8 DEF OpenCheck
<1>9. ASSUME NEW c \in Callers, Alive(OpenGroup(c)) PROVE Handles'
  BY <1>9 DEF OpenGroup
<1>10. ASSUME NEW c \in Callers, Alive(OpenGroupFails(c)) PROVE Handles'
  BY <1>10 DEF OpenGroupFails
<1>11. ASSUME NEW c \in Callers, Alive(OpenCount(c)) PROVE Handles'
  BY <1>11 DEF OpenCount
<1>12. ASSUME NEW c \in Callers, Alive(OpenConstruct(c)) PROVE Handles'
  BY <1>12 DEF OpenConstruct
<1>13. ASSUME NEW c \in Callers, Alive(CloseCount(c)) PROVE Handles'
  BY <1>13 DEF CloseCount
<1>14. ASSUME NEW c \in Callers, Alive(CloseDestroy(c)) PROVE Handles'
  BY <1>14 DEF CloseDestroy
<1>15. CASE Alive(EpochCheck)
  BY <1>15 DEF EpochCheck
<1>16. CASE Alive(EpochTick)
  BY <1>16 DEF EpochTick
<1>17. CASE Dead
  BY <1>17 DEF Dead
<1> QED
  BY <1>1, <1>2, <1>3, <1>4, <1>5, <1>6, <1>7, <1>8, <1>9, <1>10, <1>11, <1>12, <1>13, <1>14,
      <1>15, <1>16, <1>17
  DEF Next, Alive, GlobalStep, WclapStep, GlobalInit, GlobalDeinit

\* The count: OpenCount adds a handle to those counted, CloseCount removes one,
\* and nothing else moves a handle into or out of the set.
LEMMA CountNext == IInv /\ Next => CountMatchesOpen'
<1> SUFFICES ASSUME IInv, Next PROVE (activeWclapCount = Cardinality(Counted))'
  BY DEF CountMatchesOpen, Counted
<1>0. activeWclapCount = Cardinality(Counted)
  BY DEF IInv, CountMatchesOpen, Counted
<1> USE <1>0 DEF IInv, TypeOK, Alive, Goto, globals, engineVars, wclapVars, vars
<1>1. ASSUME NEW c \in Callers, NEW a \in Limits \cup {None}, Alive(Lock(c,
    a)) PROVE (activeWclapCount = Cardinality(Counted))'
  BY <1>1 DEF Lock, Counted
<1>2. ASSUME NEW c \in Callers,
    Alive(Decide(c)) PROVE (activeWclapCount = Cardinality(Counted))'
  BY <1>2 DEF Decide, Counted
<1>3. ASSUME NEW c \in Callers,
    Alive(StopEpoch(c)) PROVE (activeWclapCount = Cardinality(Counted))'
  BY <1>3 DEF StopEpoch, Counted
<1>4. ASSUME NEW c \in Callers,
    Alive(JoinEpoch(c)) PROVE (activeWclapCount = Cardinality(Counted))'
  BY <1>4 DEF JoinEpoch, Counted
<1>5. ASSUME NEW c \in Callers,
    Alive(DeleteEngine(c)) PROVE (activeWclapCount = Cardinality(Counted))'
  BY <1>5 DEF DeleteEngine, Counted
<1>6. ASSUME NEW c \in Callers,
    Alive(CreateEngine(c)) PROVE (activeWclapCount = Cardinality(Counted))'
  BY <1>6 DEF CreateEngine, Counted
<1>7. ASSUME NEW c \in Callers,
    Alive(Finish(c)) PROVE (activeWclapCount = Cardinality(Counted))'
  BY <1>7 DEF Finish, Counted
<1>8. ASSUME NEW c \in Callers,
    Alive(OpenCheck(c)) PROVE (activeWclapCount = Cardinality(Counted))'
  <2>1. Counted' = Counted
    BY <1>8 DEF OpenCheck, Counted, Handles, HandleStage
  <2> QED
    BY <1>8, <2>1 DEF OpenCheck
<1>9. ASSUME NEW c \in Callers,
    Alive(OpenGroup(c)) PROVE (activeWclapCount = Cardinality(Counted))'
  BY <1>9 DEF OpenGroup, Counted
<1>10. ASSUME NEW c \in Callers,
    Alive(OpenGroupFails(c)) PROVE (activeWclapCount = Cardinality(Counted))'
  <2>1. Counted' = Counted
    BY <1>10 DEF OpenGroupFails, Counted, Handles, HandleStage
  <2> QED
    BY <1>10, <2>1 DEF OpenGroupFails
<1>11. ASSUME NEW c \in Callers,
    Alive(OpenCount(c)) PROVE (activeWclapCount = Cardinality(Counted))'
  <2>1. handle[c] \in Wclaps /\ wclap[handle[c]] = "opening"
    BY <1>11 DEF OpenCount, Handles, HandleStage
  <2>2. Counted' = Counted \cup {handle[c]}
    BY <1>11, <2>1 DEF OpenCount, Counted
  <2>3. handle[c] \notin Counted
    BY <2>1 DEF Counted
  <2> QED
    BY <1>11, <2>2, <2>3, CountedFinite, FS_AddElement DEF OpenCount
<1>12. ASSUME NEW c \in Callers,
    Alive(OpenConstruct(c)) PROVE (activeWclapCount = Cardinality(Counted))'
  <2>1. Counted' = Counted
    BY <1>12 DEF OpenConstruct, Counted, Handles, HandleStage
  <2> QED
    BY <1>12, <2>1 DEF OpenConstruct
<1>13. ASSUME NEW c \in Callers,
    Alive(CloseCount(c)) PROVE (activeWclapCount = Cardinality(Counted))'
  <2>1. PICK w \in Wclaps : wclap[w] = "open" /\ wclap' = [wclap EXCEPT ![w] = "closing"]
    BY <1>13 DEF CloseCount
  <2>2. Counted' = Counted \ {w}
    BY <1>13, <2>1 DEF Counted
  <2>3. w \in Counted
    BY <2>1 DEF Counted
  <2> QED
    BY <1>13, <2>2, <2>3, CountedFinite, FS_RemoveElement DEF CloseCount
<1>14. ASSUME NEW c \in Callers,
    Alive(CloseDestroy(c)) PROVE (activeWclapCount = Cardinality(Counted))'
  <2>1. Counted' = Counted
    BY <1>14 DEF CloseDestroy, Counted, Handles, HandleStage
  <2> QED
    BY <1>14, <2>1 DEF CloseDestroy
<1>15. CASE Alive(EpochCheck)
  BY <1>15 DEF EpochCheck, Counted
<1>16. CASE Alive(EpochTick)
  BY <1>16 DEF EpochTick, Counted
<1>17. CASE Dead
  BY <1>17 DEF Dead, Counted
<1> QED
  BY <1>1, <1>2, <1>3, <1>4, <1>5, <1>6, <1>7, <1>8, <1>9, <1>10, <1>11, <1>12, <1>13, <1>14,
      <1>15, <1>16, <1>17
  DEF Next, Alive, GlobalStep, WclapStep, GlobalInit, GlobalDeinit

\* Without an overlap: when Decide finds a count of zero no handle is counted, and
\* none is being closed because nobody is inside a close.
LEMMA SequentialNext == IInv /\ Next => Sequential'
<1> SUFFICES ASSUME IInv, Next PROVE Sequential'
  OBVIOUS
<1> USE DEF IInv, TypeOK, Owners, Handles, HandleStage, Sequential, Overlap, Made, Alive,
    Goto, globals, engineVars, wclapVars, vars
<1>1. ASSUME NEW c \in Callers, NEW a \in Limits \cup {None}, Alive(Lock(c,
    a)) PROVE Sequential'
  <2>1. \A d \in Callers : pc'[d] # "decide" => pc'[d] = pc[d]
    BY <1>1 DEF Lock
  <2>2. UNCHANGED <<wclap, onEngine, handle, globalInitOK>>
    BY <1>1 DEF Lock
  <2>3. (Overlap' => overlap') /\ (~overlap' => ~overlap)
    BY <1>1
  <2> QED
    BY <2>1, <2>2, <2>3
<1>2. ASSUME NEW c \in Callers, Alive(Decide(c)) PROVE Sequential'
  <2>1. activeWclapCount = 0 => Counted = {}
    BY CountedFinite DEF CountMatchesOpen, Counted
  <2> QED
    BY <1>2, <2>1 DEF Decide, Counted
<1>3. ASSUME NEW c \in Callers, Alive(StopEpoch(c)) PROVE Sequential'
  BY <1>3 DEF StopEpoch
<1>4. ASSUME NEW c \in Callers, Alive(JoinEpoch(c)) PROVE Sequential'
  BY <1>4 DEF JoinEpoch
<1>5. ASSUME NEW c \in Callers, Alive(DeleteEngine(c)) PROVE Sequential'
  BY <1>5 DEF DeleteEngine
<1>6. ASSUME NEW c \in Callers, Alive(CreateEngine(c)) PROVE Sequential'
  BY <1>6 DEF CreateEngine
<1>7. ASSUME NEW c \in Callers, Alive(Finish(c)) PROVE Sequential'
  BY <1>7 DEF Finish
<1>8. ASSUME NEW c \in Callers, Alive(OpenCheck(c)) PROVE Sequential'
  <2>1. \A w \in Wclaps : wclap'[w] \in Made => wclap[w] \in Made
    BY <1>8 DEF OpenCheck
  <2>2. /\ Overlap' => overlap'
        /\ pc' = [pc EXCEPT ![c] = "group"] /\ onEngine' = onEngine
        /\ globalInitOK /\ globalInitOK' = globalInitOK
    BY <1>8 DEF OpenCheck
  <2>3. \A d \in Callers : pc'[d] = "count" => pc[d] = "count" /\ handle'[d] = handle[d]
    BY <1>8 DEF OpenCheck
  <2>4. ~overlap' => ~overlap
    BY <1>8
  <2> QED
    BY <2>1, <2>2, <2>3, <2>4
<1>9. ASSUME NEW c \in Callers, Alive(OpenGroup(c)) PROVE Sequential'
  <2>1. handle[c] \in Wclaps
    BY <1>9 DEF OpenGroup
  <2> QED
    BY <1>9, <2>1 DEF OpenGroup
<1>10. ASSUME NEW c \in Callers, Alive(OpenGroupFails(c)) PROVE Sequential'
  BY <1>10 DEF OpenGroupFails
<1>11. ASSUME NEW c \in Callers, Alive(OpenCount(c)) PROVE Sequential'
  BY <1>11 DEF OpenCount
<1>12. ASSUME NEW c \in Callers, Alive(OpenConstruct(c)) PROVE Sequential'
  BY <1>12 DEF OpenConstruct
<1>13. ASSUME NEW c \in Callers, Alive(CloseCount(c)) PROVE Sequential'
  <2>1. \A w \in Wclaps : wclap'[w] \in Made => wclap[w] \in Made
    BY <1>13 DEF CloseCount
  <2>2. /\ Overlap' => overlap'
        /\ ~overlap' => ~overlap
    BY <1>13
  <2>3. /\ pc' = [pc EXCEPT ![c] = "destroy"]
        /\ UNCHANGED <<onEngine, globalInitOK>>
    BY <1>13 DEF CloseCount
  <2>4. \A d \in Callers : pc'[d] = "count" => pc[d] = "count" /\ handle'[d] = handle[d]
    BY <1>13 DEF CloseCount
  <2> QED
    BY <2>1, <2>2, <2>3, <2>4
<1>14. ASSUME NEW c \in Callers, Alive(CloseDestroy(c)) PROVE Sequential'
  BY <1>14 DEF CloseDestroy
<1>15. CASE Alive(EpochCheck)
  BY <1>15 DEF EpochCheck
<1>16. CASE Alive(EpochTick)
  BY <1>16 DEF EpochTick
<1>17. CASE Dead
  BY <1>17 DEF Dead
<1> QED
  BY <1>1, <1>2, <1>3, <1>4, <1>5, <1>6, <1>7, <1>8, <1>9, <1>10, <1>11, <1>12, <1>13, <1>14,
      <1>15, <1>16, <1>17
  DEF Next, Alive, GlobalStep, WclapStep, GlobalInit, GlobalDeinit

\* DeleteEngine is the only action that takes a module's engine away.
LEMMA LiveEngineNext == IInv /\ Next => EngineOutlivesWclaps'
<1> SUFFICES ASSUME IInv, Next PROVE EngineOutlivesWclaps'
  OBVIOUS
<1> USE DEF IInv, TypeOK, Handles, HandleStage, Sequential, Overlap, Made,
    EngineOutlivesWclaps, Alive, Goto, globals, engineVars, wclapVars, vars
<1>1. ASSUME NEW c \in Callers, NEW a \in Limits \cup {None}, Alive(Lock(c,
    a)) PROVE EngineOutlivesWclaps'
  BY <1>1 DEF Lock
<1>2. ASSUME NEW c \in Callers, Alive(Decide(c)) PROVE EngineOutlivesWclaps'
  BY <1>2 DEF Decide
<1>3. ASSUME NEW c \in Callers, Alive(StopEpoch(c)) PROVE EngineOutlivesWclaps'
  BY <1>3 DEF StopEpoch
<1>4. ASSUME NEW c \in Callers, Alive(JoinEpoch(c)) PROVE EngineOutlivesWclaps'
  BY <1>4 DEF JoinEpoch
<1>5. ASSUME NEW c \in Callers, Alive(DeleteEngine(c)) PROVE EngineOutlivesWclaps'
  BY <1>5 DEF DeleteEngine
<1>6. ASSUME NEW c \in Callers, Alive(CreateEngine(c)) PROVE EngineOutlivesWclaps'
  BY <1>6 DEF CreateEngine
<1>7. ASSUME NEW c \in Callers, Alive(Finish(c)) PROVE EngineOutlivesWclaps'
  BY <1>7 DEF Finish
<1>8. ASSUME NEW c \in Callers, Alive(OpenCheck(c)) PROVE EngineOutlivesWclaps'
  BY <1>8 DEF OpenCheck
<1>9. ASSUME NEW c \in Callers, Alive(OpenGroup(c)) PROVE EngineOutlivesWclaps'
  BY <1>9 DEF OpenGroup
<1>10. ASSUME NEW c \in Callers, Alive(OpenGroupFails(c)) PROVE EngineOutlivesWclaps'
  BY <1>10 DEF OpenGroupFails
<1>11. ASSUME NEW c \in Callers, Alive(OpenCount(c)) PROVE EngineOutlivesWclaps'
  BY <1>11 DEF OpenCount
<1>12. ASSUME NEW c \in Callers, Alive(OpenConstruct(c)) PROVE EngineOutlivesWclaps'
  BY <1>12 DEF OpenConstruct
<1>13. ASSUME NEW c \in Callers, Alive(CloseCount(c)) PROVE EngineOutlivesWclaps'
  BY <1>13 DEF CloseCount
<1>14. ASSUME NEW c \in Callers, Alive(CloseDestroy(c)) PROVE EngineOutlivesWclaps'
  BY <1>14 DEF CloseDestroy
<1>15. CASE Alive(EpochCheck)
  BY <1>15 DEF EpochCheck
<1>16. CASE Alive(EpochTick)
  BY <1>16 DEF EpochTick
<1>17. CASE Dead
  BY <1>17 DEF Dead
<1> QED
  BY <1>1, <1>2, <1>3, <1>4, <1>5, <1>6, <1>7, <1>8, <1>9, <1>10, <1>11, <1>12, <1>13, <1>14,
      <1>15, <1>16, <1>17
  DEF Next, Alive, GlobalStep, WclapStep, GlobalInit, GlobalDeinit

\* An open that has met no init or deinit still finds what OpenCheck has seen.
LEMMA OpenNext == IInv /\ Next => OpenFindsEngine'
<1> SUFFICES ASSUME IInv, Next PROVE OpenFindsEngine'
  OBVIOUS
<1> USE DEF IInv, TypeOK, EngineSteps, Settled, Handles, HandleStage, Sequential, Overlap,
    EngineOutlivesWclaps, OpenFindsEngine, Alive, Goto, globals, engineVars, wclapVars, vars
<1>1. ASSUME NEW c \in Callers, NEW a \in Limits \cup {None}, Alive(Lock(c,
    a)) PROVE OpenFindsEngine'
  BY <1>1 DEF Lock
<1>2. ASSUME NEW c \in Callers, Alive(Decide(c)) PROVE OpenFindsEngine'
  BY <1>2 DEF Decide
<1>3. ASSUME NEW c \in Callers, Alive(StopEpoch(c)) PROVE OpenFindsEngine'
  BY <1>3 DEF StopEpoch
<1>4. ASSUME NEW c \in Callers, Alive(JoinEpoch(c)) PROVE OpenFindsEngine'
  BY <1>4 DEF JoinEpoch
<1>5. ASSUME NEW c \in Callers, Alive(DeleteEngine(c)) PROVE OpenFindsEngine'
  BY <1>5 DEF DeleteEngine
<1>6. ASSUME NEW c \in Callers, Alive(CreateEngine(c)) PROVE OpenFindsEngine'
  BY <1>6 DEF CreateEngine
<1>7. ASSUME NEW c \in Callers, Alive(Finish(c)) PROVE OpenFindsEngine'
  BY <1>7 DEF Finish
<1>8. ASSUME NEW c \in Callers, Alive(OpenCheck(c)) PROVE OpenFindsEngine'
  BY <1>8 DEF OpenCheck
<1>9. ASSUME NEW c \in Callers, Alive(OpenGroup(c)) PROVE OpenFindsEngine'
  BY <1>9 DEF OpenGroup
<1>10. ASSUME NEW c \in Callers, Alive(OpenGroupFails(c)) PROVE OpenFindsEngine'
  BY <1>10 DEF OpenGroupFails
<1>11. ASSUME NEW c \in Callers, Alive(OpenCount(c)) PROVE OpenFindsEngine'
  BY <1>11 DEF OpenCount
<1>12. ASSUME NEW c \in Callers, Alive(OpenConstruct(c)) PROVE OpenFindsEngine'
  BY <1>12 DEF OpenConstruct
<1>13. ASSUME NEW c \in Callers, Alive(CloseCount(c)) PROVE OpenFindsEngine'
  BY <1>13 DEF CloseCount
<1>14. ASSUME NEW c \in Callers, Alive(CloseDestroy(c)) PROVE OpenFindsEngine'
  BY <1>14 DEF CloseDestroy
<1>15. CASE Alive(EpochCheck)
  BY <1>15 DEF EpochCheck
<1>16. CASE Alive(EpochTick)
  BY <1>16 DEF EpochTick
<1>17. CASE Dead
  BY <1>17 DEF Dead
<1> QED
  BY <1>1, <1>2, <1>3, <1>4, <1>5, <1>6, <1>7, <1>8, <1>9, <1>10, <1>11, <1>12, <1>13, <1>14,
      <1>15, <1>16, <1>17
  DEF Next, Alive, GlobalStep, WclapStep, GlobalInit, GlobalDeinit

\* The invariant is preserved.
LEMMA NextIInv == IInv /\ [Next]_vars => IInv'
<1> SUFFICES ASSUME IInv, [Next]_vars PROVE IInv'
  OBVIOUS
<1>1. CASE Next
  <2>1. TypeOK' /\ Owners' /\ EngineSteps' /\ Handles'
    BY <1>1, TypeNext, OwnersNext, EngineNext, HandlesNext
  <2>2. CountMatchesOpen' /\ Sequential' /\ EngineOutlivesWclaps' /\ OpenFindsEngine'
    BY <1>1, CountNext, SequentialNext, LiveEngineNext, OpenNext
  <2> QED
    BY <2>1, <2>2 DEF IInv
<1>2. CASE UNCHANGED vars
  BY <1>2 DEF vars, globals, engineVars, wclapVars, IInv, TypeOK, Owners, EngineSteps, Settled,
     Handles, CountMatchesOpen, Sequential, Overlap, EngineOutlivesWclaps, OpenFindsEngine
<1> QED
  BY <1>1, <1>2

-----------------------------------------------------------------------------
(* What follows *)

\* IInv holds in every reachable state.
THEOREM Invariance == Spec => []IInv
<1> QED
  BY InitIInv, NextIInv, PTL DEF Spec

\* Every variable keeps its shape; in particular the count is never negative.
THEOREM TypeCorrect == Spec => []TypeOK
<1>1. IInv => TypeOK
  BY DEF IInv
<1> QED
  BY <1>1, Invariance, PTL

\* The epoch thread never increments the epoch of a deleted engine.
THEOREM EpochThreadSafe == Spec => []EpochThreadUsesLiveEngine
<1>1. IInv => EpochThreadUsesLiveEngine
  BY DEF IInv, EngineSteps, EpochThreadUsesLiveEngine
<1> QED
  BY <1>1, Invariance, PTL

\* When nobody is inside init or deinit the global state agrees with itself.
THEOREM InitIsConsistent == Spec => []InitConsistent
<1>1. IInv => InitConsistent
  BY DEF IInv, Owners, EngineSteps, InitConsistent
<1> QED
  BY <1>1, Invariance, PTL

\* activeWclapCount is the number of modules that exist.
THEOREM CountIsExact == Spec => []CountMatchesOpen
<1>1. IInv => CountMatchesOpen
  BY DEF IInv
<1> QED
  BY <1>1, Invariance, PTL

\* Where opens and closes keep clear of init and deinit, no engine is deleted
\* under a WCLAP.
THEOREM EngineStays == Spec => []EngineOutlivesWclaps
<1>1. IInv => EngineOutlivesWclaps
  BY DEF IInv
<1> QED
  BY <1>1, Invariance, PTL

\* On the same terms an open that got past the check finds the engine.
THEOREM OpenIsSafe == Spec => []OpenFindsEngine
<1>1. IInv => OpenFindsEngine
  BY DEF IInv
<1> QED
  BY <1>1, Invariance, PTL

===============================================================================
