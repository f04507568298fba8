----------------------------- MODULE InstanceCalls -----------------------------
(***************************************************************************)
(* The Instances of one InstanceGroup: calls into WASM code, their epoch   *)
(* deadlines, and the error the whole group shares.                        *)
(*                                                                         *)
(* Host threads call functions on the main Instance (wtCall, wtMalloc),    *)
(* which calls of one thread may nest: WASM code calls a host function,    *)
(* and that calls WASM again.  WASM threads run on Instances of their own. *)
(* An Instance has one deadline, and each call into it sets it anew.       *)
(***************************************************************************)
EXTENDS Integers, Sequences

CONSTANTS Hosts, Opener,   \* the host's threads, and the one that opens the WCLAP
          Workers,         \* WASM threads, each with its own Instance
          Main,            \* the main Instance
          None,
          EpochMs,         \* the least time between two epochs (epochCounterMs)
          Limits,          \* the values of timeLimitMs, 0 for no limit
          MaxNested,       \* bound: host functions called by one outermost call
          MaxSpent         \* epochs are counted up to this many

ASSUME NamesAssumption == /\ Opener \in Hosts /\ Hosts \cap Workers = {}
                          /\ Main \notin Workers /\ None \notin Hosts \cup Workers
ASSUME TimeAssumption  == /\ EpochMs \in Nat \ {0} /\ Limits \subseteq Nat
                          /\ MaxNested \in Nat /\ MaxSpent \in Nat
\* Epochs are counted as far as the budget of a call goes.
ASSUME SpentAssumption == \A ms \in Limits : ms \div EpochMs + 2 <= MaxSpent

Actors    == Hosts \cup Workers
Instances == Workers \cup {Main}
InstanceOf(a) == IF a \in Hosts THEN Main ELSE a

VARIABLES
  limit,       \* timeLimitMs
  stack,       \* each actor's functions that are in WASM or on the way, innermost last
  left,        \* epochs until the deadline of each Instance
  groupLock,   \* who keeps groupMutex over several steps: init, or nobody
  constErr,    \* InstanceGroup::constantErrorMessage
  wtErr,       \* InstanceGroup::wtError, named by the actor that met it
  hadInit, opened, started, stop

vars == <<limit, stack, left, groupLock, constErr, wtErr, hadInit, opened, started, stop>>
errs == <<constErr, wtErr>>
life == <<limit, hadInit, opened, started, stop>>

Functions == {"init", "call", "malloc", "thread"}
Messages  == {"timeout", "trap", "not initialised", "bad function pointer"}
Places == {"lock", "wasm", "host", "raised", "store", "check"} \cup Messages
Frame == [fn : Functions, at : Places, spent : 0..MaxSpent, nested : 0..MaxNested]

\* globalInit: the budget of one call, in epochs; 0 is "not active".
Epochs_OneLess(ms) == IF ms = 0 THEN 0 ELSE ms \div EpochMs + 1   \* mutant
Epochs(ms) == IF ms = 0 THEN 0 ELSE ms \div EpochMs + 2

TypeOK ==
  /\ limit \in Limits
  /\ stack \in [Actors -> Seq(Frame)]
  /\ left \in [Instances -> 0..MaxSpent]
  /\ groupLock \in {Opener, None}
  /\ constErr \in Messages \cup {None} /\ wtErr \in Actors \cup {None}
  /\ {hadInit, opened, stop} \subseteq BOOLEAN
  /\ started \subseteq Workers

-----------------------------------------------------------------------------
(* Frames, the group's lock and its error *)

Idle(a)   == stack[a] = <<>>
Top(a)    == stack[a][Len(stack[a])]
At(a, l)  == ~Idle(a) /\ Top(a).at = l
Goto(a, l) == stack' = [stack EXCEPT ![a][Len(stack[a])].at = l]
Called(fn, l, budget) == [fn |-> fn, at |-> l, spent |-> 0, nested |-> budget]
Without(a) == SubSeq(stack[a], 1, Len(stack[a]) - 1)

\* callMutex is recursive and held from the lock to the return.
CallMutexFree(h) == \A other \in Hosts \ {h} :
                      \A i \in 1..Len(stack[other]) : stack[other][i].at = "lock"

HasError    == constErr # None \/ wtErr # None
GroupFree(a) == groupLock \in {None, a}

\* InstanceGroup::error().
Error_WasmtimeFirst == IF wtErr # None THEN wtErr ELSE constErr      \* mutant
Error == IF constErr # None THEN constErr ELSE wtErr

\* setError(const char *): test and store under groupMutex.
SetConst_NoTest(a, message) ==                                       \* mutant
  GroupFree(a) /\ constErr' = message /\ UNCHANGED wtErr
SetConst(a, message) ==
  /\ GroupFree(a)
  /\ constErr' = IF HasError THEN constErr ELSE message
  /\ UNCHANGED wtErr

\* The innermost function of a returns to the function that called it.  initInner
\* keeps groupMutex until it returns, however that comes about.
Leave(a) ==
  /\ stack' = [stack EXCEPT ![a] = Without(a)]
  /\ groupLock' = IF Top(a).fn = "init" THEN None ELSE groupLock
  /\ opened' = (opened \/ Top(a).fn = "init")

SetDeadline(i) == left' = [left EXCEPT ![i] = Epochs(limit)]

Init ==
  /\ limit \in Limits
  /\ stack = [a \in Actors |-> IF a = Opener THEN <<Called("init", "wasm", 0)>> ELSE <<>>]
  /\ left = [i \in Instances |-> IF i = Main THEN Epochs(limit) ELSE 0]
  /\ groupLock = Opener
  /\ constErr = None /\ wtErr = None
  /\ hadInit = FALSE /\ opened = FALSE /\ started = {} /\ stop = FALSE

-----------------------------------------------------------------------------
(* The host's side of a call *)

\* A call from the host, or from a host function that WASM code called.
HostCalls(h, fn) ==
  /\ opened /\ ~stop
  /\ \/ Idle(h) /\ stack' = [stack EXCEPT ![h] = <<Called(fn, "lock", MaxNested)>>]
     \/ /\ At(h, "host") /\ Top(h).nested > 0
        /\ LET rest == Top(h).nested - 1 IN
             stack' = [stack EXCEPT ![h] =
               Append(Append(Without(h), [Top(h) EXCEPT !.nested = rest]), Called(fn, "lock", rest))]
  /\ UNCHANGED <<left, groupLock, errs, life>>

\* wtCall refuses once the group has an error.
CallRefused(h) ==
  /\ At(h, "lock") /\ Top(h).fn = "call" /\ HasError /\ CallMutexFree(h)
  /\ Leave(h)
  /\ UNCHANGED <<left, errs, limit, hadInit, started, stop>>

\* The function table has no function at this index.
CallUnresolved(h) ==
  /\ At(h, "lock") /\ Top(h).fn = "call" /\ ~HasError /\ CallMutexFree(h)
  /\ Goto(h, "bad function pointer")
  /\ UNCHANGED <<left, groupLock, errs, life>>

Enter_NoDeadline(h) ==                                               \* mutant
  /\ At(h, "lock") /\ CallMutexFree(h)
  /\ Top(h).fn = "call" => ~HasError
  /\ Goto(h, "wasm")
  /\ IF Top(h).fn = "call" THEN SetDeadline(Main) ELSE UNCHANGED left
  /\ UNCHANGED <<groupLock, errs, life>>

\* wtMalloc does not look at the group's error.
Enter(h) ==
  /\ At(h, "lock") /\ CallMutexFree(h)
  /\ Top(h).fn = "call" => ~HasError
  /\ Goto(h, "wasm") /\ SetDeadline(Main)
  /\ UNCHANGED <<groupLock, errs, life>>

\* A host function, and its return: the time it takes counts too.  Code at its
\* deadline notices before it gets to another one.
HostFunction(h) ==
  /\ At(h, "wasm") /\ Top(h).fn = "call" /\ Top(h).nested > 0
  /\ limit > 0 => left[Main] > 0
  /\ Goto(h, "host")
  /\ UNCHANGED <<left, groupLock, errs, life>>

HostReturns_NewBudget(h) ==                                          \* mutant
  /\ At(h, "host") /\ Goto(h, "wasm") /\ SetDeadline(Main)
  /\ UNCHANGED <<groupLock, errs, life>>

HostReturns(h) ==
  /\ At(h, "host") /\ Goto(h, "wasm")
  /\ UNCHANGED <<left, groupLock, errs, life>>

-----------------------------------------------------------------------------
(* What comes out of WASM *)

Returns(a) ==
  /\ At(a, "wasm") /\ Leave(a)
  /\ hadInit' = (hadInit \/ Top(a).fn = "init")
  /\ UNCHANGED <<left, errs, limit, started, stop>>

\* A trap of the code's own, or an error from Wasmtime.
Fails(a) ==
  /\ At(a, "wasm") /\ \E how \in {"trap", "raised"} : Goto(a, how)
  /\ UNCHANGED <<left, groupLock, errs, life>>

\* The epoch deadline.  Without a callback on the store it is a trap.
Timeout(a) ==
  /\ limit > 0 /\ At(a, "wasm") /\ left[InstanceOf(a)] = 0 /\ Top(a).fn # "thread"
  /\ Goto(a, "timeout")
  /\ UNCHANGED <<left, groupLock, errs, life>>

ContinueChecker_NeverStops(w) ==                                     \* mutant
  /\ limit > 0 /\ At(w, "wasm") /\ left[w] = 0 /\ SetDeadline(w)
  /\ UNCHANGED <<stack, groupLock, errs, life>>

\* On a WASM thread the deadline asks whether to stop, and is moved on if not.
ContinueChecker(w) ==
  /\ limit > 0 /\ At(w, "wasm") /\ left[w] = 0
  /\ IF stop THEN Goto(w, "raised") /\ UNCHANGED left
             ELSE SetDeadline(w) /\ UNCHANGED stack
  /\ UNCHANGED <<groupLock, errs, life>>

\* The failures with a constant message.
ReportMessage(a) ==
  /\ ~Idle(a) /\ Top(a).at \in Messages
  /\ SetConst(a, Top(a).at) /\ Leave(a)
  /\ UNCHANGED <<left, limit, hadInit, started, stop>>

\* setError(wasmtime_error_t *) tests hasError() before it takes the lock.  The
\* constant messages that some callers add find an error, and are only logged.
TestError(a) ==
  /\ At(a, "raised")
  /\ IF HasError THEN Leave(a) ELSE Goto(a, "store") /\ UNCHANGED <<groupLock, opened>>
  /\ UNCHANGED <<left, errs, limit, hadInit, started, stop>>

StoreError(a) ==
  /\ At(a, "store") /\ GroupFree(a)
  /\ wtErr' = a /\ Leave(a)
  /\ UNCHANGED <<left, constErr, limit, hadInit, started, stop>>

-----------------------------------------------------------------------------
(* WASM threads, closing and time *)

\* WASM code starts a thread; setting up its Instance fails in a group with an error.
Spawn(w) ==
  /\ w \notin started /\ ~HasError /\ ~stop
  /\ \E a \in Actors : At(a, "wasm")
  /\ started' = started \cup {w}
  /\ stack' = [stack EXCEPT ![w] = <<Called("thread", "check", 0)>>]
  /\ UNCHANGED <<left, groupLock, errs, limit, hadInit, opened, stop>>

RunThread(w) ==
  /\ At(w, "check")
  /\ IF hadInit THEN Goto(w, "wasm") /\ SetDeadline(w)
                ELSE Goto(w, "not initialised") /\ UNCHANGED left
  /\ UNCHANGED <<groupLock, errs, life>>

\* wclap_close, when the host has no call in progress.
Close ==
  /\ opened /\ ~stop /\ \A h \in Hosts : Idle(h)
  /\ stop' = TRUE
  /\ UNCHANGED <<limit, stack, left, groupLock, errs, hadInit, opened, started>>

\* Code that reaches its deadline notices before the next epoch.
Tick ==
  /\ limit > 0 /\ \E a \in Actors : ~Idle(a)
  /\ \A a \in Actors : At(a, "wasm") => left[InstanceOf(a)] > 0
  /\ left' = [i \in Instances |-> IF left[i] = 0 THEN 0 ELSE left[i] - 1]
  /\ stack' = [a \in Actors |-> [i \in DOMAIN stack[a] |->
       IF stack[a][i].at \in {"lock", "check"} \/ stack[a][i].spent = MaxSpent
         THEN stack[a][i] ELSE [stack[a][i] EXCEPT !.spent = @ + 1]]]
  /\ UNCHANGED <<groupLock, errs, life>>

\* The module is closed and its threads have ended.
Closed == stop /\ \A a \in Actors : Idle(a)
Terminated == Closed /\ UNCHANGED vars

Next ==
  \/ \E h \in Hosts : \/ \E fn \in {"call", "malloc"} : HostCalls(h, fn)
                      \/ CallRefused(h) \/ CallUnresolved(h) \/ Enter(h)
                      \/ HostFunction(h) \/ HostReturns(h)
  \/ \E a \in Actors : \/ Returns(a) \/ Fails(a) \/ Timeout(a)
                       \/ ReportMessage(a) \/ TestError(a) \/ StoreError(a)
  \/ \E w \in Workers : Spawn(w) \/ RunThread(w) \/ ContinueChecker(w)
  \/ Close \/ Tick \/ Terminated

Spec == Init /\ [][Next]_vars

\* The epoch thread goes on, code notices its deadline, native code runs on, and
\* whoever waits for callMutex gets it.  Nothing makes WASM code return.
Fairness ==
  /\ WF_vars(Tick)
  /\ \A h \in Hosts : SF_vars(CallRefused(h) \/ Enter(h)) /\ WF_vars(HostReturns(h))
  /\ \A a \in Actors : /\ WF_vars(Timeout(a))
                       /\ WF_vars(ReportMessage(a) \/ TestError(a) \/ StoreError(a))
  /\ \A w \in Workers : WF_vars(RunThread(w)) /\ WF_vars(ContinueChecker(w))

FairSpec == Spec /\ Fairness

-----------------------------------------------------------------------------
(* Properties *)

\* No call is cut short: when one times out, at least timeLimitMs have passed since
\* that same call entered WASM, although calls below it and calls of other threads
\* on the same Instance moved the deadline, and epochs do not start with the call.
NoEarlyTimeout ==
  \A a \in Actors : \A i \in 1..Len(stack[a]) :
    stack[a][i].at = "timeout" => (stack[a][i].spent - 1) * EpochMs >= limit

\* The inductive invariant behind it: what a call has spent and what is left until
\* the deadline of its Instance together are a whole budget.
HasBudget(f, i) == /\ f.at \in {"wasm", "host"} => f.spent + left[i] >= Epochs(limit)
                   /\ f.at = "timeout" => limit > 0 /\ f.spent >= Epochs(limit)
InBudget == \A a \in Actors : \A i \in 1..Len(stack[a]) : HasBudget(stack[a][i], InstanceOf(a))
IInv == TypeOK /\ InBudget

\* What error() says, once it says something, is final, except that one Wasmtime
\* error may replace another: setError tests before it locks, so of two threads
\* that fail together the second to store wins.  No later message gets in between.
FirstErrorStays ==
  [][Error # None => \/ Error' = Error
                     \/ Error \in Actors /\ Error' \in Actors]_vars

\* With a time limit every call returns, whatever the WASM code does, provided that
\* its host functions do and make boundedly many calls: each of those sets the
\* deadline of the call around it anew.
CallsReturn == \A h \in Hosts : (limit > 0 /\ ~Idle(h)) ~> Idle(h)

\* With a time limit a close ends every WASM thread, one that waits for init's
\* groupMutex with its error and one that never returns included.
StopReachesWorkers == (limit > 0 /\ stop) ~> Closed

===============================================================================
