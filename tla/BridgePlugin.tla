----------------------------- MODULE BridgePlugin -----------------------------
(***************************************************************************)
(* The bridge plugin (plugin/source/wclap-bridge-plugin.cpp): clap_init    *)
(* and clap_deinit count their callers under initMutex; the first init     *)
(* opens every .wclap file it finds and collects the plugins of all into   *)
(* one list; the last deinit closes them.  The C API below it is the one   *)
(* of BridgeApi, seen by a caller that never overlaps two calls.           *)
(***************************************************************************)
EXTENDS Integers, Sequences, FiniteSets, SequencesExt

CONSTANTS Hosts,       \* threads that call clap_init and clap_deinit
          NumFiles,    \* .wclap files on the disk
          Ids,         \* plugin IDs
          Versions,    \* their versions, 0 for a null version
          Unparsable,  \* those that semver does not accept, such as 1.0
          MaxPlugins,  \* bound: plugins per WCLAP
          MaxInits,    \* bound: inits a host has not undone
          None

ASSUME HostsAssumption    == None \notin Hosts
ASSUME VersionsAssumption == Versions \subseteq Nat /\ Unparsable \subseteq Versions \ {0}
ASSUME BoundsAssumption   == NumFiles \in Nat /\ MaxPlugins \in Nat /\ MaxInits \in Nat

Files == 1..NumFiles

\* What wclap_open, wclap_get_error and wclap_get_factory make of a file: a null
\* handle, an error, no factory, or the descriptors its factory enumerates.
Descriptors == [id : Ids, version : Versions]
Opens == {"null", "error", "noFactory", "factory"}
Content(f, d) == [open |-> f, descriptors |-> d]
Contents == {Content(f, <<>>) : f \in Opens}
              \cup {Content("factory", d) : d \in UNION {[1..n -> Descriptors] : n \in 1..MaxPlugins}}

VARIABLES
  disk,           \* the content of each file
  pc,             \* where each host is in clap_init or clap_deinit
  result,         \* what each host's last clap_init returned
  inits,          \* successful inits of each host that it has not undone
  initMutex,      \* holder of initMutex
  initCounter,
  globalInit,     \* wclap_global_init has succeeded
  initFailed,     \* history: it has failed
  active,         \* files whose WCLAP is open
  wclapList,      \* files, in the order their Wclap was made
  pluginList,     \* entries [file, item, wclapIndex]: desc is the item-th of file
  cursor,         \* the file, or Wclap and descriptor, the scan looks at next
  fault           \* a call with a null handle, an exception out of clap_init, the
                  \* abort() of wclap_global_deinit

hostVars == <<pc, result, inits>>
vars == <<disk, hostVars, initMutex, initCounter, globalInit, initFailed, active,
          wclapList, pluginList, cursor, fault>>

Desc(p) == disk[p.file].descriptors[p.item]
Entry   == [file : Files, item : 1..MaxPlugins, wclapIndex : 1..NumFiles]

TypeOK ==
  /\ disk \in [Files -> Contents]
  /\ pc \in [Hosts -> {"idle", "global", "scan", "collect", "clear", "globalDeinit"}]
  /\ result \in [Hosts -> BOOLEAN] /\ inits \in [Hosts -> 0..MaxInits]
  /\ initMutex \in Hosts \cup {None} /\ initCounter \in Nat
  /\ globalInit \in BOOLEAN /\ initFailed \in BOOLEAN
  /\ active \subseteq Files /\ wclapList \in Seq(Files)
  /\ pluginList \in Seq(Entry)
  /\ \A i \in 1..Len(pluginList) :
       pluginList[i].item <= Len(disk[pluginList[i].file].descriptors)
  /\ cursor \in [wclap : 1..NumFiles+1, item : 1..MaxPlugins+1]
  /\ fault \in {"none", "nullHandle", "exception", "abort"}

Start == [wclap |-> 1, item |-> 1]

Init ==
  /\ disk \in [Files -> Contents]
  /\ pc = [h \in Hosts |-> "idle"] /\ result = [h \in Hosts |-> FALSE]
  /\ inits = [h \in Hosts |-> 0]
  /\ initMutex = None /\ initCounter = 0
  /\ globalInit = FALSE /\ initFailed = FALSE
  /\ active = {} /\ wclapList = <<>> /\ pluginList = <<>>
  /\ cursor = Start /\ fault = "none"

Goto(h, l) == pc' = [pc EXCEPT ![h] = l]

\* clap_init returns r to h and unlocks.
Return(h, r) ==
  /\ Goto(h, "idle") /\ initMutex' = None
  /\ result' = [result EXCEPT ![h] = r]
  /\ inits' = [inits EXCEPT ![h] = IF r THEN @ + 1 ELSE @]

-----------------------------------------------------------------------------
(* Mutants *)

InitLock_Unlocked(h) ==         \* does not wait for initMutex
  /\ pc[h] = "idle" /\ inits[h] < MaxInits
  /\ initCounter' = initCounter + 1
  /\ IF initCounter > 0 THEN Return(h, TRUE)
     ELSE Goto(h, "global") /\ initMutex' = h /\ UNCHANGED <<result, inits>>
  /\ UNCHANGED <<disk, globalInit, initFailed, active, wclapList, pluginList, cursor, fault>>

ScanOpen_KeepsFailed(h) ==      \* does not close a WCLAP that has an error
  /\ pc[h] = "scan" /\ cursor.wclap <= NumFiles
  /\ LET f == cursor.wclap IN
       /\ fault' = IF disk[f].open = "null" THEN "nullHandle" ELSE fault
       /\ active' = IF disk[f].open = "null" THEN active ELSE active \cup {f}
       /\ wclapList' = IF disk[f].open \in {"noFactory", "factory"}
                       THEN Append(wclapList, f) ELSE wclapList
  /\ cursor' = [cursor EXCEPT !.wclap = @ + 1]
  /\ UNCHANGED <<disk, hostVars, initMutex, initCounter, globalInit, initFailed, pluginList>>

\* Replaces the descriptor of an entry and leaves its wclapIndex.
Replace_DescOnly(k, p) ==
  [pluginList EXCEPT ![k].file = p.file, ![k].item = p.item]

Newer_Older(a, b) == b.version = 0 \/ (a.version # 0 /\ a.version < b.version)

DeinitLock_PreTest(h) ==        \* if (initCounter--) return;
  /\ pc[h] = "idle" /\ inits[h] > 0 /\ initMutex = None
  /\ inits' = [inits EXCEPT ![h] = @ - 1]
  /\ initCounter' = initCounter - 1
  /\ IF initCounter > 0 THEN UNCHANGED <<pc, initMutex>>
     ELSE Goto(h, "clear") /\ initMutex' = h
  /\ UNCHANGED <<disk, result, globalInit, initFailed, active, wclapList, pluginList, cursor, fault>>

-----------------------------------------------------------------------------
(* clap_init *)

\* A host calls init at any time; only the first caller goes on to do anything.
InitLock(h) ==
  /\ pc[h] = "idle" /\ inits[h] < MaxInits /\ initMutex = None
  /\ initCounter' = initCounter + 1
  /\ IF initCounter > 0 THEN Return(h, TRUE)
     ELSE Goto(h, "global") /\ initMutex' = h /\ UNCHANGED <<result, inits>>
  /\ UNCHANGED <<disk, globalInit, initFailed, active, wclapList, pluginList, cursor, fault>>

\* wclap_global_init(250).  Its failure leaves initCounter at 1.
GlobalInit(h) ==
  /\ pc[h] = "global"
  /\ \/ /\ globalInit' = TRUE /\ cursor' = Start
        /\ Goto(h, "scan") /\ UNCHANGED <<initMutex, result, inits, initFailed>>
     \/ /\ Return(h, FALSE) /\ initFailed' = TRUE
        /\ UNCHANGED <<globalInit, cursor>>
  /\ UNCHANGED <<disk, initCounter, active, wclapList, pluginList, fault>>

\* scanWclapDirectory, one file: wclap_get_error does not expect a null handle.
ScanOpen(h) ==
  /\ pc[h] = "scan" /\ cursor.wclap <= NumFiles
  /\ LET f == cursor.wclap
         opened == disk[f].open \in {"noFactory", "factory"} IN
       /\ fault' = IF disk[f].open = "null" THEN "nullHandle" ELSE fault
       /\ active' = IF opened THEN active \cup {f} ELSE active
       /\ wclapList' = IF opened THEN Append(wclapList, f) ELSE wclapList
  /\ cursor' = [cursor EXCEPT !.wclap = @ + 1]
  /\ UNCHANGED <<disk, hostVars, initMutex, initCounter, globalInit, initFailed, pluginList>>

\* recursive_directory_iterator throws, at a directory that cannot be read.
ScanThrows(h) ==
  /\ pc[h] = "scan" /\ fault' = "exception"
  /\ UNCHANGED <<disk, hostVars, initMutex, initCounter, globalInit, initFailed, active,
                 wclapList, pluginList, cursor>>

ScanEnds(h) ==
  /\ pc[h] = "scan" /\ cursor.wclap > NumFiles
  /\ cursor' = Start
  /\ Goto(h, "collect")
  /\ UNCHANGED <<disk, result, inits, initMutex, initCounter, globalInit, initFailed,
                 active, wclapList, pluginList, fault>>

\* The version of a replaces that of b: b has none, or a's is later.
Newer(a, b) == b.version = 0 \/ (a.version # 0 /\ a.version > b.version)

\* The entries of pluginList with the ID of p: the loop stops at the first.
SameId(p) == {k \in 1..Len(pluginList) : Desc(pluginList[k]).id = Desc(p).id}

Replace(k, p) == [pluginList EXCEPT ![k] = p]

\* The descriptor that scanWclapPlugins looks at, if the WCLAP has one there.
Current == [file |-> wclapList[cursor.wclap], item |-> cursor.item, wclapIndex |-> cursor.wclap]
AtDescriptor == /\ cursor.wclap <= Len(wclapList)
                /\ cursor.item <= Len(disk[wclapList[cursor.wclap]].descriptors)

CollectNew(h) ==
  /\ pc[h] = "collect" /\ AtDescriptor /\ SameId(Current) = {}
  /\ pluginList' = Append(pluginList, Current)
  /\ cursor' = [cursor EXCEPT !.item = @ + 1]
  /\ UNCHANGED <<disk, hostVars, initMutex, initCounter, globalInit, initFailed, active,
                 wclapList, fault>>

\* semver::version::parse, called if both have a version, throws for one it does
\* not accept, and nobody catches.
Parses(a, b) == a.version = 0 \/ b.version = 0 \/ {a.version, b.version} \cap Unparsable = {}

CollectThrows(h) ==
  /\ pc[h] = "collect" /\ AtDescriptor
  /\ \E k \in SameId(Current) : ~Parses(Desc(Current), Desc(pluginList[k]))
  /\ fault' = "exception"
  /\ UNCHANGED <<disk, hostVars, initMutex, initCounter, globalInit, initFailed, active,
                 wclapList, pluginList, cursor>>

\* "if (duplicate) return;": the rest of this WCLAP, and of all the later ones,
\* is not looked at.
CollectDuplicate(h) ==
  /\ pc[h] = "collect" /\ AtDescriptor
  /\ \E k \in SameId(Current) :
       /\ Parses(Desc(Current), Desc(pluginList[k]))
       /\ pluginList' = IF Newer(Desc(Current), Desc(pluginList[k]))
                        THEN Replace(k, Current) ELSE pluginList
  /\ Return(h, TRUE)
  /\ UNCHANGED <<disk, initCounter, globalInit, initFailed, active, wclapList, cursor, fault>>

\* The next WCLAP (this one has no factory, or no more descriptors), or the end.
CollectNext(h) ==
  /\ pc[h] = "collect" /\ ~AtDescriptor
  /\ IF cursor.wclap <= Len(wclapList)
     THEN /\ cursor' = [wclap |-> cursor.wclap + 1, item |-> 1]
          /\ UNCHANGED <<hostVars, initMutex>>
     ELSE Return(h, TRUE) /\ UNCHANGED cursor
  /\ UNCHANGED <<disk, initCounter, globalInit, initFailed, active, wclapList, pluginList, fault>>

-----------------------------------------------------------------------------
(* clap_deinit *)

\* A host undoes an init that succeeded.
DeinitLock(h) ==
  /\ pc[h] = "idle" /\ inits[h] > 0 /\ initMutex = None
  /\ inits' = [inits EXCEPT ![h] = @ - 1]
  /\ initCounter' = initCounter - 1
  /\ IF initCounter > 1 THEN UNCHANGED <<pc, initMutex>>
     ELSE Goto(h, "clear") /\ initMutex' = h
  /\ UNCHANGED <<disk, result, globalInit, initFailed, active, wclapList, pluginList, cursor, fault>>

\* wclapList.clear() closes every WCLAP; then pluginList.clear().
DeinitClear(h) ==
  /\ pc[h] = "clear"
  /\ active' = active \ ToSet(wclapList)
  /\ wclapList' = <<>> /\ pluginList' = <<>>
  /\ Goto(h, "globalDeinit")
  /\ UNCHANGED <<disk, result, inits, initMutex, initCounter, globalInit, initFailed, cursor, fault>>

\* wclap_global_deinit aborts if a WCLAP is still active.
GlobalDeinit(h) ==
  /\ pc[h] = "globalDeinit"
  /\ IF globalInit /\ active # {}
     THEN fault' = "abort" /\ UNCHANGED <<pc, initMutex, globalInit>>
     ELSE /\ globalInit' = FALSE
          /\ Goto(h, "idle") /\ initMutex' = None /\ UNCHANGED fault
  /\ UNCHANGED <<disk, result, inits, initCounter, initFailed, active, wclapList, pluginList, cursor>>

-----------------------------------------------------------------------------
HostStep(h) ==
  \/ InitLock(h) \/ GlobalInit(h) \/ ScanOpen(h) \/ ScanThrows(h) \/ ScanEnds(h)
  \/ CollectNew(h) \/ CollectDuplicate(h) \/ CollectThrows(h) \/ CollectNext(h)
  \/ DeinitLock(h) \/ DeinitClear(h) \/ GlobalDeinit(h)

Crashed == fault # "none" /\ UNCHANGED vars

Next == \/ fault = "none" /\ \E h \in Hosts : HostStep(h)
        \/ Crashed

Spec == Init /\ [][Next]_vars

-----------------------------------------------------------------------------
(* Properties *)

\* A host that was told clap_init succeeded, and has not undone it, finds the
\* engine up and the scan finished, whoever did them, unless an earlier init
\* failed: initCounter counts that one for ever (line 167 returns without undoing
\* line 164).
InitTrueMeansReady ==
  \A h \in Hosts :
    inits[h] > 0 /\ ~initFailed =>
      globalInit /\ \A g \in Hosts : pc[g] \notin {"global", "scan", "collect", "clear"}

\* An entry's descriptor belongs to the open WCLAP that create_plugin would ask
\* for it (pluginFactory_create_plugin, lines 194-202): the pointers of the list
\* never outlive their WCLAP, nor are an ID and its factory mismatched.
EntriesRouteToOwner ==
  \A i \in 1..Len(pluginList) :
    LET p == pluginList[i] IN
      /\ p.wclapIndex \in 1..Len(wclapList)
      /\ wclapList[p.wclapIndex] = p.file /\ p.file \in active

\* Of the descriptors that scanWclapPlugins has looked at, each ID is listed
\* once, with the latest version that any of them has.
In(phases) == \E h \in Hosts : pc[h] \in phases
Seen(w, k) == \/ w < cursor.wclap
              \/ w = cursor.wclap /\ k < cursor.item
              \/ w = cursor.wclap /\ k = cursor.item /\ ~In({"collect"})
NewestListedOnce ==
  ~In({"global", "scan"}) =>
    \A w \in 1..Len(wclapList) : \A k \in 1..Len(disk[wclapList[w]].descriptors) :
      LET d == disk[wclapList[w]].descriptors[k]
          same == {i \in 1..Len(pluginList) : Desc(pluginList[i]).id = d.id}
      IN Seen(w, k) => \E i \in same : same = {i} /\ Desc(pluginList[i]).version >= d.version

\* Every WCLAP that was opened is closed again, once, before wclap_global_deinit:
\* it never aborts, and after the last deinit nothing is left open.
DeinitClosesAll ==
  /\ fault # "abort"
  /\ initCounter = 0 /\ initMutex = None => active = {} /\ ~globalInit /\ pluginList = <<>>

\* What else the inductive invariant needs.  initCounter is one for each init that
\* is not undone, for the one that scans and for one that failed.
Claims == {c \in Hosts \X (1..MaxInits) : c[2] <= inits[c[1]]}
One(b) == IF b THEN 1 ELSE 0
Counted ==
  /\ IsFiniteSet(Claims)
  /\ initCounter = Cardinality(Claims) + One(In({"global", "scan", "collect"})) + One(initFailed)
  /\ In({"global", "scan", "collect"}) => initCounter = 1 /\ MaxInits > 0
  /\ In({"clear", "globalDeinit"}) => initCounter = 0

MutexHeld == \A h \in Hosts : pc[h] # "idle" <=> initMutex = h

\* The engine and the two lists, as each phase leaves them.
Phases ==
  /\ initCounter > 0 /\ ~initFailed /\ ~In({"global"}) => globalInit
  /\ active = ToSet(wclapList) /\ Len(wclapList) <= NumFiles
  /\ In({"global", "globalDeinit"}) \/ (initCounter = 0 /\ initMutex = None) => wclapList = <<>>
  /\ In({"global", "scan", "globalDeinit"}) => pluginList = <<>>
  /\ In({"scan"}) => Len(wclapList) < cursor.wclap

IdsUnique == \A i, j \in 1..Len(pluginList) :
               Desc(pluginList[i]).id = Desc(pluginList[j]).id => i = j

IInv == TypeOK /\ Counted /\ MutexHeld /\ Phases /\ IdsUnique
          /\ EntriesRouteToOwner /\ NewestListedOnce /\ DeinitClosesAll

\* The bridge plugin as the hosts that share it see it: see SharedFactory.
FactoryPhase == CASE initFailed -> "failed"
                  [] ~initFailed /\ In({"global", "scan", "collect"}) -> "opening"
                  [] ~initFailed /\ In({"clear", "globalDeinit"}) -> "closing"
                  [] OTHER -> IF initCounter = 0 THEN "closed" ELSE "open"
Listed == {Desc(pluginList[i]) : i \in 1..Len(pluginList)}

Factory == INSTANCE SharedFactory WITH phase <- FactoryPhase, users <- inits, listed <- Listed

\* Nobody is let in before the first init's scan is over, the list a host was let
\* in to stays as it is while any host holds an init, and only the last deinit
\* empties it (clap_init and clap_deinit, lines 162-185).
ImplementsSharedFactory == Factory!Spec

\* The bridge plugin "scans standard locations for WCLAPs, and collects them into
\* a single plugin factory" (README.md:14).
AllPluginsCollected ==
  \A h \in Hosts : inits[h] > 0 /\ globalInit /\ initMutex = None =>
    \A f \in active : \A k \in 1..Len(disk[f].descriptors) :
      \E i \in 1..Len(pluginList) : Desc(pluginList[i]).id = disk[f].descriptors[k].id
===============================================================================
