------------------------- MODULE BridgePlugin_proofs -------------------------
(***************************************************************************)
(* The bridge plugin opens, lists and closes WCLAPs consistently, for any  *)
(* hosts, any number of nested inits and any .wclap files on the disk.     *)
(***************************************************************************)
EXTENDS BridgePlugin, FiniteSetTheorems, SequenceTheorems, TLAPS

-----------------------------------------------------------------------------
(* Descriptors and entries *)

LEMMA DiskIs ==
  ASSUME TypeOK, NEW f \in Files
  PROVE  /\ disk[f].descriptors \in Seq(Descriptors)
         /\ Len(disk[f].descriptors) \in 0..MaxPlugins
  <1>1. disk[f] \in Contents  BY DEF TypeOK
  <1>2. CASE \E o \in Opens : disk[f] = Content(o, <<>>)
    <2>1. disk[f].descriptors = <<>>  BY <1>2 DEF Content
    <2> QED BY <2>1, BoundsAssumption
  <1>3. CASE \E n \in 1..MaxPlugins : \E d \in [1..n -> Descriptors] : disk[f] = Content("factory", d)
    <2>1. PICK n \in 1..MaxPlugins : \E d \in [1..n -> Descriptors] : disk[f] = Content("factory", d)
      BY <1>3
    <2>2. n \in Nat /\ n \in 0..MaxPlugins  BY BoundsAssumption
    <2>3. PICK d \in [1..n -> Descriptors] : disk[f].descriptors = d  BY <2>1 DEF Content
    <2>4. d \in Seq(Descriptors) /\ Len(d) = n  BY <2>2
    <2> QED BY <2>2, <2>3, <2>4
  <1> QED BY <1>1, <1>2, <1>3 DEF Contents

LEMMA DescIs ==
  ASSUME TypeOK, NEW p \in Entry, p.item <= Len(disk[p.file].descriptors)
  PROVE  Desc(p) \in Descriptors /\ Desc(p).version \in Nat
  <1>1. p.file \in Files /\ p.item \in 1..MaxPlugins  BY DEF Entry
  <1>2. disk[p.file].descriptors \in Seq(Descriptors)  BY <1>1, DiskIs
  <1>3. p.item \in 1..Len(disk[p.file].descriptors)
    <2>1. p.item \in Nat \ {0}  BY <1>1, BoundsAssumption
    <2>2. Len(disk[p.file].descriptors) \in Nat  BY <1>2
    <2> QED BY <2>1, <2>2
  <1>4. Desc(p) \in Descriptors  BY <1>2, <1>3 DEF Desc
  <1> QED BY <1>4, VersionsAssumption DEF Descriptors

LEMMA ListedIs ==
  ASSUME TypeOK, NEW i \in 1..Len(pluginList)
  PROVE  /\ pluginList[i] \in Entry
         /\ pluginList[i].item <= Len(disk[pluginList[i].file].descriptors)
         /\ Desc(pluginList[i]).version \in Nat
  <1>1. pluginList[i] \in Entry  BY DEF TypeOK
  <1>2. pluginList[i].item <= Len(disk[pluginList[i].file].descriptors)  BY DEF TypeOK
  <1> QED BY <1>1, <1>2, DescIs

\* What scanWclapPlugins looks at is an entry.
LEMMA CurrentIs ==
  ASSUME TypeOK, Phases, AtDescriptor
  PROVE  /\ Current \in Entry
         /\ Current.item <= Len(disk[Current.file].descriptors)
         /\ Desc(Current) \in Descriptors /\ Desc(Current).version \in Nat
         /\ Current.wclapIndex \in 1..Len(wclapList)
         /\ Current.file = wclapList[cursor.wclap] /\ Current.file \in Files
         /\ Current.wclapIndex = cursor.wclap /\ Current.item = cursor.item
         /\ Current.item \in 1..MaxPlugins /\ cursor.wclap \in 1..NumFiles
  <1>1. wclapList \in Seq(Files) /\ Len(wclapList) \in Nat /\ Len(wclapList) <= NumFiles
    BY DEF TypeOK, Phases
  <1>2. cursor.wclap \in 1..NumFiles+1 /\ cursor.item \in 1..MaxPlugins+1  BY DEF TypeOK
  <1>3. cursor.wclap \in 1..Len(wclapList) /\ cursor.wclap \in 1..NumFiles
    BY <1>1, <1>2, BoundsAssumption DEF AtDescriptor
  <1>4. wclapList[cursor.wclap] \in Files  BY <1>1, <1>3
  <1>5. Len(disk[wclapList[cursor.wclap]].descriptors) \in 0..MaxPlugins  BY <1>4, DiskIs
  <1>6. cursor.item \in 1..MaxPlugins  BY <1>2, <1>5, BoundsAssumption DEF AtDescriptor
  <1>7. /\ Current.file = wclapList[cursor.wclap] /\ Current.item = cursor.item
        /\ Current.wclapIndex = cursor.wclap
    BY DEF Current
  <1>8. Current \in Entry  BY <1>3, <1>4, <1>6 DEF Current, Entry
  <1>9. Current.item <= Len(disk[Current.file].descriptors)  BY <1>7 DEF AtDescriptor
  <1>10. Desc(Current) \in Descriptors /\ Desc(Current).version \in Nat  BY <1>8, <1>9, DescIs
  <1> QED BY <1>3, <1>4, <1>6, <1>7, <1>8, <1>9, <1>10

-----------------------------------------------------------------------------
(* The phases: one host at a time is anywhere but idle *)

LEMMA Alone ==
  ASSUME IInv, NEW h \in Hosts, pc[h] # "idle" \/ initMutex = None
  PROVE  \A g \in Hosts \ {h} : pc[g] = "idle"
  BY HostsAssumption DEF IInv, MutexHeld

LEMMA InIs ==
  ASSUME IInv, NEW h \in Hosts, pc[h] # "idle" \/ initMutex = None,
         NEW P, "idle" \notin P
  PROVE  In(P) <=> pc[h] \in P
  BY Alone DEF In

LEMMA InNext ==
  ASSUME IInv, NEW h \in Hosts, pc[h] # "idle" \/ initMutex = None, NEW l, Goto(h, l),
         NEW P, "idle" \notin P
  PROVE  In(P)' <=> l \in P
  <1>1. pc'[h] = l /\ \A g \in Hosts \ {h} : pc'[g] = pc[g]  BY DEF Goto, IInv, TypeOK
  <1> QED BY <1>1, Alone DEF In

LEMMA MutexNext ==
  ASSUME IInv, NEW h \in Hosts, pc[h] # "idle" \/ initMutex = None, NEW l, Goto(h, l),
         initMutex' = IF l = "idle" THEN None ELSE h
  PROVE  MutexHeld'
  <1>1. pc'[h] = l /\ \A g \in Hosts \ {h} : pc'[g] = "idle"
    BY Alone DEF Goto, IInv, TypeOK
  <1> QED BY <1>1, HostsAssumption DEF MutexHeld

LEMMA PcType ==
  ASSUME IInv, NEW h \in Hosts, Goto(h, "idle") \/ Goto(h, "global") \/ Goto(h, "scan")
           \/ Goto(h, "collect") \/ Goto(h, "clear") \/ Goto(h, "globalDeinit")
  PROVE  pc' \in [Hosts -> {"idle", "global", "scan", "collect", "clear", "globalDeinit"}]
  BY DEF Goto, IInv, TypeOK

-----------------------------------------------------------------------------
(* The claims that initCounter counts *)

LEMMA ClaimsAre ==
  ASSUME TypeOK
  PROVE  \A g \in Hosts, k \in Nat : <<g, k>> \in Claims <=> k \in 1..inits[g]
  <1>1. \A g \in Hosts : inits[g] \in 0..MaxInits  BY DEF TypeOK
  <1> QED BY <1>1, BoundsAssumption DEF Claims

LEMMA ClaimsMore ==
  ASSUME TypeOK, IsFiniteSet(Claims), NEW h \in Hosts, inits[h] < MaxInits,
         inits' = [inits EXCEPT ![h] = @ + 1]
  PROVE  /\ inits' \in [Hosts -> 0..MaxInits]
         /\ IsFiniteSet(Claims') /\ Cardinality(Claims') = Cardinality(Claims) + 1
  <1>1. \A g \in Hosts : inits[g] \in 0..MaxInits  BY DEF TypeOK
  <1>2. inits' \in [Hosts -> 0..MaxInits]  BY <1>1, BoundsAssumption DEF TypeOK
  <1>3. inits'[h] = inits[h] + 1 /\ \A g \in Hosts \ {h} : inits'[g] = inits[g]
    BY DEF TypeOK
  <1> DEFINE c == <<h, inits[h] + 1>>
  <1>4. Claims' = Claims \cup {c}
    <2>1. ASSUME NEW g \in Hosts, NEW k \in 1..MaxInits
          PROVE  k <= inits'[g] <=> (k <= inits[g] \/ <<g, k>> = c)
      BY <1>1, <1>3, BoundsAssumption
    <2>2. c \in Hosts \X (1..MaxInits)  BY <1>1, BoundsAssumption
    <2> QED BY <2>1, <2>2 DEF Claims
  <1>5. c \notin Claims
    <2>1. inits[h] + 1 > inits[h]  BY <1>1
    <2> QED BY <1>1, <2>1 DEF Claims
  <1> QED BY <1>2, <1>4, <1>5, FS_AddElement

LEMMA ClaimsFewer ==
  ASSUME TypeOK, IsFiniteSet(Claims), NEW h \in Hosts, inits[h] > 0,
         inits' = [inits EXCEPT ![h] = @ - 1]
  PROVE  /\ inits' \in [Hosts -> 0..MaxInits]
         /\ IsFiniteSet(Claims') /\ Cardinality(Claims') = Cardinality(Claims) - 1
  <1>1. \A g \in Hosts : inits[g] \in 0..MaxInits  BY DEF TypeOK
  <1>2. inits' \in [Hosts -> 0..MaxInits]  BY <1>1, BoundsAssumption DEF TypeOK
  <1>3. inits'[h] = inits[h] - 1 /\ \A g \in Hosts \ {h} : inits'[g] = inits[g]
    BY DEF TypeOK
  <1> DEFINE c == <<h, inits[h]>>
  <1>4. Claims' = Claims \ {c}
    <2>1. ASSUME NEW g \in Hosts, NEW k \in 1..MaxInits
          PROVE  k <= inits'[g] <=> (k <= inits[g] /\ <<g, k>> # c)
      BY <1>1, <1>3, BoundsAssumption
    <2> QED BY <2>1 DEF Claims
  <1>5. c \in Claims
    <2>1. inits[h] \in 1..MaxInits /\ inits[h] <= inits[h]  BY <1>1, BoundsAssumption
    <2> QED BY <2>1 DEF Claims
  <1> QED BY <1>2, <1>4, <1>5, FS_RemoveElement

LEMMA ClaimsCount ==
  ASSUME IInv
  PROVE  /\ Cardinality(Claims) \in Nat
         /\ \A h \in Hosts : inits[h] > 0 => Cardinality(Claims) > 0
         /\ Cardinality(Claims) = 0 => \A h \in Hosts : inits[h] = 0
  <1>1. IsFiniteSet(Claims)  BY DEF IInv, Counted
  <1>2. Cardinality(Claims) \in Nat  BY <1>1, FS_CardinalityType
  <1>3. ASSUME NEW h \in Hosts, inits[h] > 0
        PROVE  Cardinality(Claims) > 0
    <2>1. inits[h] \in 0..MaxInits  BY DEF IInv, TypeOK
    <2>2. 1 \in 1..inits[h]  BY <1>3, <2>1, BoundsAssumption
    <2>3. <<h, 1>> \in Claims  BY <2>2, ClaimsAre DEF IInv
    <2>4. Cardinality(Claims) # 0  BY <1>1, <2>3, FS_EmptySet
    <2> QED BY <1>2, <2>4
  <1>4. \A h \in Hosts : inits[h] \in Nat  BY BoundsAssumption DEF IInv, TypeOK
  <1> QED BY <1>2, <1>3, <1>4

-----------------------------------------------------------------------------
(* Steps that leave the lists alone *)

Lists == <<disk, active, wclapList, pluginList, cursor>>

\* NewestListedOnce when IDs are unique: each descriptor seen has its entry.
HasEntry(d) == \E i \in 1..Len(pluginList) :
                 Desc(pluginList[i]).id = d.id /\ Desc(pluginList[i]).version >= d.version
Covered ==
  \A w \in 1..Len(wclapList) : \A k \in 1..Len(disk[wclapList[w]].descriptors) :
    Seen(w, k) => HasEntry(disk[wclapList[w]].descriptors[k])

LEMMA CoveredIs ==
  ASSUME NewestListedOnce, ~In({"global", "scan"})
  PROVE  Covered
  <1> SUFFICES ASSUME NEW w \in 1..Len(wclapList),
                      NEW k \in 1..Len(disk[wclapList[w]].descriptors), Seen(w, k)
               PROVE  HasEntry(disk[wclapList[w]].descriptors[k])
    BY DEF Covered
  <1> DEFINE d == disk[wclapList[w]].descriptors[k]
             same == {i \in 1..Len(pluginList) : Desc(pluginList[i]).id = d.id}
  <1>1. \E i \in same : same = {i} /\ Desc(pluginList[i]).version >= d.version
    BY DEF NewestListedOnce
  <1> QED BY <1>1 DEF HasEntry

LEMMA CoveredNext ==
  ASSUME IdsUnique', Covered'
  PROVE  NewestListedOnce'
  <1> SUFFICES ASSUME NEW w \in 1..Len(wclapList'),
                      NEW k \in 1..Len(disk'[wclapList'[w]].descriptors), Seen(w, k)'
               PROVE  LET d == disk'[wclapList'[w]].descriptors[k]
                          same == {i \in 1..Len(pluginList') : Desc(pluginList[i])'.id = d.id}
                      IN  \E i \in same : same = {i} /\ Desc(pluginList[i])'.version >= d.version
    BY DEF NewestListedOnce
  <1> DEFINE d == disk'[wclapList'[w]].descriptors[k]
             same == {i \in 1..Len(pluginList') : Desc(pluginList[i])'.id = d.id}
  <1>1. PICK i \in 1..Len(pluginList') :
          Desc(pluginList[i])'.id = d.id /\ Desc(pluginList[i])'.version >= d.version
    BY DEF Covered, HasEntry
  <1>2. \A j \in same : j = i  BY <1>1 DEF IdsUnique
  <1>3. i \in same /\ same = {i}  BY <1>1, <1>2
  <1> QED BY <1>1, <1>3

ListsInOrder == IdsUnique /\ EntriesRouteToOwner /\ NewestListedOnce

LEMMA ListsKept ==
  ASSUME IInv, UNCHANGED Lists,
         In({"collect"})' <=> In({"collect"}),
         In({"global", "scan"}) => In({"global", "scan"})' \/ wclapList = <<>>
  PROVE  ListsInOrder'
  <1> USE DEF Lists
  <1>1. IdsUnique'  BY DEF IInv, IdsUnique, Desc
  <1>2. EntriesRouteToOwner'  BY DEF IInv, EntriesRouteToOwner
  <1>3. NewestListedOnce'
    <2>1. CASE wclapList = <<>>  BY <2>1 DEF NewestListedOnce
    <2>2. CASE wclapList # <<>>
      <3>1. In({"global", "scan"}) => In({"global", "scan"})'  BY <2>2
      <3>2. \A w, k : Seen(w, k)' => Seen(w, k)  BY DEF Seen
      <3>3. CASE In({"global", "scan"})'  BY <3>3 DEF NewestListedOnce
      <3>4. CASE ~In({"global", "scan"})'
        <4>1. Covered  BY <3>1, <3>4, CoveredIs DEF IInv
        <4>2. \A d : HasEntry(d)' <=> HasEntry(d)  BY DEF HasEntry, Desc
        <4>3. Covered'  BY <3>2, <4>1, <4>2 DEF Covered
        <4> QED BY <1>1, <4>3, CoveredNext
      <3> QED BY <3>3, <3>4
    <2> QED BY <2>1, <2>2
  <1> QED BY <1>1, <1>2, <1>3 DEF ListsInOrder

LEMMA EmptyLists ==
  ASSUME wclapList = <<>>, pluginList = <<>>
  PROVE  ListsInOrder
  BY DEF ListsInOrder, IdsUnique, EntriesRouteToOwner, NewestListedOnce

LEMMA IInvNext ==
  ASSUME TypeOK', Counted', MutexHeld', Phases', ListsInOrder', DeinitClosesAll'
  PROVE  IInv'
  BY DEF IInv, ListsInOrder

LEMMA PhasesAre ==
  ASSUME IInv
  PROVE  /\ initCounter \in Nat
         /\ In({"global", "scan", "collect"}) =>
              /\ initCounter = 1 /\ MaxInits > 0 /\ ~initFailed
              /\ Cardinality(Claims) = 0
         /\ In({"clear", "globalDeinit"}) => initCounter = 0 /\ ~initFailed
         /\ active = ToSet(wclapList)
  <1>1. Cardinality(Claims) \in Nat  BY ClaimsCount
  <1> QED BY <1>1 DEF IInv, TypeOK, Counted, Phases, One

LEMMA NothingOpen == ToSet(<<>>) = {}
  BY DEF ToSet

LEMMA InitIInv == Init => IInv
  <1> SUFFICES ASSUME Init PROVE IInv  OBVIOUS
  <1> USE DEF Init
  <1>1. \A P : "idle" \notin P => ~In(P)  BY DEF In
  <1>2. TypeOK
    <2>1. 1 \in 1..NumFiles+1 /\ 1 \in 1..MaxPlugins+1 /\ 0 \in 0..MaxInits  BY BoundsAssumption
    <2>2. cursor \in [wclap : 1..NumFiles+1, item : 1..MaxPlugins+1]  BY <2>1 DEF Start
    <2>3. globalInit \in BOOLEAN /\ initFailed \in BOOLEAN  OBVIOUS
    <2>4. pluginList \in Seq(Entry) /\ wclapList \in Seq(Files) /\ Len(pluginList) = 0  OBVIOUS
    <2> QED BY <2>1, <2>2, <2>3, <2>4 DEF TypeOK
  <1>3. Counted
    <2>1. Claims = {}  BY BoundsAssumption DEF Claims
    <2>2. IsFiniteSet(Claims) /\ Cardinality(Claims) = 0  BY <2>1, FS_EmptySet
    <2> QED BY <1>1, <2>2 DEF Counted, One
  <1>4. MutexHeld  BY HostsAssumption DEF MutexHeld
  <1>5. Phases
    <2>1. Len(wclapList) <= NumFiles  BY BoundsAssumption
    <2> QED BY <1>1, <2>1, NothingOpen DEF Phases
  <1>6. ListsInOrder  BY EmptyLists
  <1>7. DeinitClosesAll  BY DEF DeinitClosesAll
  <1> QED BY <1>2, <1>3, <1>4, <1>5, <1>6, <1>7 DEF IInv, ListsInOrder

LEMMA InitLockIInv ==
  ASSUME IInv, NEW h \in Hosts, InitLock(h)
  PROVE  IInv'
  <1> USE DEF InitLock
  <1>1. pc[h] = "idle" /\ initMutex = None /\ inits[h] < MaxInits  OBVIOUS
  <1>2. \A P : "idle" \notin P => ~In(P)  BY <1>1, InIs
  <1>3. initCounter \in Nat /\ initCounter' = initCounter + 1  BY PhasesAre
  <1>4. UNCHANGED Lists  BY DEF Lists
  <1>5. CASE initCounter > 0
    <2> USE DEF Return
    <2>1. Goto(h, "idle") /\ initMutex' = None  BY <1>5
    <2>2. \A P : "idle" \notin P => ~In(P)'  BY <1>1, <2>1, InNext
    <2>3. /\ inits' \in [Hosts -> 0..MaxInits] /\ IsFiniteSet(Claims')
          /\ Cardinality(Claims') = Cardinality(Claims) + 1
      BY <1>1, <1>5, ClaimsMore DEF IInv, Counted
    <2>4. TypeOK'
      <3>0. result' = [result EXCEPT ![h] = TRUE] /\ initMutex' = None  BY <1>5
      <3>1. result' \in [Hosts -> BOOLEAN] /\ initMutex' \in Hosts \cup {None} /\ initCounter' \in Nat
        <4>1. result' \in [Hosts -> BOOLEAN]  BY <3>0 DEF IInv, TypeOK
        <4> QED BY <1>3, <3>0, <4>1
      <3>2. pc' \in [Hosts -> {"idle", "global", "scan", "collect", "clear", "globalDeinit"}]
        BY <2>1, PcType
      <3> QED BY <2>3, <3>1, <3>2 DEF IInv, TypeOK
    <2>5. Counted'
      <3>1. initCounter = Cardinality(Claims) + One(In({"global", "scan", "collect"})) + One(initFailed)
        BY DEF IInv, Counted
      <3>2. Cardinality(Claims) \in Nat  BY ClaimsCount
      <3> QED BY <1>2, <1>3, <2>2, <2>3, <3>1, <3>2 DEF Counted, One
    <2>6. MutexHeld'  BY <1>1, <2>1, MutexNext
    <2>7. Phases'  BY <1>2, <1>3, <1>5, <2>2 DEF IInv, Phases
    <2>8. ListsInOrder'  BY <1>2, <1>4, <2>2, ListsKept
    <2>9. DeinitClosesAll'  BY <1>3 DEF IInv, DeinitClosesAll
    <2> QED BY <2>4, <2>5, <2>6, <2>7, <2>8, <2>9, IInvNext
  <1>6. CASE ~(initCounter > 0)
    <2>1. Goto(h, "global") /\ initMutex' = h /\ UNCHANGED <<result, inits>>  BY <1>6
    <2>2. initCounter = 0 /\ initCounter' = 1  BY <1>3, <1>6
    <2>3. \A P : "idle" \notin P => (In(P)' <=> "global" \in P)  BY <1>1, <2>1, InNext
    <2>4. TypeOK'  BY <2>1, <2>2, PcType DEF IInv, TypeOK
    <2>5. Counted'
      <3>1. Claims' = Claims  BY <2>1 DEF Claims
      <3>2. initCounter = Cardinality(Claims) + One(In({"global", "scan", "collect"})) + One(initFailed)
        BY DEF IInv, Counted
      <3>3. Cardinality(Claims) \in Nat /\ IsFiniteSet(Claims)  BY ClaimsCount DEF IInv, Counted
      <3>4. Cardinality(Claims) = 0 /\ ~initFailed  BY <1>2, <2>2, <3>2, <3>3 DEF One
      <3>5. MaxInits > 0
        <4>1. inits[h] \in Nat  BY BoundsAssumption DEF IInv, TypeOK
        <4> QED BY <1>1, <4>1, BoundsAssumption
      <3> QED BY <2>2, <2>3, <3>1, <3>3, <3>4, <3>5 DEF Counted, One
    <2>6. MutexHeld'  BY <1>1, <2>1, MutexNext
    <2>7. wclapList = <<>> /\ pluginList = <<>> /\ ~globalInit /\ active = {}
      BY <1>1, <2>2 DEF IInv, Phases, DeinitClosesAll
    <2>8. Phases'  BY <1>1, <2>2, <2>3, <2>7 DEF IInv, Phases
    <2>9. ListsInOrder'  BY <1>2, <1>4, <2>3, ListsKept
    <2>10. DeinitClosesAll'  BY <2>2 DEF IInv, DeinitClosesAll
    <2> QED BY <2>4, <2>5, <2>6, <2>8, <2>9, <2>10, IInvNext
  <1> QED BY <1>5, <1>6

\* Returning from a scan that is over, or from one that never began.
LEMMA GlobalInitIInv ==
  ASSUME IInv, NEW h \in Hosts, GlobalInit(h)
  PROVE  IInv'
  <1> USE DEF GlobalInit
  <1>1. pc[h] = "global"  OBVIOUS
  <1>2. \A P : "idle" \notin P => (In(P) <=> "global" \in P)  BY <1>1, InIs
  <1>3. initCounter = 1 /\ MaxInits > 0 /\ ~initFailed /\ Cardinality(Claims) = 0 /\ initCounter' = 1
    BY <1>2, PhasesAre
  <1>4. wclapList = <<>> /\ pluginList = <<>>  BY <1>2 DEF IInv, Phases
  <1>5. CASE /\ globalInit' = TRUE /\ cursor' = Start
             /\ Goto(h, "scan") /\ UNCHANGED <<initMutex, result, inits, initFailed>>
    <2>1. \A P : "idle" \notin P => (In(P)' <=> "scan" \in P)  BY <1>1, <1>5, InNext
    <2>2. TypeOK'
      <3>1. Start \in [wclap : 1..NumFiles+1, item : 1..MaxPlugins+1]
        BY BoundsAssumption DEF Start
      <3> QED BY <1>5, <3>1, PcType DEF IInv, TypeOK
    <2>3. Counted'
      <3>1. Claims' = Claims  BY <1>5 DEF Claims
      <3> QED BY <1>2, <1>3, <1>5, <2>1, <3>1 DEF IInv, Counted, One
    <2>4. MutexHeld'
      <3>1. initMutex' = h  BY <1>1, <1>5 DEF IInv, MutexHeld
      <3> QED BY <1>1, <1>5, <3>1, MutexNext
    <2>5. Phases'
      <3>1. Len(wclapList') < cursor'.wclap  BY <1>4, <1>5 DEF Start
      <3> QED BY <1>3, <1>4, <1>5, <2>1, <3>1 DEF IInv, Phases
    <2>6. ListsInOrder'  BY <1>4, EmptyLists DEF ListsInOrder, IdsUnique, EntriesRouteToOwner, NewestListedOnce
    <2>7. DeinitClosesAll'  BY <1>3 DEF IInv, DeinitClosesAll
    <2> QED BY <2>2, <2>3, <2>4, <2>5, <2>6, <2>7, IInvNext
  <1>6. CASE Return(h, FALSE) /\ initFailed' = TRUE /\ UNCHANGED <<globalInit, cursor>>
    <2> USE DEF Return
    <2>1. Goto(h, "idle") /\ initMutex' = None /\ inits' = inits  BY <1>6 DEF IInv, TypeOK
    <2>2. \A P : "idle" \notin P => ~In(P)'  BY <1>1, <2>1, InNext
    <2>3. TypeOK'  BY <1>6, <2>1, PcType DEF IInv, TypeOK
    <2>4. Counted'
      <3>1. Claims' = Claims  BY <2>1 DEF Claims
      <3> QED BY <1>3, <1>6, <2>2, <3>1 DEF IInv, Counted, One
    <2>5. MutexHeld'  BY <1>1, <2>1, MutexNext
    <2>6. Phases'  BY <1>3, <1>4, <1>6, <2>2 DEF IInv, Phases
    <2>7. ListsInOrder'  BY <1>4, EmptyLists DEF ListsInOrder, IdsUnique, EntriesRouteToOwner, NewestListedOnce
    <2>8. DeinitClosesAll'  BY <1>3 DEF IInv, DeinitClosesAll
    <2> QED BY <2>3, <2>4, <2>5, <2>6, <2>7, <2>8, IInvNext
  <1> QED BY <1>5, <1>6

\* A scan or a collection that throws stops everything.
LEMMA ThrowsIInv ==
  ASSUME IInv, NEW h \in Hosts, ScanThrows(h) \/ CollectThrows(h)
  PROVE  IInv'
  <1>1. /\ fault' = "exception"
        /\ UNCHANGED <<disk, hostVars, initMutex, initCounter, globalInit, initFailed, active,
                       wclapList, pluginList, cursor>>
    BY DEF ScanThrows, CollectThrows
  <1>2. \A P : In(P)' <=> In(P)  BY <1>1 DEF hostVars, In
  <1>3. TypeOK'  BY <1>1 DEF hostVars, IInv, TypeOK
  <1>4. Counted'
    <2>1. Claims' = Claims  BY <1>1 DEF hostVars, Claims
    <2> QED BY <1>1, <1>2, <2>1 DEF IInv, Counted, One
  <1>5. MutexHeld'  BY <1>1 DEF hostVars, IInv, MutexHeld
  <1>6. Phases'  BY <1>1, <1>2 DEF IInv, Phases
  <1>7. ListsInOrder'  BY <1>1, <1>2, ListsKept DEF Lists
  <1>8. DeinitClosesAll'  BY <1>1 DEF IInv, DeinitClosesAll
  <1> QED BY <1>3, <1>4, <1>5, <1>6, <1>7, <1>8, IInvNext

\* A step of the scan that stays in its phase and keeps the counts.
LEMMA SamePhase ==
  ASSUME IInv, UNCHANGED <<hostVars, initMutex, initCounter, initFailed>>
  PROVE  Counted' /\ MutexHeld' /\ \A P : In(P)' <=> In(P)
  <1>1. \A P : In(P)' <=> In(P)  BY DEF hostVars, In
  <1>2. Claims' = Claims  BY DEF hostVars, Claims
  <1>3. Counted'  BY <1>1, <1>2 DEF IInv, Counted, One
  <1>4. MutexHeld'  BY DEF hostVars, IInv, MutexHeld
  <1> QED BY <1>1, <1>3, <1>4

LEMMA OpenedAlso ==
  ASSUME NEW f \in Files, NEW s \in Seq(Files)
  PROVE  ToSet(Append(s, f)) = ToSet(s) \cup {f}
  <1> DEFINE t == Append(s, f)
  <1>1. /\ t \in Seq(Files) /\ Len(t) = Len(s) + 1 /\ Len(s) \in Nat
        /\ \A i \in 1..Len(s) + 1 : t[i] = IF i = Len(s) + 1 THEN f ELSE s[i]
    OBVIOUS
  <1>2. DOMAIN t = 1..Len(s) + 1 /\ DOMAIN s = 1..Len(s)  BY <1>1
  <1> HIDE DEF t
  <1>3. ToSet(t) = {t[i] : i \in 1..Len(s) + 1}  BY <1>2 DEF ToSet
  <1>4. ToSet(s) = {s[i] : i \in 1..Len(s)}  BY <1>2 DEF ToSet
  <1>5. t[Len(s) + 1] = f /\ \A i \in 1..Len(s) : t[i] = s[i]  BY <1>1
  <1>6. 1..Len(s) + 1 = (1..Len(s)) \cup {Len(s) + 1}  BY <1>1
  <1> QED BY <1>3, <1>4, <1>5, <1>6 DEF t

LEMMA ScanOpenIInv ==
  ASSUME IInv, NEW h \in Hosts, ScanOpen(h)
  PROVE  IInv'
  <1> USE DEF ScanOpen
  <1> DEFINE f == cursor.wclap
             opened == disk[f].open \in {"noFactory", "factory"}
  <1>1. pc[h] = "scan" /\ f \in Files
    BY BoundsAssumption DEF IInv, TypeOK, Files
  <1>2. \A P : "idle" \notin P => (In(P) <=> "scan" \in P)  BY <1>1, InIs
  <1>3. Counted' /\ MutexHeld' /\ \A P : In(P)' <=> In(P)  BY SamePhase
  <1>4. pluginList = <<>> /\ pluginList' = <<>> /\ Len(wclapList) < f /\ active = ToSet(wclapList)
    BY <1>2 DEF IInv, Phases
  <1>5. wclapList \in Seq(Files) /\ Len(wclapList) \in Nat  BY DEF IInv, TypeOK
  <1>6. /\ wclapList' \in Seq(Files) /\ Len(wclapList') <= Len(wclapList) + 1
        /\ active' = ToSet(wclapList') /\ Len(wclapList') \in Nat
    <2>1. CASE opened  BY <1>1, <1>4, <1>5, <2>1, OpenedAlso
    <2>2. CASE ~opened  BY <1>4, <1>5, <2>2
    <2> QED BY <2>1, <2>2
  <1>7. cursor' = [cursor EXCEPT !.wclap = f + 1] /\ cursor'.wclap = f + 1 /\ cursor'.item = cursor.item
    BY DEF IInv, TypeOK
  <1>8. Len(wclapList') <= NumFiles /\ Len(wclapList') < cursor'.wclap
    <2>1. f \in 1..NumFiles  BY <1>1 DEF Files
    <2> QED BY <1>4, <1>5, <1>6, <1>7, <2>1, BoundsAssumption
  <1>9. TypeOK'
    <2>1. f + 1 \in 1..NumFiles+1  BY <1>1, BoundsAssumption DEF Files
    <2>2. cursor' \in [wclap : 1..NumFiles+1, item : 1..MaxPlugins+1]
      BY <1>7, <2>1 DEF IInv, TypeOK
    <2>3. active' \subseteq Files  BY <1>1 DEF IInv, TypeOK
    <2>4. fault' \in {"none", "nullHandle", "exception", "abort"}  BY DEF IInv, TypeOK
    <2>5. /\ disk' = disk /\ pc' = pc /\ result' = result /\ inits' = inits
          /\ initMutex' = initMutex /\ initCounter' = initCounter /\ pluginList' = pluginList
          /\ globalInit' = globalInit /\ initFailed' = initFailed
      BY DEF hostVars
    <2> QED BY <1>6, <2>2, <2>3, <2>4, <2>5 DEF IInv, TypeOK
  <1>10. initCounter = 1 /\ initCounter' = 1  BY <1>2, PhasesAre
  <1>11. Phases'
    <2>1. initMutex' # None  BY <1>1, HostsAssumption DEF IInv, MutexHeld
    <2>2. ~In({"global", "globalDeinit"})' /\ (~In({"global"})' => ~In({"global"}))
      BY <1>2, <1>3
    <2>3. initFailed' = initFailed /\ globalInit' = globalInit  OBVIOUS
    <2>4. initCounter' > 0 /\ ~initFailed' /\ ~In({"global"})' => globalInit'
      BY <1>10, <2>2, <2>3 DEF IInv, Phases
    <2> QED BY <1>4, <1>6, <1>8, <1>10, <2>1, <2>2, <2>4 DEF Phases
  <1>12. ListsInOrder'
    <2>1. In({"global", "scan"})'  BY <1>2, <1>3
    <2> QED BY <1>4, <2>1 DEF ListsInOrder, IdsUnique, EntriesRouteToOwner, NewestListedOnce
  <1>13. DeinitClosesAll'  BY <1>10 DEF IInv, DeinitClosesAll
  <1> QED BY <1>3, <1>9, <1>11, <1>12, <1>13, IInvNext

LEMMA ScanEndsIInv ==
  ASSUME IInv, NEW h \in Hosts, ScanEnds(h)
  PROVE  IInv'
  <1> USE DEF ScanEnds
  <1>1. pc[h] = "scan"  OBVIOUS
  <1>2. \A P : "idle" \notin P => (In(P) <=> "scan" \in P)  BY <1>1, InIs
  <1>3. \A P : "idle" \notin P => (In(P)' <=> "collect" \in P)  BY <1>1, InNext
  <1>4. initCounter = 1 /\ MaxInits > 0 /\ ~initFailed  BY <1>2, PhasesAre
  <1>5. pluginList = <<>>  BY <1>2 DEF IInv, Phases
  <1>6. TypeOK'
    <2>1. Start \in [wclap : 1..NumFiles+1, item : 1..MaxPlugins+1]  BY BoundsAssumption DEF Start
    <2> QED BY <2>1, PcType DEF IInv, TypeOK
  <1>7. Counted'
    <2>1. Claims' = Claims  BY DEF Claims
    <2> QED BY <1>2, <1>3, <1>4, <2>1 DEF IInv, Counted, One
  <1>8. initMutex = h /\ initMutex' = h /\ h # None  BY <1>1, HostsAssumption DEF IInv, MutexHeld
  <1>9. MutexHeld'  BY <1>1, <1>8, MutexNext
  <1>10. Phases'  BY <1>2, <1>3, <1>4, <1>8 DEF IInv, Phases
  <1>11. ListsInOrder'
    <2>1. IdsUnique' /\ EntriesRouteToOwner'  BY <1>5 DEF IdsUnique, EntriesRouteToOwner
    <2>2. \A w \in 1..Len(wclapList'), k \in Nat : ~(k < 1) => ~Seen(w, k)'
      <3>1. cursor'.wclap = 1 /\ cursor'.item = 1  BY DEF Start
      <3>2. In({"collect"})'  BY <1>3
      <3>3. Len(wclapList') \in Nat  BY DEF IInv, TypeOK
      <3> QED BY <3>1, <3>2, <3>3 DEF Seen
    <2>3. \A w \in 1..Len(wclapList') : Len(disk'[wclapList'[w]].descriptors) \in Nat
      <3> TAKE w \in 1..Len(wclapList')
      <3>1. wclapList'[w] \in Files  BY DEF IInv, TypeOK
      <3> QED BY <3>1, DiskIs, BoundsAssumption DEF IInv
    <2>4. Covered'  BY <2>2, <2>3 DEF Covered
    <2> QED BY <2>1, <2>4, CoveredNext DEF ListsInOrder
  <1>12. DeinitClosesAll'  BY <1>4 DEF IInv, DeinitClosesAll
  <1> QED BY <1>6, <1>7, <1>9, <1>10, <1>11, <1>12, IInvNext

\* The first descriptor with its ID is added.
LEMMA CollectNewIInv ==
  ASSUME IInv, NEW h \in Hosts, CollectNew(h)
  PROVE  IInv'
  <1> USE DEF CollectNew
  <1> DEFINE n == Len(pluginList)
             c == Current
  <1>1. pc[h] = "collect" /\ AtDescriptor /\ SameId(Current) = {}  OBVIOUS
  <1>2. \A P : "idle" \notin P => (In(P) <=> "collect" \in P)  BY <1>1, InIs
  <1>3. Counted' /\ MutexHeld' /\ \A P : In(P)' <=> In(P)  BY SamePhase
  <1>4. TypeOK /\ Phases  BY DEF IInv
  <1>5. /\ c \in Entry /\ c.item <= Len(disk[c.file].descriptors)
        /\ Desc(c) \in Descriptors /\ Desc(c).version \in Nat
        /\ c.wclapIndex \in 1..Len(wclapList) /\ c.file = wclapList[cursor.wclap]
        /\ c.file \in Files /\ c.wclapIndex = cursor.wclap /\ c.item = cursor.item
        /\ c.item \in 1..MaxPlugins /\ cursor.wclap \in 1..NumFiles
    BY <1>1, <1>4, CurrentIs
  <1>6. pluginList \in Seq(Entry) /\ n \in Nat  BY DEF IInv, TypeOK
  <1> HIDE DEF c
  <1>7. /\ pluginList' \in Seq(Entry) /\ Len(pluginList') = n + 1
        /\ \A i \in 1..n : pluginList'[i] = pluginList[i]
        /\ pluginList'[n + 1] = c
    BY <1>5, <1>6 DEF c
  <1>8. \A p : Desc(p)' = Desc(p)  BY DEF Desc
  <1>9. cursor' = [cursor EXCEPT !.item = cursor.item + 1]
        /\ cursor'.wclap = cursor.wclap /\ cursor'.item = cursor.item + 1
    BY DEF IInv, TypeOK
  <1>10. TypeOK'
    <2>1. cursor.item + 1 \in 1..MaxPlugins+1  BY <1>5, BoundsAssumption
    <2>2. cursor' \in [wclap : 1..NumFiles+1, item : 1..MaxPlugins+1]
      BY <1>9, <2>1 DEF IInv, TypeOK
    <2>3. \A i \in 1..Len(pluginList') : pluginList'[i].item <= Len(disk'[pluginList'[i].file].descriptors)
      <3>1. ASSUME NEW i \in 1..n
            PROVE  pluginList[i].item <= Len(disk[pluginList[i].file].descriptors)
        BY DEF IInv, TypeOK
      <3>2. c.item <= Len(disk[c.file].descriptors)  BY <1>5
      <3>3. disk' = disk  OBVIOUS
      <3> QED BY ONLY <1>6, <1>7, <3>1, <3>2, <3>3
    <2>4. /\ disk' = disk /\ pc' = pc /\ result' = result /\ inits' = inits
          /\ initMutex' = initMutex /\ initCounter' = initCounter
          /\ globalInit' = globalInit /\ initFailed' = initFailed
          /\ active' = active /\ wclapList' = wclapList /\ fault' = fault
      BY DEF hostVars
    <2>5. TypeOK  BY DEF IInv
    <2>6. pluginList' \in Seq(Entry)  BY <1>7
    <2>7. (/\ disk \in [Files -> Contents] /\ pluginList \in Seq(Entry)
           /\ \A i \in 1..Len(pluginList) : pluginList[i].item <= Len(disk[pluginList[i].file].descriptors)
           /\ cursor \in [wclap : 1..NumFiles+1, item : 1..MaxPlugins+1])'
      BY ONLY <2>2, <2>3, <2>4, <2>5, <2>6 DEF TypeOK
    <2> QED BY ONLY <2>4, <2>5, <2>7 DEF TypeOK
  <1>11. initCounter = 1 /\ initCounter' = 1 /\ initMutex' # None
    BY <1>1, <1>2, PhasesAre, HostsAssumption DEF IInv, MutexHeld
  <1>12. Phases'  BY <1>2, <1>3, <1>11 DEF IInv, Phases
  <1>13. EntriesRouteToOwner'
    <2> SUFFICES ASSUME NEW i \in 1..Len(pluginList')
                 PROVE  LET p == pluginList'[i] IN
                          /\ p.wclapIndex \in 1..Len(wclapList')
                          /\ wclapList'[p.wclapIndex] = p.file /\ p.file \in active'
      BY DEF EntriesRouteToOwner
    <2>1. CASE i \in 1..n  BY <1>7, <2>1 DEF IInv, EntriesRouteToOwner
    <2>2. CASE i = n + 1
      <3>1. c.file \in active
        <4>1. active = ToSet(wclapList) /\ wclapList \in Seq(Files)  BY DEF IInv, Phases, TypeOK
        <4> QED BY <1>5, <4>1 DEF ToSet
      <3> QED BY <1>5, <1>7, <2>2, <3>1
    <2> QED BY <1>6, <1>7, <2>1, <2>2
  <1>14. \A i \in 1..n : Desc(pluginList[i]).id # Desc(c).id
    BY <1>1 DEF SameId, c
  <1>15. IdsUnique'
    <2> SUFFICES ASSUME NEW i \in 1..Len(pluginList'), NEW j \in 1..Len(pluginList'),
                        Desc(pluginList'[i]).id = Desc(pluginList'[j]).id
                 PROVE  i = j
      BY <1>8 DEF IdsUnique
    <2> QED BY <1>6, <1>7, <1>14 DEF IInv, IdsUnique
  <1>16. Covered
    <2>1. \A P : "idle" \notin P => (In(P) <=> "collect" \in P)  BY <1>2
    <2>2. ~In({"global", "scan"})  BY ONLY <2>1
    <2>3. NewestListedOnce  BY DEF IInv
    <2> QED BY ONLY <2>2, <2>3, CoveredIs
  <1>17. Covered'
    <2> SUFFICES ASSUME NEW w \in 1..Len(wclapList), NEW k \in 1..Len(disk[wclapList[w]].descriptors),
                        Seen(w, k)'
                 PROVE  HasEntry(disk[wclapList[w]].descriptors[k])'
      BY DEF Covered, HasEntry
    <2> DEFINE d == disk[wclapList[w]].descriptors[k]
    <2>1. k \in Nat /\ w \in Nat /\ cursor.wclap \in Nat /\ cursor.item \in Nat
      <3>1. wclapList[w] \in Files /\ w \in Nat  BY DEF IInv, TypeOK
      <3>2. Len(disk[wclapList[w]].descriptors) \in Nat  BY <3>1, DiskIs, BoundsAssumption DEF IInv
      <3>3. wclapList \in Seq(Files) /\ Len(wclapList) \in Nat  BY DEF IInv, TypeOK
      <3>4. cursor \in [wclap : 1..NumFiles+1, item : 1..MaxPlugins+1]  BY DEF IInv, TypeOK
      <3> QED BY ONLY <3>2, <3>3, <3>4, BoundsAssumption
    <2>2. Seen(w, k) \/ (w = cursor.wclap /\ k = cursor.item)
      BY <1>2, <1>3, <1>9, <2>1 DEF Seen
    <2>5. disk' = disk /\ wclapList' = wclapList  OBVIOUS
    <2>3. CASE Seen(w, k)
      <3>2. PICK i \in 1..n : Desc(pluginList[i]).id = d.id /\ Desc(pluginList[i]).version >= d.version
        BY <1>16, <2>3 DEF Covered, HasEntry
      <3>3. i \in 1..Len(pluginList') /\ Desc(pluginList[i])' = Desc(pluginList[i])
        BY <1>6, <1>7, <1>8
      <3>4. (disk[wclapList[w]].descriptors[k])' = d  BY ONLY <2>5
      <3> QED BY ONLY <3>2, <3>3, <3>4 DEF HasEntry
    <2>4. CASE w = cursor.wclap /\ k = cursor.item
      <3>1. d = Desc(c)  BY <1>5, <2>4 DEF Desc
      <3>2. PICK m \in Nat : m = n + 1  BY <1>6
      <3>3. m \in 1..Len(pluginList') /\ Desc(pluginList[m])' = Desc(c)
        BY <1>6, <1>7, <1>8, <3>2
      <3>4. Desc(c).version >= d.version  BY <1>5, <3>1
      <3> QED BY <3>1, <3>3, <3>4 DEF HasEntry
    <2> QED BY <2>2, <2>3, <2>4
  <1>18. NewestListedOnce'  BY <1>15, <1>17, CoveredNext
  <1>19. DeinitClosesAll'  BY <1>11 DEF IInv, DeinitClosesAll
  <1> QED BY <1>3, <1>10, <1>12, <1>13, <1>15, <1>18, <1>19, IInvNext DEF ListsInOrder

\* clap_init returns true after its scan: the counted scan becomes a claim.
LEMMA ScanDone ==
  ASSUME IInv, NEW h \in Hosts, pc[h] = "collect", Return(h, TRUE),
         UNCHANGED <<initCounter, globalInit, initFailed, active, wclapList, cursor, fault>>
  PROVE  /\ Counted' /\ MutexHeld' /\ Phases' /\ DeinitClosesAll'
         /\ \A P : "idle" \notin P => (In(P) <=> "collect" \in P) /\ ~In(P)'
         /\ pc' \in [Hosts -> {"idle", "global", "scan", "collect", "clear", "globalDeinit"}]
         /\ result' \in [Hosts -> BOOLEAN] /\ inits' \in [Hosts -> 0..MaxInits]
         /\ initMutex' = None
  <1> USE DEF Return
  <1>1. Goto(h, "idle") /\ initMutex' = None /\ inits' = [inits EXCEPT ![h] = @ + 1]
    OBVIOUS
  <1>2. \A P : "idle" \notin P => (In(P) <=> "collect" \in P)  BY InIs
  <1>3. \A P : "idle" \notin P => ~In(P)'  BY <1>1, InNext
  <1>4. /\ initCounter = 1 /\ MaxInits > 0 /\ ~initFailed /\ Cardinality(Claims) = 0
    BY <1>2, PhasesAre
  <1>5. inits[h] = 0  BY <1>4, ClaimsCount
  <1>6. /\ inits' \in [Hosts -> 0..MaxInits] /\ IsFiniteSet(Claims')
        /\ Cardinality(Claims') = Cardinality(Claims) + 1
    BY <1>1, <1>4, <1>5, ClaimsMore DEF IInv, Counted
  <1>7. Counted'  BY <1>3, <1>4, <1>6 DEF Counted, One
  <1>8. MutexHeld'  BY <1>1, MutexNext
  <1>9. Phases'
    <2>1. globalInit /\ active = ToSet(wclapList) /\ Len(wclapList) <= NumFiles
      BY <1>2, <1>4 DEF IInv, Phases
    <2> QED BY <1>3, <1>4, <2>1 DEF Phases
  <1>10. DeinitClosesAll'  BY <1>4 DEF IInv, DeinitClosesAll
  <1>11. pc' \in [Hosts -> {"idle", "global", "scan", "collect", "clear", "globalDeinit"}]
    BY <1>1, PcType
  <1>12. result' \in [Hosts -> BOOLEAN]
    <2>1. result' = [result EXCEPT ![h] = TRUE]  OBVIOUS
    <2> QED BY <2>1 DEF IInv, TypeOK
  <1> QED BY <1>1, <1>2, <1>3, <1>6, <1>7, <1>8, <1>9, <1>10, <1>11, <1>12

\* A duplicate takes the place of the entry it is newer than, or is dropped.
LEMMA CollectDuplicateIInv ==
  ASSUME IInv, NEW h \in Hosts, CollectDuplicate(h)
  PROVE  IInv'
  <1> USE DEF CollectDuplicate
  <1> DEFINE n == Len(pluginList)
             c == Current
  <1>1. pc[h] = "collect" /\ AtDescriptor /\ Return(h, TRUE)  OBVIOUS
  <1>2. /\ Counted' /\ MutexHeld' /\ Phases' /\ DeinitClosesAll'
        /\ \A P : "idle" \notin P => (In(P) <=> "collect" \in P) /\ ~In(P)'
        /\ pc' \in [Hosts -> {"idle", "global", "scan", "collect", "clear", "globalDeinit"}]
        /\ result' \in [Hosts -> BOOLEAN] /\ inits' \in [Hosts -> 0..MaxInits]
        /\ initMutex' = None
    BY <1>1, ScanDone
  <1>3. TypeOK /\ Phases  BY DEF IInv
  <1>4. /\ c \in Entry /\ c.item <= Len(disk[c.file].descriptors)
        /\ Desc(c) \in Descriptors /\ Desc(c).version \in Nat
        /\ c.wclapIndex \in 1..Len(wclapList) /\ c.file = wclapList[cursor.wclap]
        /\ c.file \in Files /\ c.wclapIndex = cursor.wclap /\ c.item = cursor.item
        /\ c.item \in 1..MaxPlugins /\ cursor.wclap \in 1..NumFiles
    BY <1>1, <1>3, CurrentIs
  <1>5. PICK q \in SameId(c) :
          pluginList' = IF Newer(Desc(c), Desc(pluginList[q])) THEN Replace(q, c) ELSE pluginList
    OBVIOUS
  <1>6. pluginList \in Seq(Entry) /\ n \in Nat /\ q \in 1..n /\ Desc(pluginList[q]).id = Desc(c).id
    BY <1>5 DEF IInv, TypeOK, SameId
  <1> HIDE DEF c
  <1>7. \A p : Desc(p)' = Desc(p)  BY DEF Desc
  <1>8. /\ pluginList' \in Seq(Entry) /\ Len(pluginList') = n
        /\ \A i \in 1..n : i # q => pluginList'[i] = pluginList[i]
        /\ \/ pluginList'[q] = c /\ Newer(Desc(c), Desc(pluginList[q]))
           \/ pluginList'[q] = pluginList[q] /\ ~Newer(Desc(c), Desc(pluginList[q]))
    <2>1. CASE Newer(Desc(c), Desc(pluginList[q]))
      <3>1. pluginList' = [pluginList EXCEPT ![q] = c]  BY <1>5, <2>1 DEF Replace
      <3>2. pluginList' \in Seq(Entry) /\ Len(pluginList') = n
        BY ONLY <1>4, <1>6, <3>1
      <3>3. \A i \in 1..n : pluginList'[i] = IF i = q THEN c ELSE pluginList[i]
        BY ONLY <1>4, <1>6, <3>1
      <3> QED BY <1>6, <2>1, <3>2, <3>3
    <2>2. CASE ~Newer(Desc(c), Desc(pluginList[q]))  BY <1>5, <1>6, <2>2
    <2> QED BY <2>1, <2>2
  <1>9. TypeOK'
    <2>1. \A i \in 1..Len(pluginList') : pluginList'[i].item <= Len(disk'[pluginList'[i].file].descriptors)
      BY <1>4, <1>6, <1>8 DEF IInv, TypeOK
    <2> QED BY <1>2, <1>8, <2>1 DEF IInv, TypeOK
  <1>10. EntriesRouteToOwner'
    <2> SUFFICES ASSUME NEW i \in 1..Len(pluginList')
                 PROVE  LET p == pluginList'[i] IN
                          /\ p.wclapIndex \in 1..Len(wclapList')
                          /\ wclapList'[p.wclapIndex] = p.file /\ p.file \in active'
      BY DEF EntriesRouteToOwner
    <2>1. CASE pluginList'[i] = pluginList[i]
      BY <1>8, <2>1 DEF IInv, EntriesRouteToOwner
    <2>2. CASE pluginList'[i] = c
      <3>1. c.file \in active
        <4>1. active = ToSet(wclapList) /\ wclapList \in Seq(Files)  BY DEF IInv, Phases, TypeOK
        <4> QED BY <1>4, <4>1 DEF ToSet
      <3> QED BY <1>4, <2>2, <3>1
    <2> QED BY <1>6, <1>8, <2>1, <2>2
  <1>11. \A i \in 1..n : Desc(pluginList'[i]).id = Desc(pluginList[i]).id
    BY <1>6, <1>8
  <1>12. IdsUnique'
    <2> SUFFICES ASSUME NEW i \in 1..Len(pluginList'), NEW j \in 1..Len(pluginList'),
                        Desc(pluginList'[i]).id = Desc(pluginList'[j]).id
                 PROVE  i = j
      BY <1>7 DEF IdsUnique
    <2> QED BY <1>8, <1>11 DEF IInv, IdsUnique
  <1>13. Desc(pluginList[q]).version \in Nat  BY <1>3, <1>6, ListedIs
  <1>14. /\ Desc(pluginList'[q]).version >= Desc(pluginList[q]).version
         /\ Desc(pluginList'[q]).version >= Desc(c).version
    BY <1>4, <1>8, <1>13 DEF Newer
  <1>15. Desc(pluginList'[q]).version \in Nat  BY <1>4, <1>8, <1>13
  <1>16. Covered
    <2>1. \A P : "idle" \notin P => (In(P) <=> "collect" \in P)  BY <1>2
    <2>2. ~In({"global", "scan"})  BY ONLY <2>1
    <2>3. NewestListedOnce  BY DEF IInv
    <2> QED BY ONLY <2>2, <2>3, CoveredIs
  <1>17. Covered'
    <2> SUFFICES ASSUME NEW w \in 1..Len(wclapList), NEW k \in 1..Len(disk[wclapList[w]].descriptors),
                        Seen(w, k)'
                 PROVE  HasEntry(disk[wclapList[w]].descriptors[k])'
      BY DEF Covered, HasEntry
    <2> DEFINE d == disk[wclapList[w]].descriptors[k]
    <2>1. d.version \in Nat
      <3>1. wclapList[w] \in Files  BY DEF IInv, TypeOK
      <3>2. disk[wclapList[w]].descriptors \in Seq(Descriptors)  BY <1>3, <3>1, DiskIs
      <3>3. d \in Descriptors  BY <3>2
      <3> QED BY <3>3, VersionsAssumption DEF Descriptors
    <2>2. Seen(w, k) \/ (w = cursor.wclap /\ k = cursor.item)
      BY DEF Seen
    <2>3. CASE Seen(w, k)
      <3>2. PICK i \in 1..n : Desc(pluginList[i]).id = d.id /\ Desc(pluginList[i]).version >= d.version
        BY <1>16, <2>3 DEF Covered, HasEntry
      <3>3. Desc(pluginList'[i]).id = d.id  BY <1>11, <3>2
      <3>4. Desc(pluginList'[i]).version >= d.version
        <4>1. CASE i = q  BY ONLY <1>13, <1>14, <1>15, <2>1, <3>2, <4>1
        <4>2. CASE i # q  BY <1>8, <3>2, <4>2
        <4> QED BY <4>1, <4>2
      <3>5. Desc(pluginList[i])' = Desc(pluginList'[i])  BY <1>7
      <3> QED BY <1>8, <3>3, <3>4, <3>5 DEF HasEntry
    <2>4. CASE w = cursor.wclap /\ k = cursor.item
      <3>1. d = Desc(c)  BY <1>4, <2>4 DEF Desc
      <3>2. Desc(pluginList[q])' = Desc(pluginList'[q])  BY <1>7
      <3>3. Desc(pluginList'[q]).id = d.id  BY <1>6, <1>11, <3>1
      <3> QED BY <1>6, <1>8, <1>14, <3>1, <3>2, <3>3 DEF HasEntry
    <2> QED BY <2>2, <2>3, <2>4
  <1>18. NewestListedOnce'  BY <1>12, <1>17, CoveredNext
  <1> QED BY <1>2, <1>9, <1>10, <1>12, <1>18, IInvNext DEF ListsInOrder

LEMMA CollectNextIInv ==
  ASSUME IInv, NEW h \in Hosts, CollectNext(h)
  PROVE  IInv'
  <1> USE DEF CollectNext
  <1>1. pc[h] = "collect" /\ ~AtDescriptor  OBVIOUS
  <1>2. \A P : "idle" \notin P => (In(P) <=> "collect" \in P)  BY <1>1, InIs
  <1>3. IdsUnique' /\ EntriesRouteToOwner'
    BY DEF IInv, IdsUnique, Desc, EntriesRouteToOwner
  <1>4. Covered  BY <1>2, CoveredIs DEF IInv
  <1>5. wclapList \in Seq(Files) /\ Len(wclapList) \in Nat /\ Len(wclapList) <= NumFiles
    BY DEF IInv, TypeOK, Phases
  <1>6. /\ cursor \in [wclap : 1..NumFiles+1, item : 1..MaxPlugins+1]
        /\ cursor.wclap \in 1..NumFiles+1 /\ cursor.item \in 1..MaxPlugins+1
    BY DEF IInv, TypeOK
  <1>7. \A w \in 1..Len(wclapList) : \A k \in 1..Len(disk[wclapList[w]].descriptors) :
          k \in Nat /\ w \in Nat /\ (w = cursor.wclap => k < cursor.item)
    <2> TAKE w \in 1..Len(wclapList)
    <2>1. wclapList[w] \in Files  BY <1>5
    <2>2. Len(disk[wclapList[w]].descriptors) \in Nat  BY <2>1, DiskIs, BoundsAssumption DEF IInv
    <2>3. w = cursor.wclap => cursor.item > Len(disk[wclapList[w]].descriptors)
      BY <1>1, <1>5, <1>6, <2>2, BoundsAssumption DEF AtDescriptor
    <2> QED BY <1>5, <1>6, <2>2, <2>3, BoundsAssumption
  <1>8. CASE cursor.wclap <= Len(wclapList)
    <2>1. cursor' = [wclap |-> cursor.wclap + 1, item |-> 1] /\ UNCHANGED <<hostVars, initMutex>>
      BY <1>8
    <2>2. Counted' /\ MutexHeld' /\ \A P : In(P)' <=> In(P)  BY <2>1, SamePhase
    <2>3. cursor' \in [wclap : 1..NumFiles+1, item : 1..MaxPlugins+1]
      BY <1>5, <1>6, <1>8, <2>1, BoundsAssumption
    <2>4. TypeOK'  BY <2>1, <2>3 DEF IInv, TypeOK, hostVars
    <2>5. initCounter = 1 /\ initMutex # None
      BY <1>1, <1>2, PhasesAre, HostsAssumption DEF IInv, MutexHeld
    <2>6. Phases'  BY <1>2, <2>1, <2>2, <2>5 DEF IInv, Phases
    <2>7. Covered'
      <3>1. \A w \in 1..Len(wclapList) : \A k \in 1..Len(disk[wclapList[w]].descriptors) :
              Seen(w, k)' => Seen(w, k)
        BY <1>2, <1>6, <1>7, <2>1, <2>2 DEF Seen
      <3>2. \A d : HasEntry(d)' <=> HasEntry(d)  BY DEF HasEntry, Desc
      <3> QED BY <1>4, <3>1, <3>2 DEF Covered
    <2>8. NewestListedOnce'  BY <1>3, <2>7, CoveredNext
    <2>9. DeinitClosesAll'  BY <2>5 DEF IInv, DeinitClosesAll
    <2> QED BY <1>3, <2>2, <2>4, <2>6, <2>8, <2>9, IInvNext DEF ListsInOrder
  <1>9. CASE ~(cursor.wclap <= Len(wclapList))
    <2>1. Return(h, TRUE) /\ UNCHANGED cursor  BY <1>9
    <2>2. /\ Counted' /\ MutexHeld' /\ Phases' /\ DeinitClosesAll'
          /\ \A P : "idle" \notin P => (In(P) <=> "collect" \in P) /\ ~In(P)'
          /\ pc' \in [Hosts -> {"idle", "global", "scan", "collect", "clear", "globalDeinit"}]
          /\ result' \in [Hosts -> BOOLEAN] /\ inits' \in [Hosts -> 0..MaxInits]
          /\ initMutex' = None
      BY <1>1, <2>1, ScanDone
    <2>3. TypeOK'  BY <2>1, <2>2 DEF IInv, TypeOK
    <2>4. Covered'
      <3>1. \A w \in 1..Len(wclapList) : \A k : Seen(w, k)
        <4>1. \A w \in 1..Len(wclapList) : w < cursor.wclap
          BY <1>5, <1>6, <1>9, BoundsAssumption
        <4> QED BY <4>1 DEF Seen
      <3>2. \A d : HasEntry(d)' <=> HasEntry(d)  BY DEF HasEntry, Desc
      <3> QED BY <1>4, <3>1, <3>2 DEF Covered
    <2>5. NewestListedOnce'  BY <1>3, <2>4, CoveredNext
    <2> QED BY <1>3, <2>2, <2>3, <2>5, IInvNext DEF ListsInOrder
  <1> QED BY <1>8, <1>9

LEMMA DeinitLockIInv ==
  ASSUME IInv, NEW h \in Hosts, DeinitLock(h)
  PROVE  IInv'
  <1> USE DEF DeinitLock
  <1>1. pc[h] = "idle" /\ initMutex = None /\ inits[h] > 0  OBVIOUS
  <1>2. \A P : "idle" \notin P => ~In(P)  BY <1>1, InIs
  <1>3. initCounter \in Nat /\ initCounter' = initCounter - 1  BY PhasesAre
  <1>4. UNCHANGED Lists  BY DEF Lists
  <1>5. /\ inits' \in [Hosts -> 0..MaxInits] /\ IsFiniteSet(Claims')
        /\ Cardinality(Claims') = Cardinality(Claims) - 1
    BY <1>1, ClaimsFewer DEF IInv, Counted
  <1>6. initCounter = Cardinality(Claims) + One(initFailed)
    <2>1. initCounter = Cardinality(Claims) + One(In({"global", "scan", "collect"})) + One(initFailed)
      BY DEF IInv, Counted
    <2>2. Cardinality(Claims) \in Nat  BY ClaimsCount
    <2> QED BY <1>2, <2>1, <2>2 DEF One
  <1>7. Cardinality(Claims) \in Nat /\ Cardinality(Claims) > 0  BY <1>1, ClaimsCount
  <1>8. initCounter' \in Nat /\ initCounter' = Cardinality(Claims') + One(initFailed)
    BY <1>3, <1>5, <1>6, <1>7 DEF One
  <1>9. CASE initCounter > 1
    <2>1. UNCHANGED <<pc, initMutex>>  BY <1>9
    <2>2. \A P : In(P)' <=> In(P)  BY <2>1 DEF In
    <2>3. TypeOK'  BY <1>5, <1>8, <2>1 DEF IInv, TypeOK
    <2>4. Counted'
      <3>1. ~In({"global", "scan", "collect"})' /\ ~In({"clear", "globalDeinit"})'
        BY <1>2, <2>2
      <3>2. Cardinality(Claims') \in Nat /\ initFailed' = initFailed  BY <1>5, <1>7
      <3> QED BY <1>5, <1>8, <3>1, <3>2 DEF Counted, One
    <2>5. MutexHeld'  BY <2>1 DEF IInv, MutexHeld
    <2>6. Phases'  BY <1>2, <1>3, <1>9, <2>1, <2>2 DEF IInv, Phases
    <2>7. ListsInOrder'  BY <1>2, <1>4, <2>2, ListsKept
    <2>8. DeinitClosesAll'  BY <1>3, <1>9 DEF IInv, DeinitClosesAll
    <2> QED BY <2>3, <2>4, <2>5, <2>6, <2>7, <2>8, IInvNext
  <1>10. CASE ~(initCounter > 1)
    <2>1. Goto(h, "clear") /\ initMutex' = h  BY <1>10
    <2>2. initCounter = 1 /\ initCounter' = 0 /\ ~initFailed  BY <1>3, <1>6, <1>7, <1>10 DEF One
    <2>3. \A P : "idle" \notin P => (In(P)' <=> "clear" \in P)  BY <1>1, <2>1, InNext
    <2>4. TypeOK'  BY <1>5, <1>8, <2>1, PcType DEF IInv, TypeOK
    <2>5. Counted'  BY <1>5, <1>8, <2>2, <2>3 DEF Counted, One
    <2>6. MutexHeld'  BY <1>1, <2>1, MutexNext
    <2>7. Phases'
      <3>1. initMutex' # None  BY <2>1, HostsAssumption
      <3> QED BY <1>2, <2>2, <2>3, <3>1 DEF IInv, Phases
    <2>8. ListsInOrder'  BY <1>2, <1>4, <2>3, ListsKept
    <2>9. DeinitClosesAll'  BY <2>1, HostsAssumption DEF IInv, DeinitClosesAll
    <2> QED BY <2>4, <2>5, <2>6, <2>7, <2>8, <2>9, IInvNext
  <1> QED BY <1>9, <1>10

LEMMA DeinitClearIInv ==
  ASSUME IInv, NEW h \in Hosts, DeinitClear(h)
  PROVE  IInv'
  <1> USE DEF DeinitClear
  <1>1. pc[h] = "clear" /\ Goto(h, "globalDeinit")  OBVIOUS
  <1>2. \A P : "idle" \notin P => (In(P) <=> "clear" \in P)  BY <1>1, InIs
  <1>3. \A P : "idle" \notin P => (In(P)' <=> "globalDeinit" \in P)  BY <1>1, InNext
  <1>4. initCounter = 0 /\ ~initFailed /\ active = ToSet(wclapList)  BY <1>2, PhasesAre
  <1>5. initMutex = h /\ initMutex' = h /\ h # None  BY <1>1, HostsAssumption DEF IInv, MutexHeld
  <1>6. wclapList' = <<>> /\ pluginList' = <<>> /\ active' = {}  BY <1>4
  <1>7. TypeOK'
    <2>1. wclapList' \in Seq(Files) /\ pluginList' \in Seq(Entry) /\ Len(pluginList') = 0  BY <1>6
    <2>2. active' \subseteq Files  BY <1>6
    <2> QED BY <1>1, <2>1, <2>2, PcType DEF IInv, TypeOK
  <1>8. Counted'
    <2>1. Claims' = Claims  BY DEF Claims
    <2> QED BY <1>2, <1>3, <1>4, <2>1 DEF IInv, Counted, One
  <1>9. MutexHeld'  BY <1>1, <1>5, MutexNext
  <1>10. Phases'
    <2>1. Len(wclapList') <= NumFiles  BY <1>6, BoundsAssumption
    <2> QED BY <1>3, <1>4, <1>6, <2>1, NothingOpen DEF Phases
  <1>11. ListsInOrder'
    BY <1>6 DEF ListsInOrder, IdsUnique, EntriesRouteToOwner, NewestListedOnce
  <1>12. DeinitClosesAll'  BY <1>5 DEF IInv, DeinitClosesAll
  <1> QED BY <1>7, <1>8, <1>9, <1>10, <1>11, <1>12, IInvNext

\* wclap_global_deinit finds nothing open: its abort() is never reached.
LEMMA GlobalDeinitIInv ==
  ASSUME IInv, NEW h \in Hosts, GlobalDeinit(h)
  PROVE  IInv'
  <1> USE DEF GlobalDeinit
  <1>1. pc[h] = "globalDeinit"  OBVIOUS
  <1>2. \A P : "idle" \notin P => (In(P) <=> "globalDeinit" \in P)  BY <1>1, InIs
  <1>3. initCounter = 0 /\ ~initFailed  BY <1>2, PhasesAre
  <1>4. wclapList = <<>> /\ pluginList = <<>> /\ active = {}
    BY <1>2, NothingOpen DEF IInv, Phases
  <1>5. globalInit' = FALSE /\ Goto(h, "idle") /\ initMutex' = None /\ UNCHANGED fault
    BY <1>4
  <1>6. \A P : "idle" \notin P => ~In(P)'  BY <1>1, <1>5, InNext
  <1>7. TypeOK'  BY <1>5, PcType DEF IInv, TypeOK
  <1>8. Counted'
    <2>1. Claims' = Claims  BY DEF Claims
    <2> QED BY <1>2, <1>3, <1>6, <2>1 DEF IInv, Counted, One
  <1>9. MutexHeld'  BY <1>1, <1>5, MutexNext
  <1>10. Phases'  BY <1>3, <1>4, <1>6 DEF IInv, Phases
  <1>11. ListsInOrder'
    BY <1>4 DEF ListsInOrder, IdsUnique, EntriesRouteToOwner, NewestListedOnce
  <1>12. DeinitClosesAll'  BY <1>4, <1>5 DEF IInv, DeinitClosesAll
  <1> QED BY <1>7, <1>8, <1>9, <1>10, <1>11, <1>12, IInvNext

LEMMA NextIInv == IInv /\ [Next]_vars => IInv'
  <1> SUFFICES ASSUME IInv, [Next]_vars PROVE IInv'  OBVIOUS
  <1>1. ASSUME NEW h \in Hosts, HostStep(h) PROVE IInv'
    BY <1>1, InitLockIInv, GlobalInitIInv, ScanOpenIInv, ThrowsIInv, ScanEndsIInv,
       CollectNewIInv, CollectDuplicateIInv, CollectNextIInv, DeinitLockIInv,
       DeinitClearIInv, GlobalDeinitIInv DEF HostStep
  <1>2. CASE UNCHANGED vars
    <2>1. UNCHANGED <<hostVars, initMutex, initCounter, initFailed>> /\ UNCHANGED Lists
          /\ globalInit' = globalInit /\ fault' = fault
      BY <1>2 DEF vars, hostVars, Lists
    <2>2. Counted' /\ MutexHeld' /\ \A P : In(P)' <=> In(P)  BY <2>1, SamePhase
    <2>3. TypeOK'  BY <2>1 DEF hostVars, Lists, IInv, TypeOK
    <2>4. Phases'  BY <2>1, <2>2 DEF Lists, IInv, Phases
    <2>5. ListsInOrder'  BY <2>1, <2>2, ListsKept
    <2>6. DeinitClosesAll'  BY <2>1 DEF Lists, IInv, DeinitClosesAll
    <2> QED BY <2>2, <2>3, <2>4, <2>5, <2>6, IInvNext
  <1> QED BY <1>1, <1>2 DEF Next, Crashed

-----------------------------------------------------------------------------
(* The factory that the hosts share *)

\* The phase of the factory, where the hosts are.
PhaseOf ==
  /\ In({"global", "scan", "collect"}) => FactoryPhase = "opening" /\ ~Factory!InUse(inits)
  /\ In({"clear", "globalDeinit"}) => FactoryPhase = "closing"
  /\ ~In({"global", "scan", "collect"}) /\ ~In({"clear", "globalDeinit"}) =>
       FactoryPhase = IF initFailed THEN "failed" ELSE IF initCounter = 0 THEN "closed" ELSE "open"
  /\ ~initFailed /\ ~In({"global", "scan", "collect"}) => (Factory!InUse(inits) <=> initCounter > 0)
  /\ initFailed => initCounter > 0
  /\ Factory!OnePerId(Listed)

LEMMA PhaseOfIs == IInv => PhaseOf
  <1> SUFFICES ASSUME IInv PROVE PhaseOf  OBVIOUS
  <1> DEFINE opening == In({"global", "scan", "collect"})
             closing == In({"clear", "globalDeinit"})
             n == Cardinality(Claims)
             o == One(opening)
             f == One(initFailed)
  <1>1. /\ n \in Nat /\ initCounter = n + o + f
        /\ opening => n = 0 /\ ~initFailed
        /\ closing => initCounter = 0
    BY ClaimsCount, PhasesAre DEF IInv, Counted
  <1>2. /\ o = (IF opening THEN 1 ELSE 0) /\ f = (IF initFailed THEN 1 ELSE 0)
        /\ o \in {0, 1} /\ f \in {0, 1}
    BY DEF One
  <1>3. Factory!InUse(inits) <=> n > 0
    <2>1. ASSUME NEW h \in Hosts, inits[h] > 0 PROVE n > 0  BY <2>1, ClaimsCount
    <2>2. ASSUME n > 0 PROVE \E h \in Hosts : inits[h] > 0
      <3>1. IsFiniteSet(Claims) /\ Claims # {}  BY <1>1, <2>2, FS_EmptySet DEF IInv, Counted
      <3>2. PICK x \in Hosts \X (1..MaxInits) : x[2] <= inits[x[1]]  BY <3>1 DEF Claims
      <3>3. inits[x[1]] \in Nat /\ x[2] \in Nat /\ x[2] > 0
        BY <3>2, BoundsAssumption DEF IInv, TypeOK
      <3> QED BY <3>2, <3>3
    <2> QED BY <2>1, <2>2 DEF Factory!InUse
  <1>4. opening => ~closing  BY <1>1, <1>2
  <1>5. initFailed => initCounter > 0  BY <1>1, <1>2
  <1>6. ~initFailed /\ ~opening => (Factory!InUse(inits) <=> initCounter > 0)
    BY <1>1, <1>2, <1>3
  <1>7. Factory!OnePerId(Listed)
    <2> SUFFICES ASSUME NEW d \in Listed, NEW e \in Listed, d.id = e.id PROVE d = e
      BY DEF Factory!OnePerId
    <2>1. PICK i \in 1..Len(pluginList) : d = Desc(pluginList[i])  BY DEF Listed
    <2>2. PICK j \in 1..Len(pluginList) : e = Desc(pluginList[j])  BY DEF Listed
    <2> QED BY <2>1, <2>2 DEF IInv, IdsUnique
  <1>8. /\ closing => ~initFailed
        /\ opening => ~initFailed /\ ~Factory!InUse(inits)
    BY <1>1, <1>3, <1>5
  <1>9. opening => FactoryPhase = "opening"  BY <1>4, <1>8 DEF FactoryPhase
  <1>10. closing => FactoryPhase = "closing"  BY <1>4, <1>8 DEF FactoryPhase
  <1>11. ~opening /\ ~closing =>
           FactoryPhase = IF initFailed THEN "failed" ELSE IF initCounter = 0 THEN "closed" ELSE "open"
    BY DEF FactoryPhase
  <1> QED BY <1>5, <1>6, <1>7, <1>8, <1>9, <1>10, <1>11 DEF PhaseOf

LEMMA PhaseOfNext == IInv' => PhaseOf'
  BY PhaseOfIs, PTL

\* Each ID is still listed, with a version that is no older.
LEMMA ListGrows ==
  ASSUME IInv, FactoryPhase = "opening", PhaseOf',
         \A i \in 1..Len(pluginList) : \E j \in 1..Len(pluginList') :
           /\ Desc(pluginList[j])'.id = Desc(pluginList[i]).id
           /\ Desc(pluginList[j])'.version >= Desc(pluginList[i]).version
  PROVE  Factory!Grows
  <1>1. ASSUME NEW d \in Listed
        PROVE  \E e \in Listed' : e.id = d.id /\ e.version >= d.version
    <2>1. PICK i \in 1..Len(pluginList) : d = Desc(pluginList[i])  BY DEF Listed
    <2>2. PICK j \in 1..Len(pluginList') : /\ Desc(pluginList[j])'.id = d.id
                                           /\ Desc(pluginList[j])'.version >= d.version
      BY <2>1
    <2>3. Desc(pluginList[j])' \in Listed'  BY <2>2 DEF Listed
    <2> QED BY <2>2, <2>3
  <1>2. Factory!OnePerId(Listed')  BY DEF PhaseOf, Factory!OnePerId
  <1> QED BY <1>1, <1>2 DEF Factory!Grows

LEMMA ListSame ==
  ASSUME disk' = disk, pluginList' = pluginList
  PROVE  Listed' = Listed
  BY DEF Listed, Desc

LEMMA SameListGrows ==
  ASSUME IInv, FactoryPhase = "opening", PhaseOf', disk' = disk, pluginList' = pluginList
  PROVE  Factory!Grows
  <1>1. ASSUME NEW i \in 1..Len(pluginList)
        PROVE  \E j \in 1..Len(pluginList') :
                 /\ Desc(pluginList[j])'.id = Desc(pluginList[i]).id
                 /\ Desc(pluginList[j])'.version >= Desc(pluginList[i]).version
    <2>1. Desc(pluginList[i]).version \in Nat  BY ListedIs DEF IInv
    <2>2. Desc(pluginList[i])' = Desc(pluginList[i]) /\ i \in 1..Len(pluginList')  BY DEF Desc
    <2> QED BY <2>1, <2>2
  <1> QED BY <1>1, ListGrows

\* A step that leaves the phase, the inits and the list alone is nobody's business.
LEMMA Unseen ==
  ASSUME FactoryPhase' = FactoryPhase, inits' = inits, disk' = disk, pluginList' = pluginList
  PROVE  UNCHANGED Factory!vars
  BY ListSame DEF Factory!vars

\* clap_init returns to the host that scanned.
LEMMA ScanReturns ==
  ASSUME IInv, PhaseOf', NEW h \in Hosts, pc[h] = "collect", Return(h, TRUE), Factory!Grows,
         initCounter' = initCounter, initFailed' = initFailed
  PROVE  Factory!Opened(h)
  <1>1. Goto(h, "idle") /\ inits' = [inits EXCEPT ![h] = @ + 1]  BY DEF Return
  <1>2. In({"global", "scan", "collect"})  BY DEF In
  <1>3. initCounter = 1 /\ ~initFailed  BY <1>2, PhasesAre
  <1>4. ~In({"global", "scan", "collect"})' /\ ~In({"clear", "globalDeinit"})'  BY <1>1, InNext
  <1>5. FactoryPhase' = "open"  BY <1>3, <1>4 DEF PhaseOf
  <1>6. ~Factory!InUse(inits)  BY <1>2, PhaseOfIs DEF PhaseOf
  <1>7. inits[h] = 0  BY <1>6, BoundsAssumption DEF Factory!InUse, IInv, TypeOK
  <1> QED BY <1>1, <1>5, <1>6, <1>7 DEF Factory!Opened

LEMMA InitRefines ==
  ASSUME IInv, PhaseOf, PhaseOf', NEW h \in Hosts, InitLock(h)
  PROVE  Factory!BeginOpen \/ Factory!Join(h)
  <1> USE DEF InitLock
  <1>1. pc[h] = "idle" /\ initMutex = None /\ Listed' = Listed  BY ListSame
  <1>2. \A P : "idle" \notin P => ~In(P)  BY <1>1, InIs
  <1>3. ~In({"global", "scan", "collect"}) /\ ~In({"clear", "globalDeinit"})  BY <1>2
  <1>4. initCounter \in Nat /\ initCounter' = initCounter + 1 /\ initFailed' = initFailed
    BY PhasesAre
  <1>5. CASE initCounter > 0
    <2>1. Goto(h, "idle") /\ inits' = [inits EXCEPT ![h] = @ + 1]  BY <1>5 DEF Return
    <2>2. ~In({"global", "scan", "collect"})' /\ ~In({"clear", "globalDeinit"})'
      BY <1>1, <2>1, InNext
    <2>3. FactoryPhase' = FactoryPhase /\ FactoryPhase \in {"open", "failed"}
      BY <1>3, <1>4, <1>5, <2>2 DEF PhaseOf
    <2> QED BY <1>1, <2>1, <2>3 DEF Factory!Join
  <1>6. CASE ~(initCounter > 0)
    <2>1. Goto(h, "global") /\ inits' = inits  BY <1>6
    <2>2. In({"global", "scan", "collect"})'  BY <1>1, <2>1, InNext
    <2>3. FactoryPhase = "closed"  BY <1>3, <1>4, <1>6 DEF PhaseOf
    <2>4. FactoryPhase' = "opening"  BY <2>2 DEF PhaseOf
    <2> QED BY <1>1, <2>1, <2>3, <2>4 DEF Factory!BeginOpen
  <1> QED BY <1>5, <1>6

LEMMA GlobalInitRefines ==
  ASSUME IInv, PhaseOf, PhaseOf', NEW h \in Hosts, GlobalInit(h)
  PROVE  Factory!OpenFails \/ UNCHANGED Factory!vars
  <1> USE DEF GlobalInit
  <1>1. pc[h] = "global" /\ disk' = disk /\ pluginList' = pluginList  OBVIOUS
  <1>2. In({"global"}) /\ In({"global", "scan", "collect"})  BY <1>1 DEF In
  <1>3. FactoryPhase = "opening"  BY <1>2 DEF PhaseOf
  <1>4. CASE Goto(h, "scan") /\ inits' = inits
    <2>1. In({"global", "scan", "collect"})'  BY <1>1, <1>4, InNext
    <2>2. FactoryPhase' = "opening"  BY <2>1 DEF PhaseOf
    <2> QED BY <1>1, <1>3, <1>4, <2>2, Unseen
  <1>5. CASE Return(h, FALSE) /\ initFailed'
    <2>1. Goto(h, "idle") /\ inits' = [inits EXCEPT ![h] = @]  BY <1>5 DEF Return
    <2>2. inits' = inits  BY <2>1 DEF IInv, TypeOK
    <2>3. ~In({"global", "scan", "collect"})' /\ ~In({"clear", "globalDeinit"})'
      BY <1>1, <2>1, InNext
    <2>4. FactoryPhase' = "failed"  BY <1>5, <2>3 DEF PhaseOf
    <2>5. pluginList = <<>>
      <3>1. In({"global", "scan", "globalDeinit"})  BY <1>1 DEF In
      <3> QED BY <3>1 DEF IInv, Phases
    <2>6. Listed = {} /\ Listed' = Listed  BY <1>1, <2>5, ListSame DEF Listed
    <2> QED BY <1>3, <2>2, <2>4, <2>6 DEF Factory!OpenFails
  <1> QED BY <1>4, <1>5

\* The scan goes on, or never ends.
LEMMA ScanRefines ==
  ASSUME IInv, PhaseOf, PhaseOf', NEW h \in Hosts,
         ScanOpen(h) \/ ScanThrows(h) \/ ScanEnds(h) \/ CollectThrows(h)
  PROVE  UNCHANGED Factory!vars
  <1>1. /\ pc[h] \in {"scan", "collect"} /\ (pc' = pc \/ Goto(h, "collect"))
        /\ inits' = inits /\ disk' = disk /\ pluginList' = pluginList
    BY DEF ScanOpen, ScanThrows, ScanEnds, CollectThrows, hostVars
  <1>2. In({"global", "scan", "collect"})  BY <1>1 DEF In
  <1>3. In({"global", "scan", "collect"})'
    <2>1. CASE pc' = pc  BY <1>2, <2>1 DEF In
    <2>2. CASE Goto(h, "collect")  BY <1>1, <2>2, InNext
    <2> QED BY <1>1, <2>1, <2>2
  <1>4. FactoryPhase = "opening" /\ FactoryPhase' = "opening"  BY <1>2, <1>3 DEF PhaseOf
  <1> QED BY <1>1, <1>4, Unseen

LEMMA CollectNewRefines ==
  ASSUME IInv, PhaseOf, PhaseOf', NEW h \in Hosts, CollectNew(h)
  PROVE  Factory!Fill
  <1> USE DEF CollectNew
  <1>1. pc[h] = "collect" /\ pc' = pc /\ inits' = inits /\ disk' = disk  BY DEF hostVars
  <1>2. In({"global", "scan", "collect"})  BY <1>1 DEF In
  <1>3. In({"global", "scan", "collect"})'  BY <1>1, <1>2 DEF In
  <1>4. FactoryPhase = "opening" /\ FactoryPhase' = "opening"  BY <1>2, <1>3 DEF PhaseOf
  <1>5. ASSUME NEW i \in 1..Len(pluginList)
        PROVE  /\ i \in 1..Len(pluginList')
               /\ Desc(pluginList[i])' = Desc(pluginList[i])
               /\ Desc(pluginList[i]).version \in Nat
    <2>1. pluginList \in Seq(Entry) /\ Current \in Entry  BY CurrentIs DEF IInv, TypeOK
    <2>2. i \in 1..Len(pluginList') /\ pluginList'[i] = pluginList[i]  BY <2>1
    <2>3. Desc(pluginList[i]).version \in Nat  BY ListedIs DEF IInv
    <2> QED BY <1>1, <2>2, <2>3 DEF Desc
  <1>6. Factory!Grows
    <2>1. \A v \in Nat : v >= v  OBVIOUS
    <2> QED BY ONLY IInv, PhaseOf', <1>4, <1>5, <2>1, ListGrows
  <1> QED BY <1>1, <1>4, <1>6 DEF Factory!Fill

LEMMA CollectDuplicateRefines ==
  ASSUME IInv, PhaseOf, PhaseOf', NEW h \in Hosts, CollectDuplicate(h)
  PROVE  Factory!Opened(h)
  <1> USE DEF CollectDuplicate
  <1>1. pc[h] = "collect" /\ Return(h, TRUE) /\ disk' = disk
        /\ initCounter' = initCounter /\ initFailed' = initFailed /\ AtDescriptor
    OBVIOUS
  <1>2. In({"global", "scan", "collect"})  BY <1>1 DEF In
  <1>3. FactoryPhase = "opening"  BY <1>2 DEF PhaseOf
  <1>4. PICK q \in SameId(Current) :
          pluginList' = IF Newer(Desc(Current), Desc(pluginList[q]))
                        THEN Replace(q, Current) ELSE pluginList
    OBVIOUS
  <1>5. CASE pluginList' = pluginList  BY <1>1, <1>3, <1>5, SameListGrows, ScanReturns
  <1>6. CASE Newer(Desc(Current), Desc(pluginList[q])) /\ pluginList' = Replace(q, Current)
    <2>1. /\ pluginList \in Seq(Entry) /\ q \in 1..Len(pluginList)
          /\ Desc(pluginList[q]).id = Desc(Current).id
      BY DEF IInv, TypeOK, SameId
    <2>2. Current \in Entry /\ Desc(Current).version \in Nat  BY <1>1, CurrentIs DEF IInv
    <2>3. /\ Len(pluginList') = Len(pluginList)
          /\ \A i \in 1..Len(pluginList) : pluginList'[i] = IF i = q THEN Current ELSE pluginList[i]
      <3>1. pluginList' = [pluginList EXCEPT ![q] = Current]  BY <1>6 DEF Replace
      <3> QED BY ONLY <2>1, <2>2, <3>1
    <2>4. ASSUME NEW i \in 1..Len(pluginList)
          PROVE  /\ i \in 1..Len(pluginList')
                 /\ Desc(pluginList[i])'.id = Desc(pluginList[i]).id
                 /\ Desc(pluginList[i])'.version >= Desc(pluginList[i]).version
      <3>1. Desc(pluginList[i]).version \in Nat  BY ListedIs DEF IInv
      <3>2. \A p : Desc(p)' = disk[p'.file].descriptors[p'.item]  BY <1>1 DEF Desc
      <3>3. CASE i = q
        <4>1. pluginList'[i] = Current  BY <2>3, <3>3
        <4>2. Desc(pluginList[i])' = Desc(Current)  BY <1>1, <4>1 DEF Desc
        <4>3. Desc(Current).version >= Desc(pluginList[q]).version
          BY <1>6, <2>2, <3>1, <3>3 DEF Newer
        <4> QED BY <2>1, <2>3, <3>3, <4>2, <4>3
      <3>4. CASE i # q
        <4>1. pluginList'[i] = pluginList[i]  BY <2>3, <3>4
        <4>2. Desc(pluginList[i])' = Desc(pluginList[i])  BY <1>1, <4>1 DEF Desc
        <4> QED BY <2>3, <3>1, <4>2
      <3> QED BY <3>3, <3>4
    <2>5. Factory!Grows  BY ONLY IInv, PhaseOf', <1>3, <2>4, ListGrows
    <2> QED BY <1>1, <2>5, ScanReturns
  <1> QED BY <1>4, <1>5, <1>6

LEMMA CollectNextRefines ==
  ASSUME IInv, PhaseOf, PhaseOf', NEW h \in Hosts, CollectNext(h)
  PROVE  Factory!Opened(h) \/ UNCHANGED Factory!vars
  <1> USE DEF CollectNext
  <1>1. /\ pc[h] = "collect" /\ disk' = disk /\ pluginList' = pluginList
        /\ initCounter' = initCounter /\ initFailed' = initFailed
    OBVIOUS
  <1>2. In({"global", "scan", "collect"})  BY <1>1 DEF In
  <1>3. FactoryPhase = "opening"  BY <1>2 DEF PhaseOf
  <1>4. CASE UNCHANGED hostVars
    <2>1. In({"global", "scan", "collect"})'  BY <1>2, <1>4 DEF hostVars, In
    <2>2. FactoryPhase' = "opening" /\ inits' = inits  BY <1>4, <2>1 DEF PhaseOf, hostVars
    <2> QED BY <1>1, <1>3, <2>2, Unseen
  <1>5. CASE Return(h, TRUE)
    <2>1. Factory!Grows  BY <1>1, <1>3, SameListGrows
    <2> QED BY <1>1, <1>5, <2>1, ScanReturns
  <1> QED BY <1>4, <1>5

LEMMA DeinitLockRefines ==
  ASSUME IInv, PhaseOf, IInv', PhaseOf', NEW h \in Hosts, DeinitLock(h)
  PROVE  Factory!Leave(h)
  <1> USE DEF DeinitLock
  <1>1. /\ pc[h] = "idle" /\ initMutex = None /\ inits[h] > 0 /\ Listed' = Listed
        /\ inits' = [inits EXCEPT ![h] = @ - 1] /\ initFailed' = initFailed
    BY ListSame
  <1>2. \A P : "idle" \notin P => ~In(P)  BY <1>1, InIs
  <1>3. ~In({"global", "scan", "collect"}) /\ ~In({"clear", "globalDeinit"})  BY <1>2
  <1>4. initCounter \in Nat /\ initCounter' = initCounter - 1 /\ initCounter' \in Nat
    BY PhasesAre DEF IInv, TypeOK
  <1>5. FactoryPhase = IF initFailed THEN "failed" ELSE "open"  BY <1>3, <1>4 DEF PhaseOf
  <1>6. CASE initCounter > 1
    <2>1. ~In({"global", "scan", "collect"})' /\ ~In({"clear", "globalDeinit"})'
      BY <1>3, <1>6 DEF In
    <2>2. initCounter' > 0  BY <1>4, <1>6
    <2>3. FactoryPhase' = FactoryPhase  BY <1>1, <1>5, <2>1, <2>2 DEF PhaseOf
    <2>4. ~initFailed => Factory!InUse(inits')
      BY <1>1, <2>1, <2>2 DEF PhaseOf, Factory!InUse
    <2> QED BY <1>1, <1>5, <2>3, <2>4 DEF Factory!Leave
  <1>7. CASE ~(initCounter > 1)
    <2>1. Goto(h, "clear") /\ initCounter' = 0  BY <1>4, <1>7
    <2>2. In({"clear", "globalDeinit"})' /\ ~In({"global", "scan", "collect"})'
      BY <1>1, <2>1, InNext
    <2>3. FactoryPhase' = "closing"  BY <2>2 DEF PhaseOf
    <2>4. ~initFailed  BY <1>1, <2>1 DEF PhaseOf
    <2>5. ~Factory!InUse(inits')  BY <1>1, <2>1, <2>2, <2>4 DEF PhaseOf, Factory!InUse
    <2> QED BY <1>1, <1>5, <2>3, <2>4, <2>5 DEF Factory!Leave
  <1> QED BY <1>6, <1>7

LEMMA DeinitRefines ==
  ASSUME IInv, PhaseOf, IInv', PhaseOf', NEW h \in Hosts, DeinitClear(h) \/ GlobalDeinit(h)
  PROVE  Factory!Empty \/ Factory!EndClose \/ UNCHANGED Factory!vars
  <1>1. /\ pc[h] \in {"clear", "globalDeinit"} /\ inits' = inits /\ disk' = disk
        /\ initCounter' = initCounter /\ initFailed' = initFailed
    BY DEF DeinitClear, GlobalDeinit
  <1>2. In({"clear", "globalDeinit"})  BY <1>1 DEF In
  <1>3. FactoryPhase = "closing"  BY <1>2 DEF PhaseOf
  <1>4. CASE DeinitClear(h)
    <2>1. Goto(h, "globalDeinit") /\ pluginList' = <<>>  BY <1>4 DEF DeinitClear
    <2>2. In({"clear", "globalDeinit"})'  BY <1>1, <2>1, InNext
    <2>3. FactoryPhase' = "closing"  BY <2>2 DEF PhaseOf
    <2>4. Listed' = {}  BY <2>1 DEF Listed
    <2> QED BY <1>1, <1>3, <2>3, <2>4 DEF Factory!Empty
  <1>5. CASE GlobalDeinit(h) /\ pc' = pc
    <2>1. In({"clear", "globalDeinit"})'  BY <1>2, <1>5 DEF In
    <2>2. FactoryPhase' = "closing" /\ pluginList' = pluginList
      BY <1>5, <2>1 DEF PhaseOf, GlobalDeinit
    <2> QED BY <1>1, <1>3, <2>2, Unseen
  <1>6. CASE GlobalDeinit(h) /\ Goto(h, "idle")
    <2>1. pc[h] = "globalDeinit" /\ pluginList' = pluginList  BY <1>6 DEF GlobalDeinit
    <2>2. In({"global", "scan", "globalDeinit"})  BY <2>1 DEF In
    <2>3. pluginList = <<>>  BY <2>2 DEF IInv, Phases
    <2>4. Listed = {} /\ Listed' = Listed  BY <1>1, <2>1, <2>3, ListSame DEF Listed
    <2>5. ~In({"global", "scan", "collect"})' /\ ~In({"clear", "globalDeinit"})'
      BY <1>1, <1>6, InNext
    <2>6. initCounter = 0 /\ ~initFailed  BY <1>2, PhasesAre
    <2>7. FactoryPhase' = "closed"  BY <1>1, <2>5, <2>6 DEF PhaseOf
    <2> QED BY <1>1, <1>3, <2>4, <2>7 DEF Factory!EndClose
  <1> QED BY <1>4, <1>5, <1>6 DEF GlobalDeinit

\* Every step of a host is one of the factory's, or a stutter.
LEMMA StepRefines == IInv /\ [Next]_vars => [Factory!Next]_(Factory!vars)
  <1> SUFFICES ASSUME IInv, [Next]_vars PROVE Factory!Next \/ UNCHANGED Factory!vars
    OBVIOUS
  <1>1. IInv'  BY NextIInv
  <1>2. PhaseOf /\ PhaseOf'  BY <1>1, PhaseOfIs, PhaseOfNext
  <1>3. ASSUME NEW h \in Hosts, HostStep(h) PROVE Factory!Next \/ UNCHANGED Factory!vars
    <2>1. CASE InitLock(h)  BY <1>2, <2>1, InitRefines DEF Factory!Next
    <2>2. CASE GlobalInit(h)  BY <1>2, <2>2, GlobalInitRefines DEF Factory!Next
    <2>3. CASE ScanOpen(h) \/ ScanThrows(h) \/ ScanEnds(h) \/ CollectThrows(h)
      BY <1>2, <2>3, ScanRefines
    <2>4. CASE CollectNew(h)  BY <1>2, <2>4, CollectNewRefines DEF Factory!Next
    <2>5. CASE CollectDuplicate(h)  BY <1>2, <2>5, CollectDuplicateRefines DEF Factory!Next
    <2>6. CASE CollectNext(h)  BY <1>2, <2>6, CollectNextRefines DEF Factory!Next
    <2>7. CASE DeinitLock(h)  BY <1>1, <1>2, <2>7, DeinitLockRefines DEF Factory!Next
    <2>8. CASE DeinitClear(h) \/ GlobalDeinit(h)
      BY <1>1, <1>2, <2>8, DeinitRefines DEF Factory!Next
    <2> QED BY <1>3, <2>1, <2>2, <2>3, <2>4, <2>5, <2>6, <2>7, <2>8 DEF HostStep
  <1>4. CASE UNCHANGED vars
    <2>1. In({"global", "scan", "collect"})' <=> In({"global", "scan", "collect"})
      BY <1>4 DEF vars, hostVars, In
    <2>2. In({"clear", "globalDeinit"})' <=> In({"clear", "globalDeinit"})
      BY <1>4 DEF vars, hostVars, In
    <2>3. FactoryPhase' = FactoryPhase  BY <1>4, <2>1, <2>2 DEF vars, FactoryPhase
    <2> QED BY <1>4, <2>3, Unseen DEF vars, hostVars
  <1> QED BY <1>3, <1>4 DEF Next, Crashed

-----------------------------------------------------------------------------
(* The theorems *)

\* IInv is inductive: initMutex keeps the phases apart, and initCounter counts the
\* inits not undone, the one that scans and the one that failed.
THEOREM Invariance == Spec => []IInv
  <1>1. Init => IInv  BY InitIInv
  <1>2. IInv /\ [Next]_vars => IInv'  BY NextIInv
  <1> QED BY <1>1, <1>2, PTL DEF Spec

\* Every variable keeps its shape.
THEOREM TypeCorrect == Spec => []TypeOK
  <1>1. IInv => TypeOK  BY DEF IInv
  <1> QED BY <1>1, Invariance, PTL

\* clap_init that returned true leaves the engine up and the scan over until it is
\* undone, for any number of threads, unless an earlier clap_init failed.
THEOREM InitMeansReady == Spec => []InitTrueMeansReady
  <1>1. IInv => InitTrueMeansReady
    <2> SUFFICES ASSUME IInv, NEW h \in Hosts, inits[h] > 0, ~initFailed
                 PROVE  globalInit /\ \A g \in Hosts : pc[g] \notin {"global", "scan", "collect", "clear"}
      BY DEF InitTrueMeansReady
    <2>1. Cardinality(Claims) \in Nat /\ Cardinality(Claims) > 0  BY ClaimsCount
    <2>2. ~In({"global", "scan", "collect"})  BY <2>1, PhasesAre
    <2>3. initCounter > 0  BY <2>1, <2>2 DEF IInv, Counted, One
    <2>4. ~In({"clear", "globalDeinit"})  BY <2>3, PhasesAre
    <2>5. ~In({"global"})  BY <2>2 DEF In
    <2>6. globalInit  BY <2>3, <2>5 DEF IInv, Phases
    <2> QED BY <2>2, <2>4, <2>6 DEF In
  <1> QED BY <1>1, Invariance, PTL

\* Every entry of pluginList leads to the open WCLAP that holds its descriptor.
THEOREM EntriesRoute == Spec => []EntriesRouteToOwner
  <1>1. IInv => EntriesRouteToOwner  BY DEF IInv
  <1> QED BY <1>1, Invariance, PTL

\* Of what the collection has looked at, the newest of each ID is listed, once.
THEOREM NewestListed == Spec => []NewestListedOnce
  <1>1. IInv => NewestListedOnce  BY DEF IInv
  <1> QED BY <1>1, Invariance, PTL

\* The last clap_deinit closes every WCLAP, and wclap_global_deinit never aborts.
THEOREM DeinitCloses == Spec => []DeinitClosesAll
  <1>1. IInv => DeinitClosesAll  BY DEF IInv
  <1> QED BY <1>1, Invariance, PTL

\* Hosts that come and go in any order, on any threads, share one factory: nobody is
\* let in while it is filled, and it stays as it is until the last one leaves.
THEOREM Refinement == Spec => ImplementsSharedFactory
  <1>1. Init => Factory!Init
    <2> SUFFICES ASSUME Init PROVE Factory!Init  OBVIOUS
    <2>1. \A P : "idle" \notin P => ~In(P)  BY DEF Init, In
    <2>2. FactoryPhase = "closed"  BY <2>1 DEF Init, FactoryPhase
    <2>3. Listed = {}  BY DEF Init, Listed
    <2> QED BY <2>2, <2>3 DEF Init, Factory!Init
  <1>2. IInv /\ [Next]_vars => [Factory!Next]_(Factory!vars)  BY StepRefines
  <1> QED BY <1>1, <1>2, Invariance, PTL DEF Spec, ImplementsSharedFactory, Factory!Spec
===============================================================================
