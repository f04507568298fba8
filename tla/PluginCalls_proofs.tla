-------------------------- MODULE PluginCalls_proofs --------------------------
(***************************************************************************)
(* The locks of PluginCalls balance and its output events are live, for    *)
(* any thread pool, any nesting of calls and wherever WASM code traps.     *)
(***************************************************************************)
EXTENDS PluginCalls, FiniteSetTheorems, SequenceTheorems, TLAPS

-----------------------------------------------------------------------------
(* Stacks of frames, and how many of their frames hold a mutex *)

Held(s, l)   == {i \in 1..Len(s) : Holds(s[i], l)}
Weight(f, l) == IF Holds(f, l) THEN 1 ELSE 0

LEMMA HoldingIsHeld == \A a \in Actors, l \in Locks : Holding(a, l) = Held(stack[a], l)
  BY DEF Holding, Held

LEMMA HeldFinite ==
  ASSUME NEW s \in Seq(Frame), NEW l
  PROVE  IsFiniteSet(Held(s, l)) /\ Cardinality(Held(s, l)) \in Nat
  <1>1. Len(s) \in Int /\ 1 \in Int  OBVIOUS
  <1>2. IsFiniteSet(1..Len(s))  BY <1>1, FS_Interval
  <1>3. Held(s, l) \in SUBSET (1..Len(s))  BY DEF Held
  <1>4. IsFiniteSet(Held(s, l))  BY <1>2, <1>3, FS_Subset
  <1> QED BY <1>4, FS_CardinalityType

\* One frame more counts as much as it weighs.
LEMMA HeldSplit ==
  ASSUME NEW s \in Seq(Frame), NEW t \in Seq(Frame), NEW l, Len(s) = Len(t) + 1,
         \A i \in 1..Len(t) : s[i] = t[i]
  PROVE  Cardinality(Held(s, l)) = Cardinality(Held(t, l)) + Weight(s[Len(s)], l)
  <1>1. Len(t) \in Nat  OBVIOUS
  <1> DEFINE n == Len(s)
  <1>2. n \notin Held(t, l)  BY <1>1 DEF Held
  <1>3. IsFiniteSet(Held(t, l)) /\ Cardinality(Held(t, l)) \in Nat  BY HeldFinite
  <1>4. CASE Holds(s[n], l)
    <2>1. Held(s, l) = Held(t, l) \cup {n}  BY <1>1, <1>4 DEF Held
    <2>2. Cardinality(Held(t, l) \cup {n}) = Cardinality(Held(t, l)) + 1
      BY <1>2, <1>3, FS_AddElement
    <2> QED BY <1>4, <2>1, <2>2 DEF Weight
  <1>5. CASE ~Holds(s[n], l)
    <2>1. Held(s, l) = Held(t, l)  BY <1>1, <1>5 DEF Held
    <2> QED BY <1>3, <1>5, <2>1 DEF Weight
  <1> QED BY <1>4, <1>5

LEMMA WithoutLast ==
  ASSUME NEW s \in Seq(Frame), s # <<>>
  PROVE  /\ SubSeq(s, 1, Len(s) - 1) \in Seq(Frame)
         /\ Len(SubSeq(s, 1, Len(s) - 1)) = Len(s) - 1
         /\ \A i \in 1..Len(s) - 1 : SubSeq(s, 1, Len(s) - 1)[i] = s[i]
  <1>1. Len(s) \in Nat \ {0}  OBVIOUS
  <1> DEFINE n == Len(s) - 1
  <1>2. n \in 0..Len(s) /\ 1 \in 1..n + 1  BY <1>1
  <1>3. /\ SubSeq(s, 1, n) \in Seq(Frame)
        /\ Len(SubSeq(s, 1, n)) = IF 1 <= n THEN n - 1 + 1 ELSE 0
        /\ \A i \in 1..n - 1 + 1 : SubSeq(s, 1, n)[i] = s[1 + i - 1]
    BY <1>2, SubSeqProperties
  <1> DEFINE t == SubSeq(s, 1, n)
  <1> HIDE DEF t
  <1>4. /\ t \in Seq(Frame)
        /\ Len(t) = IF 1 <= n THEN n - 1 + 1 ELSE 0
        /\ \A i \in 1..n - 1 + 1 : t[i] = s[1 + i - 1]
    BY <1>3 DEF t
  <1>5. n \in Nat  BY <1>1
  <1> HIDE DEF n
  <1>6. Len(t) = n  BY <1>4, <1>5
  <1>7. \A i \in 1..n : t[i] = s[i]  BY <1>4, <1>5
  <1> QED BY <1>4, <1>6, <1>7 DEF t, n

\* The innermost frame changes, a frame is entered, a frame is left.
LEMMA Changed ==
  ASSUME NEW s \in Seq(Frame), s # <<>>, NEW f \in Frame
  PROVE  LET t == [s EXCEPT ![Len(s)] = f] IN
           /\ t \in Seq(Frame) /\ Len(t) = Len(s)
           /\ \A i \in 1..Len(s) : t[i] = IF i = Len(s) THEN f ELSE s[i]
           /\ \A l : Cardinality(Held(t, l)) + Weight(s[Len(s)], l)
                       = Cardinality(Held(s, l)) + Weight(f, l)
  <1> DEFINE t == [s EXCEPT ![Len(s)] = f]
             r == SubSeq(s, 1, Len(s) - 1)
  <1>1. t \in Seq(Frame) /\ Len(t) = Len(s)  OBVIOUS
  <1>2. \A i \in 1..Len(s) : t[i] = IF i = Len(s) THEN f ELSE s[i]  OBVIOUS
  <1>3. r \in Seq(Frame) /\ Len(r) = Len(s) - 1 /\ \A i \in 1..Len(s) - 1 : r[i] = s[i]
    BY WithoutLast
  <1>4. Len(s) \in Nat \ {0}  OBVIOUS
  <1> HIDE DEF t, r
  <1>5. ASSUME NEW l
        PROVE  Cardinality(Held(t, l)) + Weight(s[Len(s)], l)
                 = Cardinality(Held(s, l)) + Weight(f, l)
    <2>1. Len(s) = Len(r) + 1 /\ \A i \in 1..Len(r) : s[i] = r[i]  BY <1>3, <1>4
    <2>2. Len(t) = Len(r) + 1 /\ \A i \in 1..Len(r) : t[i] = r[i]
      BY <1>1, <1>2, <1>3, <1>4
    <2>3. Cardinality(Held(s, l)) = Cardinality(Held(r, l)) + Weight(s[Len(s)], l)
      BY <1>3, <2>1, HeldSplit
    <2>4. Cardinality(Held(t, l)) = Cardinality(Held(r, l)) + Weight(t[Len(t)], l)
      BY <1>1, <1>3, <2>2, HeldSplit
    <2>5. t[Len(t)] = f  BY <1>1, <1>2, <1>4
    <2>6. Weight(f, l) \in Nat /\ Weight(s[Len(s)], l) \in Nat  BY DEF Weight
    <2>7. Cardinality(Held(r, l)) \in Nat  BY <1>3, HeldFinite
    <2> QED BY <2>3, <2>4, <2>5, <2>6, <2>7
  <1> QED BY <1>1, <1>2, <1>5 DEF t

LEMMA Entered ==
  ASSUME NEW s \in Seq(Frame), NEW f \in Frame
  PROVE  /\ Append(s, f) \in Seq(Frame) /\ Len(Append(s, f)) = Len(s) + 1
         /\ \A i \in 1..Len(s) + 1 : Append(s, f)[i] = IF i = Len(s) + 1 THEN f ELSE s[i]
         /\ \A l : Cardinality(Held(Append(s, f), l)) = Cardinality(Held(s, l)) + Weight(f, l)
  <1> DEFINE t == Append(s, f)
  <1>1. t \in Seq(Frame) /\ Len(t) = Len(s) + 1  OBVIOUS
  <1>2. \A i \in 1..Len(s) + 1 : t[i] = IF i = Len(s) + 1 THEN f ELSE s[i]  OBVIOUS
  <1>3. Len(s) \in Nat  OBVIOUS
  <1> HIDE DEF t
  <1>4. ASSUME NEW l
        PROVE  Cardinality(Held(t, l)) = Cardinality(Held(s, l)) + Weight(f, l)
    <2>1. \A i \in 1..Len(s) : t[i] = s[i]  BY <1>2, <1>3
    <2>2. t[Len(t)] = f  BY <1>1, <1>2, <1>3
    <2> QED BY <1>1, <2>1, <2>2, HeldSplit
  <1> QED BY <1>1, <1>2, <1>4 DEF t

LEMMA Left ==
  ASSUME NEW s \in Seq(Frame), s # <<>>
  PROVE  LET t == SubSeq(s, 1, Len(s) - 1) IN
           /\ t \in Seq(Frame) /\ Len(t) = Len(s) - 1
           /\ \A i \in 1..Len(s) - 1 : t[i] = s[i]
           /\ \A l : Cardinality(Held(t, l)) + Weight(s[Len(s)], l) = Cardinality(Held(s, l))
  <1> DEFINE t == SubSeq(s, 1, Len(s) - 1)
  <1>1. t \in Seq(Frame) /\ Len(t) = Len(s) - 1 /\ \A i \in 1..Len(s) - 1 : t[i] = s[i]
    BY WithoutLast
  <1>2. Len(s) \in Nat \ {0}  OBVIOUS
  <1> HIDE DEF t
  <1>3. Len(s) = Len(t) + 1 /\ \A i \in 1..Len(t) : s[i] = t[i]  BY <1>1, <1>2
  <1>4. \A l : Cardinality(Held(t, l)) + Weight(s[Len(s)], l) = Cardinality(Held(s, l))
    BY <1>1, <1>3, HeldSplit
  <1> QED BY <1>1, <1>4 DEF t

-----------------------------------------------------------------------------
(* What a frame weighs where it is *)

GuardWeight(op, l) == IF op \in EventOps \cup StreamOps /\ Guard(op) = l THEN 1 ELSE 0

LEMMA NamesAre ==
  /\ Main \in Actors /\ Audio \in Actors /\ None \notin Actors /\ Main # Audio
  /\ \A op : Guard(op) \in {"events", "streams"} /\ CallMutex(op) \in {"mainCall", "audioCall"}
  /\ \A op : Guard(op) \in Locks /\ CallMutex(op) \in Locks
  BY HostAssumption DEF Actors, Guard, CallMutex, Locks, HostLocks

LEMMA PlacesAre ==
  "wasm" \in InCall /\ "pool" \in InCall /\ InCall \cap {"lock", "call", "leave"} = {}
  BY DEF InCall

LEMMA FrameWeight ==
  ASSUME NEW f \in Frame, NEW l \in Locks
  PROVE  /\ f.at = "lock" => Weight(f, l) = 0
         /\ f.at \in {"call", "leave"} => Weight(f, l) = GuardWeight(f.op, l)
         /\ f.at \in InCall =>
              Weight(f, l) = GuardWeight(f.op, l) + IF CallMutex(f.op) = l THEN 1 ELSE 0
  BY DEF Weight, Holds, GuardWeight, Guard, CallMutex, Frame, InCall

LEMMA GuardWeightIs ==
  ASSUME NEW op, NEW l
  PROVE  /\ GuardWeight(op, l) \in Nat
         /\ op \notin EventOps \cup StreamOps => GuardWeight(op, l) = 0
  BY DEF GuardWeight

-----------------------------------------------------------------------------
(* A mutex taken once more and given up once less stays balanced *)

LocksOrdered == \A l \in Locks : locks[l].owner = None <=> locks[l].depth = 0

Count(b, l) == Cardinality(Held(stack[b], l))

LEMMA CountsAre ==
  ASSUME IInv, NEW b \in Actors, NEW l \in Locks
  PROVE  /\ Count(b, l) = IF locks[l].owner = b THEN locks[l].depth ELSE 0
         /\ Count(b, l) \in Nat
         /\ locks[l] \in [owner : Actors \cup {None}, depth : Nat]
         /\ locks[l].owner = None <=> locks[l].depth = 0
  <1>1. stack[b] \in Seq(Frame)  BY DEF IInv, TypeOK
  <1>2. Count(b, l) \in Nat  BY <1>1, HeldFinite DEF Count
  <1>3. Count(b, l) = IF locks[l].owner = b THEN locks[l].depth ELSE 0
    BY HoldingIsHeld DEF IInv, LocksBalanced, Count
  <1> QED BY <1>2, <1>3 DEF IInv, TypeOK, InOrder

LEMMA BalancedNext ==
  ASSUME \A b \in Actors, l \in Locks : Count(b, l)' = IF locks'[l].owner = b THEN locks'[l].depth ELSE 0
  PROVE  LocksBalanced'
  <1>1. \A b \in Actors, l \in Locks : Holding(b, l)' = Held(stack'[b], l)
    BY DEF Holding, Held, Holds, CallMutex
  <1> QED BY <1>1 DEF LocksBalanced, Count, Held, Holds, CallMutex

LEMMA SameBalance ==
  ASSUME IInv, locks' = locks,
         \A b \in Actors, l \in Locks : Count(b, l)' = Count(b, l)
  PROVE  LocksBalanced' /\ LocksOrdered' /\ locks' \in [Locks -> [owner : Actors \cup {None}, depth : Nat]]
  <1>1. \A b \in Actors, l \in Locks : Count(b, l)' = IF locks'[l].owner = b THEN locks'[l].depth ELSE 0
    BY CountsAre
  <1>2. LocksBalanced'  BY <1>1, BalancedNext
  <1> QED BY <1>2 DEF IInv, TypeOK, InOrder, LocksOrdered

LEMMA LockBalance ==
  ASSUME IInv, NEW a \in Actors, NEW k \in Locks, CanLock(a, k), Lock(a, k),
         \A b \in Actors, l \in Locks :
           Count(b, l)' = Count(b, l) + IF b = a /\ l = k THEN 1 ELSE 0
  PROVE  /\ LocksBalanced' /\ LocksOrdered'
         /\ locks' \in [Locks -> [owner : Actors \cup {None}, depth : Nat]]
         /\ locks'[k].owner = a /\ \A l \in Locks \ {k} : locks'[l] = locks[l]
  <1>1. locks[k] \in [owner : Actors \cup {None}, depth : Nat]  BY DEF IInv, TypeOK
  <1>2. /\ locks'[k] = [owner |-> a, depth |-> locks[k].depth + 1]
        /\ \A l \in Locks \ {k} : locks'[l] = locks[l]
    BY DEF Lock, IInv, TypeOK
  <1>3. locks' \in [Locks -> [owner : Actors \cup {None}, depth : Nat]]
    <2>1. [owner |-> a, depth |-> locks[k].depth + 1] \in [owner : Actors \cup {None}, depth : Nat]
      BY <1>1
    <2> QED BY <2>1 DEF Lock, IInv, TypeOK
  <1>4. ASSUME NEW b \in Actors, NEW l \in Locks
        PROVE  Count(b, l)' = IF locks'[l].owner = b THEN locks'[l].depth ELSE 0
    <2>1. Count(b, l)' = Count(b, l) + IF b = a /\ l = k THEN 1 ELSE 0  OBVIOUS
    <2>2. Count(b, l) = IF locks[l].owner = b THEN locks[l].depth ELSE 0  BY CountsAre
    <2>3. Count(b, l) \in Nat  BY CountsAre
    <2>4. CASE l = k /\ b = a
      <3>1. locks[k].owner = a \/ (locks[k].owner = None /\ locks[k].depth = 0)
        BY CountsAre DEF CanLock
      <3>2. locks[k].owner = None => Count(b, l) = 0  BY <2>2, <2>4, NamesAre
      <3>3. Count(b, l) = locks[k].depth  BY <2>2, <2>4, <3>1, <3>2
      <3> QED BY <1>2, <2>1, <2>4, <3>3
    <2>5. CASE l = k /\ b # a
      <3>1. Count(b, l) = 0  BY <2>2, <2>5, NamesAre DEF CanLock
      <3> QED BY <1>2, <2>1, <2>5, <3>1
    <2>6. CASE l # k  BY <1>2, <2>1, <2>2, <2>3, <2>6
    <2> QED BY <2>4, <2>5, <2>6
  <1>5. LocksBalanced'  BY <1>4, BalancedNext
  <1>6. LocksOrdered'
    <2>1. \A l \in Locks \ {k} : locks'[l].owner = None <=> locks'[l].depth = 0
      BY <1>2, CountsAre
    <2>2. locks'[k].owner # None /\ locks'[k].depth # 0  BY <1>1, <1>2, NamesAre
    <2> QED BY <2>1, <2>2 DEF LocksOrdered
  <1> QED BY <1>2, <1>3, <1>5, <1>6

LEMMA UnlockBalance ==
  ASSUME IInv, NEW a \in Actors, NEW k \in Locks, Unlock(k),
         \A b \in Actors, l \in Locks :
           Count(b, l)' + (IF b = a /\ l = k THEN 1 ELSE 0) = Count(b, l),
         \A b \in Actors, l \in Locks : Count(b, l)' \in Nat
  PROVE  /\ LocksBalanced' /\ LocksOrdered'
         /\ locks' \in [Locks -> [owner : Actors \cup {None}, depth : Nat]]
         /\ \A l \in Locks \ {k} : locks'[l] = locks[l]
  <1>1. locks[k] \in [owner : Actors \cup {None}, depth : Nat]  BY DEF IInv, TypeOK
  <1>2. Count(a, k) = Count(a, k)' + 1  OBVIOUS
  <1>3. locks[k].owner = a /\ locks[k].depth = Count(a, k) /\ locks[k].depth \in Nat \ {0}
    <2>1. Count(a, k) \in Nat \ {0}  BY <1>2
    <2> QED BY <2>1, CountsAre
  <1> DEFINE e == IF locks[k].depth = 1 THEN [owner |-> None, depth |-> 0]
                                        ELSE [owner |-> locks[k].owner, depth |-> locks[k].depth - 1]
  <1>4. e \in [owner : Actors \cup {None}, depth : Nat]  BY <1>1, <1>3
  <1>5. e.owner = (IF locks[k].depth = 1 THEN None ELSE a) /\ e.depth = locks[k].depth - 1
    BY <1>1, <1>3
  <1>6. locks' = [locks EXCEPT ![k] = e]  BY DEF Unlock
  <1> HIDE DEF e
  <1>7. locks'[k] = e /\ \A l \in Locks \ {k} : locks'[l] = locks[l]
    BY <1>6 DEF IInv, TypeOK
  <1>8. locks' \in [Locks -> [owner : Actors \cup {None}, depth : Nat]]
    BY <1>4, <1>6 DEF IInv, TypeOK
  <1>9. ASSUME NEW b \in Actors, NEW l \in Locks
        PROVE  Count(b, l)' = IF locks'[l].owner = b THEN locks'[l].depth ELSE 0
    <2>1. Count(b, l)' + (IF b = a /\ l = k THEN 1 ELSE 0) = Count(b, l)  OBVIOUS
    <2>2. Count(b, l) = IF locks[l].owner = b THEN locks[l].depth ELSE 0  BY CountsAre
    <2>3. Count(b, l) \in Nat /\ Count(b, l)' \in Nat  BY CountsAre
    <2>4. CASE l = k /\ b = a
      <3>1. Count(b, l)' = locks[k].depth - 1  BY <1>2, <1>3, <2>3, <2>4
      <3>2. locks[k].depth = 1 => Count(b, l)' = 0  BY <3>1
      <3> QED BY <1>5, <1>7, <2>4, <3>1, <3>2
    <2>5. CASE l = k /\ b # a
      <3>1. Count(b, l) = 0  BY <1>3, <2>2, <2>5
      <3>2. Count(b, l)' = 0  BY <2>1, <2>3, <2>5, <3>1
      <3> QED BY <1>5, <1>7, <2>5, <3>2, NamesAre
    <2>6. CASE l # k  BY <1>7, <2>1, <2>2, <2>3, <2>6
    <2> QED BY <2>4, <2>5, <2>6
  <1>10. LocksBalanced'  BY <1>9, BalancedNext
  <1>11. LocksOrdered'
    <2>1. \A l \in Locks \ {k} : locks'[l].owner = None <=> locks'[l].depth = 0
      BY <1>7, CountsAre
    <2>2. locks'[k].owner = None <=> locks'[k].depth = 0  BY <1>3, <1>5, <1>7, NamesAre
    <2> QED BY <2>1, <2>2 DEF LocksOrdered
  <1> QED BY <1>7, <1>8, <1>10, <1>11

-----------------------------------------------------------------------------
(* What a step does to the stacks *)

StacksInOrder ==
  /\ stack \in [Actors -> Seq(Frame)]
  /\ \A b \in Actors : Len(stack[b]) <= IF b = Main THEN MaxDepth ELSE 1
  /\ \A b \in Actors : \A i \in 1..Len(stack[b]) :
       stack[b][i].at = "lock" => stack[b][i].op \in EventOps \cup StreamOps

LEMMA InnermostIs ==
  ASSUME IInv, NEW a \in Actors, ~Idle(a)
  PROVE  /\ stack[a] \in Seq(Frame) /\ stack[a] # <<>> /\ Len(stack[a]) \in Nat \ {0}
         /\ Top(a) \in Frame /\ Top(a) = stack[a][Len(stack[a])]
         /\ Top(a).at = "lock" => Top(a).op \in EventOps \cup StreamOps
  <1>1. stack[a] \in Seq(Frame) /\ stack[a] # <<>>  BY DEF IInv, TypeOK, Idle
  <1>2. Len(stack[a]) \in Nat \ {0}  BY <1>1
  <1>3. Top(a) \in Frame  BY <1>1, <1>2 DEF Top
  <1>4. Top(a).at = "lock" => Top(a).op \in EventOps \cup StreamOps
    BY <1>2 DEF IInv, InOrder, Top
  <1> QED BY <1>1, <1>2, <1>3, <1>4 DEF Top

\* The stack of a becomes t, which weighs w[l] in place of v[l] for each mutex l.
LEMMA OneStack ==
  ASSUME IInv, NEW a \in Actors, NEW t \in Seq(Frame), stack' = [stack EXCEPT ![a] = t],
         Len(t) <= IF a = Main THEN MaxDepth ELSE 1,
         \A i \in 1..Len(t) : t[i].at = "lock" => t[i].op \in EventOps \cup StreamOps
  PROVE  /\ StacksInOrder'
         /\ \A b \in Actors, l \in Locks : Count(b, l)' \in Nat
         /\ \A b \in Actors \ {a}, l \in Locks : Count(b, l)' = Count(b, l)
         /\ \A l \in Locks : Count(a, l)' = Cardinality(Held(t, l))
         /\ \A b \in Actors \ {a} : stack'[b] = stack[b]
         /\ stack'[a] = t
  <1>1. stack'[a] = t /\ \A b \in Actors \ {a} : stack'[b] = stack[b]
    BY DEF IInv, TypeOK
  <1>2. stack' \in [Actors -> Seq(Frame)]  BY DEF IInv, TypeOK
  <1>3. \A b \in Actors, l \in Locks : Count(b, l)' = Cardinality(Held(stack'[b], l))
    BY DEF Count, Held, Holds, CallMutex
  <1>4. \A b \in Actors, l \in Locks : Count(b, l)' \in Nat
    <2> TAKE b \in Actors, l \in Locks
    <2>1. stack'[b] \in Seq(Frame)  BY <1>2
    <2>2. Cardinality(Held(stack'[b], l)) \in Nat  BY <2>1, HeldFinite
    <2> QED BY <1>3, <2>2
  <1>5. \A b \in Actors \ {a}, l \in Locks : Count(b, l)' = Count(b, l)
    BY <1>1, <1>3 DEF Count
  <1>6. StacksInOrder'
    <2>1. \A b \in Actors : Len(stack'[b]) <= IF b = Main THEN MaxDepth ELSE 1
      BY <1>1 DEF IInv, InOrder
    <2>2. \A b \in Actors : \A i \in 1..Len(stack'[b]) :
            stack'[b][i].at = "lock" => stack'[b][i].op \in EventOps \cup StreamOps
      BY <1>1 DEF IInv, InOrder
    <2> QED BY <1>2, <2>1, <2>2 DEF StacksInOrder
  <1> QED BY <1>1, <1>3, <1>4, <1>5, <1>6

\* The innermost frame of a moves on.
LEMMA Moves ==
  ASSUME IInv, NEW a \in Actors, ~Idle(a), NEW g \in Frame, g.op = Top(a).op, g.at # "lock",
         stack' = [stack EXCEPT ![a] = [stack[a] EXCEPT ![Len(stack[a])] = g]]
  PROVE  /\ StacksInOrder'
         /\ \A b \in Actors, l \in Locks : Count(b, l)' \in Nat
         /\ \A b \in Actors, op \in Ops : Running(b, op) => Running(b, op)'
         /\ \A b \in Actors \ {a}, l \in Locks : Count(b, l)' = Count(b, l)
         /\ \A l \in Locks : Count(a, l)' + Weight(Top(a), l) = Count(a, l) + Weight(g, l)
  <1> DEFINE s == stack[a]
             t == [s EXCEPT ![Len(s)] = g]
  <1>1. s \in Seq(Frame) /\ s # <<>> /\ Len(s) \in Nat \ {0} /\ Top(a) = s[Len(s)]
    BY InnermostIs
  <1>2. /\ t \in Seq(Frame) /\ Len(t) = Len(s)
        /\ \A i \in 1..Len(s) : t[i] = IF i = Len(s) THEN g ELSE s[i]
        /\ \A l : Cardinality(Held(t, l)) + Weight(s[Len(s)], l)
                    = Cardinality(Held(s, l)) + Weight(g, l)
    BY <1>1, Changed
  <1>3. stack' = [stack EXCEPT ![a] = t]  OBVIOUS
  <1> HIDE DEF t
  <1>4. Len(t) <= IF a = Main THEN MaxDepth ELSE 1  BY <1>2 DEF IInv, InOrder
  <1>5. \A i \in 1..Len(t) : t[i].at = "lock" => t[i].op \in EventOps \cup StreamOps
    BY <1>2 DEF IInv, InOrder
  <1>6. /\ StacksInOrder'
        /\ \A b \in Actors, l \in Locks : Count(b, l)' \in Nat
        /\ \A b \in Actors \ {a}, l \in Locks : Count(b, l)' = Count(b, l)
        /\ \A l \in Locks : Count(a, l)' = Cardinality(Held(t, l))
        /\ \A b \in Actors \ {a} : stack'[b] = stack[b]
        /\ stack'[a] = t
    BY <1>2, <1>3, <1>4, <1>5, OneStack
  <1>7. \A l \in Locks : Count(a, l)' + Weight(Top(a), l) = Count(a, l) + Weight(g, l)
    BY <1>1, <1>2, <1>6 DEF Count
  <1>8. ASSUME NEW b \in Actors, NEW op \in Ops, Running(b, op)
        PROVE  Running(b, op)'
    <2>1. PICK i \in 1..Len(stack[b]) : stack[b][i].op = op  BY <1>8 DEF Running
    <2>2. Len(stack'[b]) = Len(stack[b]) /\ stack'[b][i].op = op
      <3>1. CASE b = a  BY <1>1, <1>2, <1>6, <2>1, <3>1
      <3>2. CASE b # a  BY <1>6, <2>1, <3>2
      <3> QED BY <3>1, <3>2
    <2> QED BY <2>1, <2>2 DEF Running
  <1> QED BY <1>6, <1>7, <1>8

\* A call is entered on top of s, the stack of a but for callbacks counted.
LEMMA Pushes ==
  ASSUME IInv, NEW a \in Actors, NEW s \in Seq(Frame), Len(s) = Len(stack[a]),
         \A i \in 1..Len(s) : s[i].op = stack[a][i].op /\ s[i].at = stack[a][i].at,
         \A l \in Locks : Cardinality(Held(s, l)) = Count(a, l),
         Len(s) < IF a = Main THEN MaxDepth ELSE 1,
         NEW op \in Ops, NEW f \in Frame, f.op = op,
         f.at = IF op \in EventOps \cup StreamOps THEN "lock" ELSE "call",
         stack' = [stack EXCEPT ![a] = Append(s, f)]
  PROVE  /\ StacksInOrder'
         /\ \A b \in Actors, o \in Ops : Running(b, o) => Running(b, o)'
         /\ \A b \in Actors, l \in Locks : Count(b, l)' = Count(b, l)
  <1> DEFINE t == Append(s, f)
  <1>1. Len(s) \in Nat  OBVIOUS
  <1>2. /\ t \in Seq(Frame) /\ Len(t) = Len(s) + 1
        /\ \A i \in 1..Len(s) + 1 : t[i] = IF i = Len(s) + 1 THEN f ELSE s[i]
        /\ \A l : Cardinality(Held(t, l)) = Cardinality(Held(s, l)) + Weight(f, l)
    BY Entered
  <1> HIDE DEF t
  <1>3. \A l \in Locks : Weight(f, l) = 0
    <2>1. CASE op \in EventOps \cup StreamOps  BY <2>1, FrameWeight
    <2>2. CASE op \notin EventOps \cup StreamOps  BY <2>2, FrameWeight, GuardWeightIs
    <2> QED BY <2>1, <2>2
  <1>4. \A l \in Locks : Cardinality(Held(t, l)) = Count(a, l)
    <2> TAKE l \in Locks
    <2>1. Count(a, l) \in Nat  BY CountsAre
    <2> QED BY <1>2, <1>3, <2>1
  <1>5. Len(t) <= IF a = Main THEN MaxDepth ELSE 1
    <2>1. MaxDepth \in Nat  BY BoundAssumption
    <2> QED BY <1>1, <1>2, <2>1
  <1>6. \A i \in 1..Len(t) : t[i].at = "lock" => t[i].op \in EventOps \cup StreamOps
    <2>1. \A i \in 1..Len(s) : s[i].at = "lock" => s[i].op \in EventOps \cup StreamOps
      BY DEF IInv, InOrder
    <2>2. f.at = "lock" => f.op \in EventOps \cup StreamOps  OBVIOUS
    <2> QED BY ONLY <1>1, <1>2, <2>1, <2>2
  <1>7. stack' = [stack EXCEPT ![a] = t]  BY DEF t
  <1>8. /\ StacksInOrder'
        /\ \A b \in Actors \ {a}, l \in Locks : Count(b, l)' = Count(b, l)
        /\ \A l \in Locks : Count(a, l)' = Cardinality(Held(t, l))
        /\ \A b \in Actors \ {a} : stack'[b] = stack[b]
        /\ stack'[a] = t
    <2>1. t \in Seq(Frame)  BY <1>2
    <2> QED BY ONLY IInv, <1>5, <1>6, <1>7, <2>1, OneStack
  <1>9. ASSUME NEW b \in Actors, NEW o \in Ops, Running(b, o)
        PROVE  Running(b, o)'
    <2>1. PICK i \in 1..Len(stack[b]) : stack[b][i].op = o  BY <1>9 DEF Running
    <2>2. i \in 1..Len(stack'[b]) /\ stack'[b][i].op = o
      <3>1. CASE b = a
        <4>1. i \in 1..Len(s) /\ i \in 1..Len(s) + 1 /\ i # Len(s) + 1  BY <1>1, <2>1, <3>1
        <4>2. t[i] = s[i]  BY <1>2, <4>1
        <4> QED BY <1>2, <1>8, <2>1, <3>1, <4>1, <4>2
      <3>2. CASE b # a  BY <1>8, <2>1, <3>2
      <3> QED BY <3>1, <3>2
    <2> QED BY <2>2 DEF Running
  <1> QED BY <1>4, <1>8, <1>9

\* The innermost frame of a is left.
LEMMA Pops ==
  ASSUME IInv, NEW a \in Actors, ~Idle(a),
         stack' = [stack EXCEPT ![a] = SubSeq(stack[a], 1, Len(stack[a]) - 1)]
  PROVE  /\ StacksInOrder'
         /\ \A b \in Actors, l \in Locks : Count(b, l)' \in Nat
         /\ \A b \in Actors, op \in Ops :
              Running(b, op) /\ Top(a).op # op => Running(b, op)'
         /\ \A b \in Actors \ {a}, l \in Locks : Count(b, l)' = Count(b, l)
         /\ \A l \in Locks : Count(a, l)' + Weight(Top(a), l) = Count(a, l)
  <1> DEFINE s == stack[a]
             t == SubSeq(s, 1, Len(s) - 1)
  <1>1. s \in Seq(Frame) /\ s # <<>> /\ Len(s) \in Nat \ {0} /\ Top(a) = s[Len(s)]
    BY InnermostIs
  <1>2. /\ t \in Seq(Frame) /\ Len(t) = Len(s) - 1
        /\ \A i \in 1..Len(s) - 1 : t[i] = s[i]
        /\ \A l : Cardinality(Held(t, l)) + Weight(s[Len(s)], l) = Cardinality(Held(s, l))
    BY <1>1, Left
  <1>3. stack' = [stack EXCEPT ![a] = t]  OBVIOUS
  <1> HIDE DEF t
  <1>4. Len(t) <= IF a = Main THEN MaxDepth ELSE 1
    <2>1. Len(s) <= IF a = Main THEN MaxDepth ELSE 1  BY DEF IInv, InOrder
    <2> QED BY <1>1, <1>2, <2>1, BoundAssumption
  <1>5. \A i \in 1..Len(t) : t[i].at = "lock" => t[i].op \in EventOps \cup StreamOps
    BY <1>1, <1>2 DEF IInv, InOrder
  <1>6. /\ StacksInOrder'
        /\ \A b \in Actors, l \in Locks : Count(b, l)' \in Nat
        /\ \A b \in Actors \ {a}, l \in Locks : Count(b, l)' = Count(b, l)
        /\ \A l \in Locks : Count(a, l)' = Cardinality(Held(t, l))
        /\ \A b \in Actors \ {a} : stack'[b] = stack[b]
        /\ stack'[a] = t
    BY <1>2, <1>3, <1>4, <1>5, OneStack
  <1>7. \A l \in Locks : Count(a, l)' + Weight(Top(a), l) = Count(a, l)
    BY <1>1, <1>2, <1>6 DEF Count
  <1>8. ASSUME NEW b \in Actors, NEW op \in Ops, Running(b, op), Top(a).op # op
        PROVE  Running(b, op)'
    <2>1. PICK i \in 1..Len(stack[b]) : stack[b][i].op = op  BY <1>8 DEF Running
    <2>2. i \in 1..Len(stack'[b]) /\ stack'[b][i].op = op
      <3>1. CASE b = a
        <4>1. i # Len(s)  BY <1>1, <1>8, <2>1, <3>1
        <4>2. i \in 1..Len(s) - 1  BY <1>1, <2>1, <3>1, <4>1
        <4> QED BY <1>2, <1>6, <2>1, <3>1, <4>2
      <3>2. CASE b # a  BY <1>6, <2>1, <3>2
      <3> QED BY <3>1, <3>2
    <2> QED BY <2>2 DEF Running
  <1> QED BY <1>6, <1>7, <1>8

-----------------------------------------------------------------------------
(* The invariant *)

Published ==
  /\ outEvents \in Actors \cup {None} /\ ostream \in 0..MaxDepth
  /\ phase \in {"inactive", "active", "processing"}
  /\ pending \in 0..Cardinality(Workers) /\ hasError \in BOOLEAN

LocksKept ==
  /\ LocksBalanced /\ LocksOrdered
  /\ locks \in [Locks -> [owner : Actors \cup {None}, depth : Nat]]

LEMMA IInvIs == IInv <=> StacksInOrder /\ LocksKept /\ Published /\ OutEventsAreLive
  BY DEF IInv, TypeOK, InOrder, StacksInOrder, LocksKept, LocksOrdered, Published

LEMMA IInvNext ==
  ASSUME StacksInOrder', LocksKept', Published', OutEventsAreLive'
  PROVE  IInv'
  BY DEF IInv, TypeOK, InOrder, StacksInOrder, LocksKept, LocksOrdered, Published

LEMMA FrameIs ==
  \A op \in Ops, at \in {"lock", "call", "leave"} \cup InCall, c \in 0..MaxCallbacks :
    /\ [op |-> op, at |-> at, callbacks |-> c] \in Frame
    /\ [op |-> op, at |-> at, callbacks |-> c].op = op
    /\ [op |-> op, at |-> at, callbacks |-> c].at = at
  BY DEF Frame

\* Output events stay live while their mutex keeps its owner and methods stay in.
LEMMA StillLive ==
  ASSUME IInv, outEvents' = outEvents,
         outEvents # None => locks'["events"].owner = locks["events"].owner,
         \A op \in {"process", "flush"} :
           outEvents # None /\ Running(outEvents, op) => Running(outEvents, op)'
  PROVE  OutEventsAreLive'
  BY DEF IInv, OutEventsAreLive, Running

LEMMA OpsAre == "process" \in Ops /\ "flush" \in Ops /\ EventOps = {"process", "flush"}
  BY DEF Ops, EventOps

LEMMA GotoFrame ==
  ASSUME IInv, NEW a \in Actors, ~Idle(a), NEW at \in {"call", "leave"} \cup InCall, Goto(a, at)
  PROVE  \E g \in Frame :
           /\ g.op = Top(a).op /\ g.at = at
           /\ stack' = [stack EXCEPT ![a] = [stack[a] EXCEPT ![Len(stack[a])] = g]]
  <1> DEFINE g == [Top(a) EXCEPT !.at = at]
  <1>1. Top(a) \in Frame  BY InnermostIs
  <1>2. g \in Frame /\ g.op = Top(a).op /\ g.at = at  BY <1>1 DEF Frame
  <1>3. stack' = [stack EXCEPT ![a] = [stack[a] EXCEPT ![Len(stack[a])] = g]]
    BY DEF Goto, Top, IInv, TypeOK
  <1> QED BY <1>2, <1>3

LEMMA InitIInv == Init => IInv
  <1> SUFFICES ASSUME Init PROVE IInv  OBVIOUS
  <1> USE DEF Init
  <1>1. \A a \in Actors : stack[a] = <<>> /\ Len(stack[a]) = 0  OBVIOUS
  <1>2. StacksInOrder
    <2>1. stack \in [Actors -> Seq(Frame)]  OBVIOUS
    <2>2. MaxDepth >= 0  BY BoundAssumption
    <2> QED BY <1>1, <2>1, <2>2 DEF StacksInOrder
  <1>3. LocksBalanced
    <2> SUFFICES ASSUME NEW l \in Locks, NEW a \in Actors
                 PROVE  Cardinality(Holding(a, l)) = IF locks[l].owner = a THEN locks[l].depth ELSE 0
      BY DEF LocksBalanced
    <2>1. Holding(a, l) = {}  BY <1>1 DEF Holding
    <2>2. Cardinality(Holding(a, l)) = 0  BY <2>1, FS_EmptySet
    <2> QED BY <2>2, NamesAre
  <1>4. LocksKept
    <2>1. \A l \in Locks : locks[l] = [owner |-> None, depth |-> 0]  OBVIOUS
    <2> QED BY <1>3, <2>1 DEF LocksKept, LocksOrdered
  <1>5. Published
    <2>1. Cardinality(Workers) \in Nat  BY HostAssumption, FS_CardinalityType
    <2>2. 0 \in 0..Cardinality(Workers) /\ 0 \in 0..MaxDepth  BY <2>1, BoundAssumption
    <2>3. hasError \in BOOLEAN  OBVIOUS
    <2> QED BY <2>2, <2>3 DEF Published
  <1>6. OutEventsAreLive  BY DEF OutEventsAreLive
  <1> QED BY <1>2, <1>4, <1>5, <1>6, IInvIs

\* Of the host's calls only a pool task takes something: a task that waited.
LEMMA TaskWaits ==
  ASSUME NEW a \in Actors, MayEnter(a, "exec")
  PROVE  pending > 0
  BY HostAssumption DEF MayEnter, Actors

LEMMA HostCallsIInv ==
  ASSUME IInv, NEW a \in Actors, NEW op \in Ops, HostCalls(a, op)
  PROVE  IInv'
  <1> USE DEF HostCalls
  <1> DEFINE at == IF op \in EventOps \cup StreamOps THEN "lock" ELSE "call"
             f == [op |-> op, at |-> at, callbacks |-> MaxCallbacks]
  <1>1. f \in Frame /\ f.op = op /\ f.at = at
    <2>1. MaxCallbacks \in 0..MaxCallbacks  BY BoundAssumption
    <2> QED BY <2>1, FrameIs
  <1>2. stack[a] \in Seq(Frame) /\ Len(stack[a]) = 0  BY DEF IInv, TypeOK, Idle
  <1>3. stack' = [stack EXCEPT ![a] = Append(stack[a], f)]  BY DEF Enter, IInv, TypeOK
  <1> HIDE DEF f
  <1>4. Len(stack[a]) < IF a = Main THEN MaxDepth ELSE 1  BY <1>2, BoundAssumption
  <1>5. \A l \in Locks : Cardinality(Held(stack[a], l)) = Count(a, l)  BY DEF Count
  <1>6. /\ StacksInOrder'
        /\ \A b \in Actors, o \in Ops : Running(b, o) => Running(b, o)'
        /\ \A b \in Actors, l \in Locks : Count(b, l)' = Count(b, l)
    BY <1>1, <1>2, <1>3, <1>4, <1>5, Pushes
  <1>7. LocksKept'  BY <1>6, SameBalance DEF LocksKept
  <1>8. Published'
    <2>1. Cardinality(Workers) \in Nat  BY HostAssumption, FS_CardinalityType
    <2>2. op = "exec" => pending > 0  BY TaskWaits
    <2> QED BY <2>1, <2>2 DEF IInv, TypeOK, Published
  <1>9. OutEventsAreLive'
    <2>1. outEvents # None => outEvents \in Actors  BY DEF IInv, TypeOK
    <2> QED BY <1>6, <2>1, OpsAre, StillLive
  <1> QED BY <1>6, <1>7, <1>8, <1>9, IInvNext

LEMMA HostReentersIInv ==
  ASSUME IInv, NEW op \in Ops, HostReenters(op)
  PROVE  IInv'
  <1> USE DEF HostReenters
  <1> DEFINE s == stack[Main]
             n == Len(s)
             g == [Top(Main) EXCEPT !.callbacks = @ - 1]
             r == [s EXCEPT ![n] = g]
             at == IF op \in EventOps \cup StreamOps THEN "lock" ELSE "call"
             f == [op |-> op, at |-> at, callbacks |-> MaxCallbacks]
  <1>1. f \in Frame /\ f.op = op /\ f.at = at
    <2>1. MaxCallbacks \in 0..MaxCallbacks  BY BoundAssumption
    <2> QED BY <2>1, FrameIs
  <1>2. ~Idle(Main) /\ Main \in Actors  BY NamesAre DEF At
  <1>3. /\ s \in Seq(Frame) /\ s # <<>> /\ n \in Nat \ {0}
        /\ Top(Main) \in Frame /\ Top(Main) = s[n]
    BY <1>2, InnermostIs
  <1>4. g \in Frame /\ g.op = Top(Main).op /\ g.at = Top(Main).at
    <2>1. Top(Main).callbacks \in 0..MaxCallbacks /\ Top(Main).callbacks > 0
      BY <1>3 DEF Frame
    <2>2. Top(Main).callbacks - 1 \in 0..MaxCallbacks  BY <2>1, BoundAssumption
    <2> QED BY <1>3, <2>2 DEF Frame
  <1>5. stack' = [stack EXCEPT ![Main] = Append(r, f)]
    <2>1. r = [s EXCEPT ![n].callbacks = @ - 1]  BY <1>3 DEF Top
    <2> QED BY <1>2, <2>1 DEF IInv, TypeOK
  <1> HIDE DEF f, g
  <1>6. /\ r \in Seq(Frame) /\ Len(r) = n
        /\ \A i \in 1..n : r[i] = IF i = n THEN g ELSE s[i]
        /\ \A l : Cardinality(Held(r, l)) + Weight(s[n], l) = Cardinality(Held(s, l)) + Weight(g, l)
    BY <1>3, <1>4, Changed
  <1> HIDE DEF r
  <1>7. \A l \in Locks : Cardinality(Held(r, l)) = Count(Main, l)
    <2> TAKE l \in Locks
    <2>1. Weight(g, l) = Weight(s[n], l)  BY <1>3, <1>4 DEF Weight, Holds
    <2>2. Weight(g, l) \in Nat  BY DEF Weight
    <2>3. Cardinality(Held(r, l)) \in Nat /\ Cardinality(Held(s, l)) \in Nat
      BY <1>3, <1>6, HeldFinite
    <2> QED BY <1>6, <2>1, <2>2, <2>3 DEF Count
  <1>8. \A i \in 1..Len(r) : r[i].op = s[i].op /\ r[i].at = s[i].at
    BY <1>3, <1>4, <1>6
  <1>9. Len(r) < MaxDepth /\ Len(r) = Len(stack[Main]) /\ r \in Seq(Frame)  BY <1>6
  <1>10. /\ StacksInOrder'
         /\ \A b \in Actors, o \in Ops : Running(b, o) => Running(b, o)'
         /\ \A b \in Actors, l \in Locks : Count(b, l)' = Count(b, l)
    BY ONLY IInv, <1>1, <1>2, <1>5, <1>7, <1>8, <1>9, Pushes, op \in Ops
  <1>11. LocksKept'  BY <1>10, SameBalance DEF LocksKept
  <1>12. Published'  BY DEF IInv, TypeOK, Published
  <1>13. OutEventsAreLive'
    <2>1. outEvents # None => outEvents \in Actors  BY DEF IInv, TypeOK
    <2> QED BY <1>10, <2>1, OpsAre, StillLive
  <1> QED BY <1>10, <1>11, <1>12, <1>13, IInvNext

LEMMA PublishIInv ==
  ASSUME IInv, NEW a \in Actors, Publish(a)
  PROVE  IInv'
  <1> USE DEF Publish
  <1> DEFINE k == Guard(Top(a).op)
  <1>1. ~Idle(a) /\ Top(a).at = "lock"  BY DEF At
  <1>2. Top(a) \in Frame /\ Top(a).op \in EventOps \cup StreamOps /\ Len(stack[a]) \in Nat \ {0}
    BY <1>1, InnermostIs
  <1>3. PICK g \in Frame :
          /\ g.op = Top(a).op /\ g.at = "call"
          /\ stack' = [stack EXCEPT ![a] = [stack[a] EXCEPT ![Len(stack[a])] = g]]
    BY <1>1, GotoFrame
  <1>4. /\ StacksInOrder'
        /\ \A b \in Actors, op \in Ops : Running(b, op) => Running(b, op)'
        /\ \A b \in Actors \ {a}, l \in Locks : Count(b, l)' = Count(b, l)
        /\ \A l \in Locks : Count(a, l)' + Weight(Top(a), l) = Count(a, l) + Weight(g, l)
        /\ \A b \in Actors, l \in Locks : Count(b, l)' \in Nat
    BY <1>1, <1>3, Moves
  <1>5. \A l \in Locks : Weight(Top(a), l) = 0 /\ Weight(g, l) = IF l = k THEN 1 ELSE 0
    <2> TAKE l \in Locks
    <2>1. Weight(Top(a), l) = 0 /\ Weight(g, l) = GuardWeight(g.op, l)
      BY <1>1, <1>2, <1>3, FrameWeight
    <2> QED BY <1>2, <1>3, <2>1 DEF GuardWeight
  <1>6. \A b \in Actors, l \in Locks : Count(b, l)' = Count(b, l) + IF b = a /\ l = k THEN 1 ELSE 0
    <2> TAKE b \in Actors, l \in Locks
    <2>1. Count(b, l) \in Nat  BY CountsAre
    <2> QED BY <1>4, <1>5, <2>1
  <1>7. k \in Locks  BY NamesAre
  <1>8. /\ LocksBalanced' /\ LocksOrdered'
        /\ locks' \in [Locks -> [owner : Actors \cup {None}, depth : Nat]]
        /\ locks'[k].owner = a /\ \A l \in Locks \ {k} : locks'[l] = locks[l]
    BY <1>6, <1>7, LockBalance
  <1>9. Published'
    <2>1. Len(stack[a]) <= MaxDepth  BY BoundAssumption DEF IInv, InOrder
    <2>2. Len(stack[a]) \in 0..MaxDepth  BY <1>2, <2>1, BoundAssumption
    <2> QED BY <2>2 DEF IInv, TypeOK, Published
  <1>10. OutEventsAreLive'
    <2>1. CASE Top(a).op \in EventOps
      <3>1. outEvents' = a /\ locks'["events"].owner = a  BY <1>8, <2>1 DEF Guard
      <3>2. PICK o \in {"process", "flush"} : o = Top(a).op  BY <2>1, OpsAre
      <3>3. Running(a, o)'
        <4>1. Top(a) = stack[a][Len(stack[a])]  BY <1>1, InnermostIs
        <4>2. Running(a, o)  BY <1>2, <3>2, <4>1 DEF Running
        <4>3. o \in Ops  BY OpsAre
        <4> QED BY <1>4, <4>2, <4>3
      <3>4. Running(a, "process")' \/ Running(a, "flush")'
        <4>1. CASE o = "process"  BY <3>3, <4>1 DEF Running
        <4>2. CASE o = "flush"  BY <3>3, <4>2 DEF Running
        <4> QED BY <4>1, <4>2
      <3> QED BY <3>1, <3>4 DEF OutEventsAreLive, Running
    <2>2. CASE Top(a).op \notin EventOps
      <3>1. outEvents' = outEvents /\ locks'["events"] = locks["events"]
        BY <1>8, <2>2 DEF Guard, Locks, HostLocks
      <3>2. outEvents # None => outEvents \in Actors  BY DEF IInv, TypeOK
      <3> QED BY <1>4, <3>1, <3>2, OpsAre, StillLive
    <2> QED BY <2>1, <2>2
  <1> QED BY <1>4, <1>8, <1>9, <1>10, IInvNext DEF LocksKept

\* A step that moves a method on and leaves the output events as they are.
LEMMA MoveOn ==
  ASSUME IInv, NEW a \in Actors, ~Idle(a), NEW g \in Frame, g.op = Top(a).op,
         Top(a).at # "lock", g.at # "lock",
         stack' = [stack EXCEPT ![a] = [stack[a] EXCEPT ![Len(stack[a])] = g]],
         outEvents' = outEvents, Published',
         \/ locks' = locks /\ (Top(a).at \in InCall <=> g.at \in InCall)
         \/ /\ CanLock(a, CallMutex(g.op)) /\ Lock(a, CallMutex(g.op))
            /\ Top(a).at \notin InCall /\ g.at \in InCall
         \/ /\ Unlock(CallMutex(g.op))
            /\ Top(a).at \in InCall /\ g.at \notin InCall
  PROVE  IInv'
  <1> DEFINE k == CallMutex(g.op)
             Inside(f) == f.at \in InCall
             W(f, l) == IF Inside(f) /\ l = k THEN 1 ELSE 0
  <1>1. /\ StacksInOrder'
        /\ \A b \in Actors, op \in Ops : Running(b, op) => Running(b, op)'
        /\ \A b \in Actors \ {a}, l \in Locks : Count(b, l)' = Count(b, l)
        /\ \A l \in Locks : Count(a, l)' + Weight(Top(a), l) = Count(a, l) + Weight(g, l)
        /\ \A b \in Actors, l \in Locks : Count(b, l)' \in Nat
    BY Moves
  <1>2. ASSUME NEW f \in Frame, f.op = g.op, f.at # "lock", NEW l \in Locks
        PROVE  Weight(f, l) = GuardWeight(g.op, l) + W(f, l)
    <2>1. f.at \in {"call", "leave"} \/ f.at \in InCall  BY <1>2 DEF Frame
    <2>2. GuardWeight(f.op, l) \in Nat  BY GuardWeightIs
    <2> QED BY <1>2, <2>1, <2>2, FrameWeight
  <1>3. \A l \in Locks : Count(a, l)' + W(Top(a), l) = Count(a, l) + W(g, l)
    <2> TAKE l \in Locks
    <2>1. Top(a) \in Frame  BY InnermostIs
    <2>2. /\ Weight(Top(a), l) = GuardWeight(g.op, l) + W(Top(a), l)
          /\ Weight(g, l) = GuardWeight(g.op, l) + W(g, l)
      BY <1>2, <2>1
    <2>3. GuardWeight(g.op, l) \in Nat  BY GuardWeightIs
    <2>4. Count(a, l) \in Nat /\ Count(a, l)' \in Nat  BY <1>1, CountsAre
    <2>5. Count(a, l)' + Weight(Top(a), l) = Count(a, l) + Weight(g, l)  BY <1>1
    <2> QED BY <2>2, <2>3, <2>4, <2>5
  <1>4. k \in Locks /\ k # "events"  BY NamesAre
  <1>5. \A b \in Actors, l \in Locks : Count(b, l) \in Nat  BY CountsAre
  <1>6. LocksKept' /\ (locks'["events"] = locks["events"])
    <2>0. "events" \in Locks  BY DEF Locks, HostLocks
    <2>1. CASE locks' = locks /\ (Inside(Top(a)) <=> Inside(g))
      <3>1. \A b \in Actors, l \in Locks : Count(b, l)' = Count(b, l)
        BY <1>1, <1>3, <1>5, <2>1
      <3> QED BY <2>1, <3>1, SameBalance DEF LocksKept
    <2>2. CASE CanLock(a, k) /\ Lock(a, k) /\ ~Inside(Top(a)) /\ Inside(g)
      <3>1. \A b \in Actors, l \in Locks :
              Count(b, l)' = Count(b, l) + IF b = a /\ l = k THEN 1 ELSE 0
        BY <1>1, <1>3, <1>5, <2>2
      <3> QED BY <1>4, <2>0, <2>2, <3>1, LockBalance DEF LocksKept
    <2>3. CASE Unlock(k) /\ Inside(Top(a)) /\ ~Inside(g)
      <3>1. \A b \in Actors, l \in Locks :
              Count(b, l)' + (IF b = a /\ l = k THEN 1 ELSE 0) = Count(b, l)
        BY <1>1, <1>3, <1>5, <2>3
      <3> QED BY <1>1, <1>4, <2>0, <2>3, <3>1, UnlockBalance DEF LocksKept
    <2> QED BY <2>1, <2>2, <2>3
  <1>7. OutEventsAreLive'
    <2>1. outEvents # None => outEvents \in Actors  BY DEF IInv, TypeOK
    <2> QED BY <1>1, <1>6, <2>1, OpsAre, StillLive
  <1> QED BY <1>1, <1>6, <1>7, IInvNext

LEMMA WtCallIInv ==
  ASSUME IInv, NEW a \in Actors, WtCall(a)
  PROVE  IInv'
  <1> USE DEF WtCall
  <1>1. ~Idle(a) /\ Top(a).at = "call"  BY DEF At
  <1>2. Published'  BY DEF IInv, TypeOK, Published
  <1>3. CASE hasError
    <2>1. PICK g \in Frame :
            /\ g.op = Top(a).op /\ g.at = "leave"
            /\ stack' = [stack EXCEPT ![a] = [stack[a] EXCEPT ![Len(stack[a])] = g]]
      BY <1>1, <1>3, GotoFrame
    <2> QED BY <1>1, <1>2, <1>3, <2>1, PlacesAre, MoveOn
  <1>4. CASE ~hasError
    <2>1. PICK g \in Frame :
            /\ g.op = Top(a).op /\ g.at = "wasm"
            /\ stack' = [stack EXCEPT ![a] = [stack[a] EXCEPT ![Len(stack[a])] = g]]
      BY <1>1, <1>4, PlacesAre, GotoFrame
    <2> QED BY <1>1, <1>2, <1>4, <2>1, PlacesAre, MoveOn
  <1> QED BY <1>3, <1>4

LEMMA WasmReturnsIInv ==
  ASSUME IInv, NEW a \in Actors, WasmReturns(a)
  PROVE  IInv'
  <1> USE DEF WasmReturns
  <1>1. ~Idle(a) /\ Top(a).at = "wasm"  BY DEF At
  <1>2. Published'  BY DEF IInv, TypeOK, Published
  <1>3. PICK g \in Frame :
          /\ g.op = Top(a).op /\ g.at = "leave"
          /\ stack' = [stack EXCEPT ![a] = [stack[a] EXCEPT ![Len(stack[a])] = g]]
    BY <1>1, GotoFrame
  <1> QED BY <1>1, <1>2, <1>3, PlacesAre, MoveOn

\* One callback less, wherever the frame goes.
LEMMA CallbackFrame ==
  ASSUME IInv, NEW a \in Actors, ~Idle(a), Top(a).callbacks > 0, NEW at \in {"leave"} \cup InCall
  PROVE  \E g \in Frame :
           /\ g.op = Top(a).op /\ g.at = at
           /\ g = [[Top(a) EXCEPT !.callbacks = Top(a).callbacks - 1] EXCEPT !.at = at]
  <1>1. Top(a) \in Frame  BY InnermostIs
  <1>2. Top(a).callbacks - 1 \in 0..MaxCallbacks  BY <1>1, BoundAssumption DEF Frame
  <1> QED BY <1>1, <1>2 DEF Frame

LEMMA HostFunctionIInv ==
  ASSUME IInv, NEW a \in Actors, HostFunction(a)
  PROVE  IInv'
  <1> USE DEF HostFunction
  <1> DEFINE n == Len(stack[a])
  <1>1. ~Idle(a) /\ Top(a).at = "wasm" /\ Top(a).callbacks > 0  BY DEF At
  <1>2. stack[a] \in Seq(Frame) /\ n \in 1..n /\ Top(a) = stack[a][n] /\ Top(a) \in Frame
    BY <1>1, InnermostIs
  <1>3. Published'  BY DEF IInv, TypeOK, Published
  <1>4. CASE CallMutex(Top(a).op) = "mainCall"
    <2>1. PICK g \in Frame :
            /\ g.op = Top(a).op /\ g.at = "wasm"
            /\ g = [[Top(a) EXCEPT !.callbacks = Top(a).callbacks - 1] EXCEPT !.at = "wasm"]
      BY <1>1, PlacesAre, CallbackFrame
    <2>2. g = [Top(a) EXCEPT !.callbacks = Top(a).callbacks - 1]
      BY <1>1, <1>2, <2>1 DEF Frame
    <2>3. stack' = [stack EXCEPT ![a][n].callbacks = @ - 1] /\ UNCHANGED locks
      BY <1>4
    <2>4. stack' = [stack EXCEPT ![a] = [stack[a] EXCEPT ![n] = g]]
      BY <1>2, <2>2, <2>3
    <2> QED BY <1>1, <1>3, <2>1, <2>3, <2>4, MoveOn
  <1>5. CASE CallMutex(Top(a).op) # "mainCall"
    <2>1. PICK g \in Frame :
            /\ g.op = Top(a).op /\ g.at = "leave"
            /\ g = [[Top(a) EXCEPT !.callbacks = Top(a).callbacks - 1] EXCEPT !.at = "leave"]
      BY <1>1, CallbackFrame
    <2>2. /\ stack' = [stack EXCEPT ![a][n].callbacks = @ - 1, ![a][n].at = "leave"]
          /\ Unlock("audioCall")
      BY <1>5
    <2>3. stack' = [stack EXCEPT ![a] = [stack[a] EXCEPT ![n] = g]]
      <3>1. /\ Top(a) = stack[a][n] /\ n \in 1..Len(stack[a]) /\ stack[a] \in Seq(Frame)
            /\ stack \in [Actors -> Seq(Frame)]
        BY <1>2 DEF IInv, TypeOK
      <3>2. stack' = [stack EXCEPT ![a] = [stack[a] EXCEPT
                        ![n] = [[Top(a) EXCEPT !.callbacks = Top(a).callbacks - 1] EXCEPT !.at = "leave"]]]
        BY ONLY <2>2, <3>1
      <3> QED BY ONLY <2>1, <3>2
    <2>4. CallMutex(g.op) = "audioCall"  BY <1>5, <2>1 DEF CallMutex
    <2>5. Unlock(CallMutex(g.op))  BY <2>2, <2>4
    <2> QED BY <1>1, <1>3, <2>1, <2>3, <2>5, PlacesAre, MoveOn
  <1> QED BY <1>4, <1>5

\* A host function that locks for itself: the frame goes to wait and comes back.
LEMMA HostAsksIInv ==
  ASSUME IInv, NEW a \in Actors, NEW l \in HostLocks, HostAsks(a, l)
  PROVE  IInv'
  <1> USE DEF HostAsks
  <1> DEFINE n == Len(stack[a])
  <1>1. ~Idle(a) /\ Top(a).at = "wasm" /\ Top(a).callbacks > 0  BY DEF At
  <1>2. stack[a] \in Seq(Frame) /\ n \in 1..n /\ Top(a) = stack[a][n] /\ Top(a) \in Frame
    BY <1>1, InnermostIs
  <1>3. Published'  BY DEF IInv, TypeOK, Published
  <1>4. l \in InCall  BY DEF HostLocks, InCall
  <1>5. PICK g \in Frame :
          /\ g.op = Top(a).op /\ g.at = l
          /\ g = [[Top(a) EXCEPT !.callbacks = Top(a).callbacks - 1] EXCEPT !.at = l]
    BY <1>1, <1>4, CallbackFrame
  <1>6. stack' = [stack EXCEPT ![a] = [stack[a] EXCEPT ![n] = g]]
    <2>1. /\ Top(a) = stack[a][n] /\ n \in 1..Len(stack[a]) /\ stack[a] \in Seq(Frame)
          /\ stack \in [Actors -> Seq(Frame)]
      BY <1>2 DEF IInv, TypeOK
    <2>2. stack' = [stack EXCEPT ![a][n].callbacks = @ - 1, ![a][n].at = l]  OBVIOUS
    <2>3. stack' = [stack EXCEPT ![a] = [stack[a] EXCEPT
                      ![n] = [[Top(a) EXCEPT !.callbacks = Top(a).callbacks - 1] EXCEPT !.at = l]]]
      BY ONLY <2>1, <2>2
    <2> QED BY ONLY <1>5, <2>3
  <1>7. Top(a).at \in InCall /\ g.at \in InCall /\ g.at # "lock"
    BY <1>1, <1>4, <1>5 DEF InCall
  <1> QED BY <1>1, <1>3, <1>5, <1>6, <1>7, MoveOn

LEMMA HostAnswersIInv ==
  ASSUME IInv, NEW a \in Actors, NEW l \in HostLocks, HostAnswers(a, l)
  PROVE  IInv'
  <1> USE DEF HostAnswers
  <1>1. ~Idle(a) /\ Top(a).at = l  BY DEF At
  <1>2. Published'  BY DEF IInv, TypeOK, Published
  <1>3. l \in InCall /\ "wasm" \in InCall  BY DEF HostLocks, InCall
  <1>4. PICK g \in Frame :
          /\ g.op = Top(a).op /\ g.at = "wasm"
          /\ stack' = [stack EXCEPT ![a] = [stack[a] EXCEPT ![Len(stack[a])] = g]]
    BY <1>1, <1>3, GotoFrame
  <1> QED BY <1>1, <1>2, <1>3, <1>4, PlacesAre, MoveOn

LEMMA RequestExecIInv ==
  ASSUME IInv, RequestExec
  PROVE  IInv'
  <1> USE DEF RequestExec
  <1>1. /\ ~Idle(Audio) /\ Audio \in Actors /\ Top(Audio).at = "wasm" /\ Top(Audio).callbacks > 0
    BY NamesAre DEF At
  <1>2. /\ stack[Audio] \in Seq(Frame) /\ Top(Audio) = stack[Audio][Len(stack[Audio])]
        /\ Top(Audio) \in Frame /\ Len(stack[Audio]) \in Nat \ {0}
    BY <1>1, InnermostIs
  <1>3. Len(stack[Audio]) = 1
    <2>1. \A b \in Actors : Len(stack[b]) <= IF b = Main THEN MaxDepth ELSE 1
      BY DEF IInv, InOrder
    <2>2. Audio \in Actors /\ Audio # Main  BY NamesAre
    <2>3. Len(stack[Audio]) <= 1  BY ONLY <2>1, <2>2
    <2>4. Len(stack[Audio]) \in Nat \ {0}  BY <1>2
    <2>5. \A n \in Nat \ {0} : n <= 1 => n = 1  OBVIOUS
    <2> QED BY ONLY <2>3, <2>4, <2>5
  <1>4. Published'  BY DEF IInv, TypeOK, Published
  <1>5. PICK g \in Frame :
          /\ g.op = Top(Audio).op /\ g.at = "pool"
          /\ g = [[Top(Audio) EXCEPT !.callbacks = Top(Audio).callbacks - 1] EXCEPT !.at = "pool"]
    BY <1>1, PlacesAre, CallbackFrame
  <1>6. stack' = [stack EXCEPT ![Audio][1].callbacks = @ - 1, ![Audio][1].at = "pool"]
    OBVIOUS
  <1>7. stack' = [stack EXCEPT ![Audio] = [stack[Audio] EXCEPT ![1] = g]]
    <2>1. Top(Audio) = stack[Audio][1] /\ 1 \in 1..Len(stack[Audio])  BY <1>2, <1>3
    <2>2. stack \in [Actors -> Seq(Frame)]  BY DEF IInv, TypeOK
    <2>3. stack' = [stack EXCEPT ![Audio] =
                      [[stack[Audio] EXCEPT ![1].callbacks = @ - 1] EXCEPT ![1].at = "pool"]]
      BY ONLY <1>1, <1>6, <2>2
    <2>4. [[stack[Audio] EXCEPT ![1].callbacks = @ - 1] EXCEPT ![1].at = "pool"]
            = [stack[Audio] EXCEPT ![1] = g]
      BY ONLY <1>2, <1>5, <2>1
    <2> QED BY <2>3, <2>4
  <1> QED BY <1>1, <1>3, <1>4, <1>5, <1>7, PlacesAre, MoveOn

LEMMA RequestExecReturnsIInv ==
  ASSUME IInv, RequestExecReturns
  PROVE  IInv'
  <1> USE DEF RequestExecReturns
  <1>1. ~Idle(Audio) /\ Audio \in Actors /\ Top(Audio).at = "pool"  BY NamesAre DEF At
  <1>2. Published'  BY DEF IInv, TypeOK, Published
  <1>3. PICK g \in Frame :
          /\ g.op = Top(Audio).op /\ g.at = "wasm"
          /\ stack' = [stack EXCEPT ![Audio] = [stack[Audio] EXCEPT ![Len(stack[Audio])] = g]]
    BY <1>1, PlacesAre, GotoFrame
  <1> QED BY <1>1, <1>2, <1>3, PlacesAre, MoveOn

LEMMA LeaveIInv ==
  ASSUME IInv, NEW a \in Actors, Leave(a)
  PROVE  IInv'
  <1> USE DEF Leave
  <1> DEFINE op == Top(a).op
             k == Guard(op)
             guarded == op \in EventOps \cup StreamOps
  <1>1. ~Idle(a) /\ Top(a).at = "leave"  BY DEF At
  <1>2. Top(a) \in Frame  BY <1>1, InnermostIs
  <1>3. stack' = [stack EXCEPT ![a] = SubSeq(stack[a], 1, Len(stack[a]) - 1)]  OBVIOUS
  <1>4. /\ StacksInOrder'
        /\ \A b \in Actors, l \in Locks : Count(b, l)' \in Nat
        /\ \A b \in Actors, o \in Ops : Running(b, o) /\ op # o => Running(b, o)'
        /\ \A b \in Actors \ {a}, l \in Locks : Count(b, l)' = Count(b, l)
        /\ \A l \in Locks : Count(a, l)' + Weight(Top(a), l) = Count(a, l)
    BY <1>1, <1>3, Pops
  <1>5. \A l \in Locks : Weight(Top(a), l) = GuardWeight(op, l)  BY <1>1, <1>2, FrameWeight
  <1>6. k \in Locks  BY NamesAre
  <1>7. \A b \in Actors, l \in Locks : Count(b, l) \in Nat  BY CountsAre
  <1>8. LocksKept' /\ \A l \in Locks : locks'[l] = locks[l] \/ (guarded /\ l = k)
    <2>1. CASE guarded
      <3>1. \A l \in Locks : GuardWeight(op, l) = IF l = k THEN 1 ELSE 0
        BY <2>1 DEF GuardWeight
      <3>2. \A b \in Actors, l \in Locks :
              Count(b, l)' + (IF b = a /\ l = k THEN 1 ELSE 0) = Count(b, l)
        BY <1>4, <1>5, <1>7, <3>1
      <3>3. Unlock(k)  BY <2>1
      <3> QED BY <1>4, <1>6, <2>1, <3>2, <3>3, UnlockBalance DEF LocksKept
    <2>2. CASE ~guarded
      <3>1. \A l \in Locks : GuardWeight(op, l) = 0  BY <2>2, GuardWeightIs
      <3>2. \A b \in Actors, l \in Locks : Count(b, l)' = Count(b, l)
        BY <1>4, <1>5, <1>7, <3>1
      <3>3. locks' = locks  BY <2>2
      <3> QED BY <3>2, <3>3, SameBalance DEF LocksKept
    <2> QED BY <2>1, <2>2
  <1>9. Published'
    <2>1. phase' \in {"inactive", "active", "processing"}
      BY DEF PhaseAfter, IInv, TypeOK
    <2>2. outEvents' \in Actors \cup {None}  BY DEF Unpublish, IInv, TypeOK
    <2>3. ostream' \in 0..MaxDepth  BY BoundAssumption DEF IInv, TypeOK
    <2> QED BY <2>1, <2>2, <2>3 DEF IInv, TypeOK, Published
  <1>10. OutEventsAreLive'
    <2>1. CASE op \in EventOps  BY <2>1 DEF Unpublish, OutEventsAreLive
    <2>2. CASE op \notin EventOps
      <3>1. outEvents' = outEvents  BY <2>2 DEF Unpublish
      <3>2. locks'["events"] = locks["events"]
        <4>1. "events" \in Locks  BY DEF Locks, HostLocks
        <4>2. k # "events"  BY <2>2 DEF Guard
        <4> QED BY <1>8, <4>1, <4>2
      <3>3. outEvents # None => outEvents \in Actors  BY DEF IInv, TypeOK
      <3>4. \A o \in {"process", "flush"} : o \in Ops /\ op # o  BY <2>2, OpsAre
      <3> QED BY <1>4, <3>1, <3>2, <3>3, <3>4, StillLive
    <2> QED BY <2>1, <2>2
  <1> QED BY <1>4, <1>8, <1>9, <1>10, IInvNext

LEMMA NextIInv == IInv /\ [Next]_vars => IInv'
  <1> SUFFICES ASSUME IInv, [Next]_vars PROVE IInv'  OBVIOUS
  <1>1. ASSUME NEW a \in Actors, NEW op \in Ops, HostCalls(a, op) PROVE IInv'
    BY <1>1, HostCallsIInv
  <1>2. ASSUME NEW op \in Ops, HostReenters(op) PROVE IInv'
    BY <1>2, HostReentersIInv
  <1>3. ASSUME NEW a \in Actors, Step(a) \/ HostFunction(a) PROVE IInv'
    <2>1. ASSUME NEW l \in HostLocks, HostAnswers(a, l) PROVE IInv'
      BY <2>1, HostAnswersIInv
    <2> QED BY <1>3, <2>1, PublishIInv, WtCallIInv, WasmReturnsIInv, LeaveIInv,
              HostFunctionIInv DEF Step
  <1>4. CASE RequestExec \/ RequestExecReturns
    BY <1>4, RequestExecIInv, RequestExecReturnsIInv
  <1>5. ASSUME NEW a \in Actors, NEW l \in HostLocks, HostAsks(a, l) PROVE IInv'
    BY <1>5, HostAsksIInv
  <1>6. CASE UNCHANGED vars
    <2>1. StacksInOrder' /\ Published'
      BY <1>6, IInvIs DEF vars, StacksInOrder, Published
    <2>2. \A b \in Actors, l \in Locks : Count(b, l)' = Count(b, l)
      BY <1>6 DEF vars, Count, Held, Holds, CallMutex
    <2>3. LocksKept'  BY <1>6, <2>2, SameBalance DEF vars, LocksKept
    <2>4. OutEventsAreLive'
      BY <1>6, StillLive DEF vars, Running
    <2> QED BY <2>1, <2>3, <2>4, IInvNext
  <1> QED BY <1>1, <1>2, <1>3, <1>4, <1>5, <1>6 DEF Next

-----------------------------------------------------------------------------
(* The theorems *)

\* IInv is inductive, for any pool, any nesting and any use of host functions.
THEOREM Invariance == Spec => []IInv
  <1>1. Init => IInv  BY InitIInv
  <1>2. IInv /\ [Next]_vars => IInv'  BY NextIInv
  <1> QED BY <1>1, <1>2, PTL DEF Spec

\* Every variable keeps its shape.
THEOREM TypeCorrect == Spec => []TypeOK
  <1>1. IInv => TypeOK  BY DEF IInv
  <1> QED BY <1>1, Invariance, PTL

\* Every path out of a Plugin method, traps and error returns included, gives up
\* hostEventsMutex, hostStreamsMutex and callMutex as often as it took them.
THEOREM LocksStayBalanced == Spec => []LocksBalanced
  <1>1. IInv => LocksBalanced  BY DEF IInv
  <1> QED BY <1>1, Invariance, PTL

\* hostOutputEvents belongs to a process() or flush() still on its owner's stack.
THEOREM OutEventsStayLive == Spec => []OutEventsAreLive
  <1>1. IInv => OutEventsAreLive  BY DEF IInv
  <1> QED BY <1>1, Invariance, PTL

\* No two threads are inside the same mutex, so no two of them run WASM code of one
\* Instance or use one set of host pointers.
MutualExclusion ==
  \A l \in Locks : \A a, b \in Actors :
    a # b /\ Holding(a, l) # {} => Holding(b, l) = {}

THEOREM LocksExclude == Spec => []MutualExclusion
  <1>1. IInv => MutualExclusion
    <2> SUFFICES ASSUME IInv, NEW l \in Locks, NEW a \in Actors, NEW b \in Actors, a # b,
                        Holding(a, l) # {}
                 PROVE  Holding(b, l) = {}
      BY DEF MutualExclusion
    <2>1. ASSUME NEW c \in Actors
          PROVE  /\ IsFiniteSet(Holding(c, l))
                 /\ Cardinality(Holding(c, l)) = IF locks[l].owner = c THEN locks[l].depth ELSE 0
      <3>1. stack[c] \in Seq(Frame)  BY DEF IInv, TypeOK
      <3> QED BY <3>1, HeldFinite, HoldingIsHeld DEF IInv, LocksBalanced
    <2>2. Cardinality(Holding(a, l)) # 0  BY <2>1, FS_EmptySet
    <2>3. locks[l].owner = a  BY <2>1, <2>2
    <2>4. Cardinality(Holding(b, l)) = 0  BY <2>1, <2>3
    <2> QED BY <2>1, <2>4, FS_EmptySet
  <1> QED BY <1>1, Invariance, PTL

\* A host function never waits for the mutex of a list or stream that a method on its
\* own thread was given: WASM code that uses them only inside that call is kept out
\* of LockInversion, whatever the other threads do.
OwnListNeverWaits ==
  \A a \in Actors, l \in HostLocks : At(a, l) /\ Holding(a, l) # {} => CanLock(a, l)

THEOREM OwnListsAnswer == Spec => []OwnListNeverWaits
  <1>1. IInv => OwnListNeverWaits
    <2> SUFFICES ASSUME IInv, NEW a \in Actors, NEW l \in HostLocks, Holding(a, l) # {}
                 PROVE  CanLock(a, l)
      BY DEF OwnListNeverWaits
    <2>1. l \in Locks  BY DEF Locks
    <2>2. stack[a] \in Seq(Frame)  BY DEF IInv, TypeOK
    <2>3. /\ IsFiniteSet(Holding(a, l))
          /\ Cardinality(Holding(a, l)) = IF locks[l].owner = a THEN locks[l].depth ELSE 0
      BY <2>1, <2>2, HeldFinite, HoldingIsHeld DEF IInv, LocksBalanced
    <2>4. Cardinality(Holding(a, l)) # 0  BY <2>3, FS_EmptySet
    <2> QED BY <2>3, <2>4 DEF CanLock
  <1> QED BY <1>1, Invariance, PTL
===============================================================================
