------------------------- MODULE InstanceCalls_proofs -------------------------
(***************************************************************************)
(* Type correctness of InstanceCalls, and that no call is cut short, for   *)
(* any threads, time limits and bounds.                                    *)
(***************************************************************************)
EXTENDS InstanceCalls, SequenceTheorems, TLAPS

-----------------------------------------------------------------------------
(* Arithmetic and sequences *)

\* Division rounds down, by less than one epoch.
LEMMA DivBound ==
  ASSUME NEW n \in Nat, NEW d \in Nat \ {0}
  PROVE  n \div d \in Nat /\ n < (n \div d + 1) * d
  OBVIOUS

LEMMA MulMono ==
  ASSUME NEW m \in Nat, NEW n \in Nat, NEW d \in Nat \ {0}, m <= n
  PROVE  m * d <= n * d
  OBVIOUS

LEMMA SetLast ==
  ASSUME NEW F, NEW s \in Seq(F), s # <<>>, NEW f \in F
  PROVE  LET t == [s EXCEPT ![Len(s)] = f] IN
           /\ t \in Seq(F) /\ Len(t) = Len(s)
           /\ \A i \in 1..Len(s) : t[i] = IF i = Len(s) THEN f ELSE s[i]
  OBVIOUS

LEMMA DropLast ==
  ASSUME NEW F, NEW s \in Seq(F), s # <<>>
  PROVE  /\ SubSeq(s, 1, Len(s) - 1) \in Seq(F)
         /\ Len(SubSeq(s, 1, Len(s) - 1)) = Len(s) - 1
         /\ \A i \in 1..Len(s) - 1 : SubSeq(s, 1, Len(s) - 1)[i] = s[i]
  <1>1. Len(s) \in Nat \ {0}  OBVIOUS
  <1> DEFINE n == Len(s) - 1
  <1>2. n \in 0..Len(s) /\ 1 \in 1..n + 1  BY <1>1
  <1>3. /\ SubSeq(s, 1, n) \in Seq(F)
        /\ Len(SubSeq(s, 1, n)) = IF 1 <= n THEN n - 1 + 1 ELSE 0
        /\ \A i \in 1..n - 1 + 1 : SubSeq(s, 1, n)[i] = s[1 + i - 1]
    BY <1>2, SubSeqProperties
  <1> DEFINE t == SubSeq(s, 1, n)
  <1> HIDE DEF t
  <1>4. /\ t \in Seq(F)
        /\ Len(t) = IF 1 <= n THEN n - 1 + 1 ELSE 0
        /\ \A i \in 1..n - 1 + 1 : t[i] = s[1 + i - 1]
    BY <1>3 DEF t
  <1>5. n \in Nat  BY <1>1
  <1> HIDE DEF n
  <1>6. Len(t) = n  BY <1>4, <1>5
  <1>7. \A i \in 1..n : t[i] = s[i]  BY <1>4, <1>5
  <1> QED BY <1>4, <1>6, <1>7 DEF t, n

LEMMA AddLast ==
  ASSUME NEW F, NEW s \in Seq(F), NEW f \in F
  PROVE  /\ Append(s, f) \in Seq(F) /\ Len(Append(s, f)) = Len(s) + 1
         /\ \A i \in 1..Len(s) + 1 : Append(s, f)[i] = IF i = Len(s) + 1 THEN f ELSE s[i]
  OBVIOUS

-----------------------------------------------------------------------------
(* What the model's own operators do *)

LEMMA EpochsInRange ==
  ASSUME TypeOK
  PROVE  Epochs(limit) \in 0..MaxSpent /\ limit \in Nat
  <1>1. limit \in Nat /\ limit \in Limits BY TimeAssumption DEF TypeOK
  <1>2. limit \div EpochMs \in Nat  BY <1>1, DivBound, TimeAssumption
  <1> QED BY <1>1, <1>2, SpentAssumption, TimeAssumption DEF Epochs

LEMMA InstanceIs == \A a \in Actors : InstanceOf(a) \in Instances
  BY DEF Actors, Instances, InstanceOf

LEMMA FrameIs ==
  \A fn \in Functions, l \in Places, n \in 0..MaxNested :
    Called(fn, l, n) \in Frame /\ Called(fn, l, n).at = l /\ Called(fn, l, n).spent = 0
  BY TimeAssumption DEF Called, Frame

\* Goto changes nothing but where the innermost function is.
LEMMA GotoStack ==
  ASSUME TypeOK, NEW a \in Actors, stack[a] # <<>>, NEW l \in Places, Goto(a, l)
  PROVE  /\ stack' \in [Actors -> Seq(Frame)]
         /\ \A b \in Actors : Len(stack'[b]) = Len(stack[b])
         /\ \A b \in Actors : \A i \in 1..Len(stack[b]) :
              stack'[b][i] = IF b = a /\ i = Len(stack[a])
                             THEN [stack[b][i] EXCEPT !.at = l] ELSE stack[b][i]
  <1>1. stack[a] \in Seq(Frame)  BY DEF TypeOK
  <1>2. Len(stack[a]) \in 1..Len(stack[a]) /\ Top(a) \in Frame
    <2>1. Len(stack[a]) \in Nat \ {0} BY <1>1
    <2> QED BY <1>1, <2>1 DEF Top
  <1> DEFINE f == [Top(a) EXCEPT !.at = l]
             t == [stack[a] EXCEPT ![Len(stack[a])] = f]
  <1>3. f \in Frame  BY <1>2 DEF Frame
  <1>4. stack' = [stack EXCEPT ![a] = t]  BY DEF Goto, Top, TypeOK
  <1>5. /\ t \in Seq(Frame) /\ Len(t) = Len(stack[a])
        /\ \A i \in 1..Len(stack[a]) : t[i] = IF i = Len(stack[a]) THEN f ELSE stack[a][i]
    BY <1>1, <1>3, SetLast
  <1> HIDE DEF t
  <1>6. stack' \in [Actors -> Seq(Frame)]  BY <1>4, <1>5 DEF TypeOK
  <1>7. stack'[a] = t /\ \A b \in Actors \ {a} : stack'[b] = stack[b]  BY <1>4 DEF TypeOK
  <1> QED BY <1>5, <1>6, <1>7 DEF Top

\* Leave drops the innermost frame.
LEMMA LeaveStack ==
  ASSUME TypeOK, NEW a \in Actors, stack[a] # <<>>, Leave(a)
  PROVE  /\ stack' \in [Actors -> Seq(Frame)]
         /\ \A b \in Actors : Len(stack'[b]) <= Len(stack[b])
         /\ \A b \in Actors : \A i \in 1..Len(stack'[b]) : stack'[b][i] = stack[b][i]
         /\ groupLock' \in {Opener, None} /\ opened' \in BOOLEAN
  <1>1. stack[a] \in Seq(Frame) /\ stack' = [stack EXCEPT ![a] = Without(a)]
    BY DEF TypeOK, Leave
  <1>2. /\ Without(a) \in Seq(Frame) /\ Len(Without(a)) = Len(stack[a]) - 1
        /\ \A i \in 1..Len(stack[a]) - 1 : Without(a)[i] = stack[a][i]
    BY <1>1, DropLast DEF Without
  <1>3. Len(stack[a]) \in Nat  BY <1>1
  <1>4. stack'[a] = Without(a) /\ \A b \in Actors \ {a} : stack'[b] = stack[b]
    BY <1>1 DEF TypeOK
  <1>5. stack' \in [Actors -> Seq(Frame)]  BY <1>1, <1>2 DEF TypeOK
  <1>6. \A b \in Actors : Len(stack'[b]) <= Len(stack[b])
    <2> TAKE b \in Actors
    <2>1. stack[b] \in Seq(Frame) BY DEF TypeOK
    <2>2. Len(stack[b]) \in Nat BY <2>1
    <2> QED BY <1>2, <1>3, <1>4, <2>2
  <1>7. groupLock' \in {Opener, None} /\ opened' \in BOOLEAN  BY DEF Leave, TypeOK
  <1> QED BY <1>2, <1>4, <1>5, <1>6, <1>7

-----------------------------------------------------------------------------
(* What becomes of the budgets *)

LEMMA GotoKeeps ==
  ASSUME IInv, NEW a \in Actors, stack[a] # <<>>, NEW l \in Places, Goto(a, l),
         UNCHANGED <<limit, left>>,
         l \in {"wasm", "host"} => Top(a).at \in {"wasm", "host"},
         l = "timeout" => limit > 0 /\ left[InstanceOf(a)] = 0 /\ Top(a).at = "wasm"
  PROVE  InBudget'
  <1> USE DEF IInv
  <1> SUFFICES ASSUME NEW b \in Actors, NEW i \in 1..Len(stack'[b])
               PROVE  HasBudget(stack[b][i], InstanceOf(b))'
    BY DEF InBudget
  <1>1. /\ Len(stack'[b]) = Len(stack[b])
        /\ stack'[b][i] = IF b = a /\ i = Len(stack[a])
                          THEN [stack[b][i] EXCEPT !.at = l] ELSE stack[b][i]
    BY GotoStack
  <1>2. HasBudget(stack[b][i], InstanceOf(b))  BY <1>1 DEF InBudget
  <1>3. stack[b][i] \in Frame
    <2>1. stack[b] \in Seq(Frame)  BY DEF TypeOK
    <2> QED BY <1>1, <2>1
  <1>4. Epochs(limit) \in Nat  BY EpochsInRange
  <1>5. Epochs(limit)' = Epochs(limit)  BY DEF Epochs
  <1>6. CASE b = a /\ i = Len(stack[a])
    <2>1. stack[b][i] = Top(a)  BY <1>6 DEF Top
    <2>2. /\ stack'[b][i].at = l /\ stack'[b][i].spent = stack[b][i].spent
          /\ stack[b][i].spent \in Nat
      BY <1>1, <1>3, <1>6, TimeAssumption DEF Frame
    <2> QED BY <1>2, <1>4, <1>5, <1>6, <2>1, <2>2 DEF HasBudget
  <1>7. CASE ~(b = a /\ i = Len(stack[a]))
    BY <1>1, <1>2, <1>5, <1>7 DEF HasBudget
  <1> QED BY <1>6, <1>7

LEMMA DeadlineKeeps ==
  ASSUME IInv, NEW k \in Instances, SetDeadline(k), UNCHANGED <<limit, stack>>
  PROVE  InBudget'
  <1> USE DEF IInv
  <1> SUFFICES ASSUME NEW b \in Actors, NEW i \in 1..Len(stack[b])
               PROVE  HasBudget(stack[b][i], InstanceOf(b))'
    BY DEF InBudget
  <1>1. HasBudget(stack[b][i], InstanceOf(b))  BY DEF InBudget
  <1>2. stack[b][i].spent \in Nat
    <2>1. stack[b] \in Seq(Frame)  BY DEF TypeOK
    <2>2. stack[b][i] \in Frame  BY <2>1
    <2> QED BY <2>2, TimeAssumption DEF Frame
  <1>3. Epochs(limit) \in Nat /\ Epochs(limit)' = Epochs(limit)  BY EpochsInRange DEF Epochs
  <1>4. left'[InstanceOf(b)] = IF InstanceOf(b) = k THEN Epochs(limit) ELSE left[InstanceOf(b)]
    BY InstanceIs DEF SetDeadline, TypeOK
  <1>5. InstanceOf(b)' = InstanceOf(b)  BY DEF InstanceOf
  <1> QED BY <1>1, <1>2, <1>3, <1>4, <1>5 DEF HasBudget

LEMMA EnterKeeps ==
  ASSUME IInv, NEW a \in Actors, stack[a] # <<>>, Goto(a, "wasm"),
         SetDeadline(InstanceOf(a)), limit' = limit
  PROVE  InBudget'
  <1> USE DEF IInv
  <1> SUFFICES ASSUME NEW b \in Actors, NEW i \in 1..Len(stack'[b])
               PROVE  HasBudget(stack[b][i], InstanceOf(b))'
    BY DEF InBudget
  <1>0. "wasm" \in Places  BY DEF Places
  <1>1. /\ Len(stack'[b]) = Len(stack[b])
        /\ stack'[b][i] = IF b = a /\ i = Len(stack[a])
                          THEN [stack[b][i] EXCEPT !.at = "wasm"] ELSE stack[b][i]
    BY <1>0, GotoStack
  <1>2. HasBudget(stack[b][i], InstanceOf(b))  BY <1>1 DEF InBudget
  <1>3. stack[b][i] \in Frame
    <2>1. stack[b] \in Seq(Frame)  BY DEF TypeOK
    <2> QED BY <1>1, <2>1
  <1>4. InstanceOf(a) \in Instances /\ InstanceOf(b) \in Instances  BY InstanceIs
  <1>5. Epochs(limit) \in Nat /\ Epochs(limit)' = Epochs(limit)  BY EpochsInRange DEF Epochs
  <1>6. CASE b = a /\ i = Len(stack[a])
    <2>1. /\ stack'[b][i].at = "wasm" /\ stack'[b][i].spent \in Nat
      BY <1>1, <1>3, <1>6, TimeAssumption DEF Frame
    <2>2. left'[InstanceOf(b)] = Epochs(limit)
      BY <1>4, <1>6 DEF SetDeadline, TypeOK
    <2>3. InstanceOf(b)' = InstanceOf(b)  BY DEF InstanceOf
    <2> QED BY <1>5, <2>1, <2>2, <2>3 DEF HasBudget
  <1>7. CASE ~(b = a /\ i = Len(stack[a]))
    <2>1. HasBudget(stack[b][i], InstanceOf(b))'
             <=> /\ stack[b][i].at \in {"wasm", "host"} =>
                      stack[b][i].spent + left'[InstanceOf(b)] >= Epochs(limit)
                 /\ stack[b][i].at = "timeout" => limit > 0 /\ stack[b][i].spent >= Epochs(limit)
      BY <1>1, <1>5, <1>7 DEF HasBudget, InstanceOf
    <2>2. left'[InstanceOf(b)] = IF InstanceOf(b) = InstanceOf(a) THEN Epochs(limit)
                                 ELSE left[InstanceOf(b)]
      BY <1>4 DEF SetDeadline, TypeOK
    <2>3. stack[b][i].spent \in Nat  BY <1>3, TimeAssumption DEF Frame
    <2> QED BY <1>2, <1>5, <2>1, <2>2, <2>3 DEF HasBudget
  <1> QED BY <1>6, <1>7

LEMMA LeaveKeeps ==
  ASSUME IInv, NEW a \in Actors, stack[a] # <<>>, Leave(a), UNCHANGED <<limit, left>>
  PROVE  InBudget'
  <1> SUFFICES ASSUME NEW b \in Actors, NEW i \in 1..Len(stack'[b])
               PROVE  HasBudget(stack[b][i], InstanceOf(b))'
    BY DEF InBudget
  <1>1. stack'[b][i] = stack[b][i] /\ Len(stack'[b]) <= Len(stack[b]) /\ stack' \in [Actors -> Seq(Frame)]
    BY LeaveStack DEF IInv
  <1>2. i \in 1..Len(stack[b])
    <2>1. stack[b] \in Seq(Frame) /\ stack'[b] \in Seq(Frame)  BY <1>1 DEF IInv, TypeOK
    <2>2. Len(stack[b]) \in Nat /\ Len(stack'[b]) \in Nat  BY <2>1
    <2> QED BY <1>1, <2>2
  <1>3. HasBudget(stack[b][i], InstanceOf(b))  BY <1>2 DEF IInv, InBudget
  <1> QED BY <1>1, <1>3 DEF HasBudget, Epochs, InstanceOf

\* Where frames may go, and what setting a deadline leaves.
LEMMA PlacesAre ==
  /\ "lock" \in Places /\ "wasm" \in Places /\ "host" \in Places /\ "raised" \in Places
  /\ "store" \in Places /\ "check" \in Places /\ "timeout" \in Places /\ "trap" \in Places
  /\ "not initialised" \in Places /\ "bad function pointer" \in Places
  /\ \A m \in Messages : m \in Places
  BY DEF Places, Messages

LEMMA FunctionsAre ==
  /\ "init" \in Functions /\ "thread" \in Functions
  /\ \A fn \in {"call", "malloc"} : fn \in Functions
  BY DEF Functions

LEMMA NestedRange == 0 \in 0..MaxNested /\ MaxNested \in 0..MaxNested /\ 0 \in 0..MaxSpent
  BY TimeAssumption

LEMMA DeadlineType ==
  ASSUME TypeOK, NEW k \in Instances, SetDeadline(k)
  PROVE  left' \in [Instances -> 0..MaxSpent]
  BY EpochsInRange DEF SetDeadline, TypeOK

LEMMA HostsAreActors ==
  \A h \in Hosts : h \in Actors /\ InstanceOf(h) = Main /\ Main \in Instances
  BY DEF Actors, InstanceOf, Instances

LEMMA WorkersAreActors ==
  \A w \in Workers : w \in Actors /\ InstanceOf(w) = w /\ w \in Instances
  BY NamesAssumption DEF Actors, InstanceOf, Instances

-----------------------------------------------------------------------------
(* The invariant *)

LEMMA InitIInv == Init => IInv
  <1> SUFFICES ASSUME Init PROVE IInv  OBVIOUS
  <1> USE DEF Init
  <1> DEFINE f == Called("init", "wasm", 0)
  <1>1. f \in Frame /\ f.at = "wasm" /\ f.spent = 0
    <2>1. "init" \in Functions /\ "wasm" \in Places  BY PlacesAre, FunctionsAre
    <2> QED BY <2>1, NestedRange, FrameIs
  <1> HIDE DEF f
  <1>2. <<f>> \in Seq(Frame) /\ <<>> \in Seq(Frame) /\ Len(<<f>>) = 1 /\ <<f>>[1] = f  BY <1>1
  <1>3. Opener \in Actors /\ InstanceOf(Opener) = Main  BY NamesAssumption, HostsAreActors
  <1>4. stack = [a \in Actors |-> IF a = Opener THEN <<f>> ELSE <<>>]  BY DEF f
  <1>5. stack \in [Actors -> Seq(Frame)]  BY <1>2, <1>4
  <1>6. limit \in Nat /\ limit \div EpochMs \in Nat  BY DivBound, TimeAssumption
  <1>7. Epochs(limit) \in 0..MaxSpent  BY <1>6, SpentAssumption, TimeAssumption DEF Epochs
  <1>8. TypeOK
    <2>1. left \in [Instances -> 0..MaxSpent]  BY <1>7, NestedRange
    <2>2. {hadInit, opened, stop} \subseteq BOOLEAN /\ started \subseteq Workers  OBVIOUS
    <2> QED BY <1>5, <2>1, <2>2 DEF TypeOK
  <1>9. InBudget
    <2> SUFFICES ASSUME NEW a \in Actors, NEW i \in 1..Len(stack[a])
                 PROVE  HasBudget(stack[a][i], InstanceOf(a))
      BY DEF InBudget
    <2>1. a = Opener /\ stack[a][i] = f  BY <1>2, <1>4
    <2>2. left[Main] = Epochs(limit)  BY DEF Instances
    <2> QED BY <1>1, <1>3, <1>7, <2>1, <2>2 DEF HasBudget
  <1> QED BY <1>8, <1>9 DEF IInv

LEMMA HostCallsIInv ==
  ASSUME IInv, NEW h \in Hosts, NEW fn \in {"call", "malloc"}, HostCalls(h, fn)
  PROVE  IInv'
  <1> USE DEF IInv
  <1>0. h \in Actors /\ stack[h] \in Seq(Frame)  BY HostsAreActors DEF TypeOK
  <1>1. CASE Idle(h) /\ stack' = [stack EXCEPT ![h] = <<Called(fn, "lock", MaxNested)>>]
    <2> DEFINE f == Called(fn, "lock", MaxNested)
    <2>0. fn \in Functions /\ "lock" \in Places  BY PlacesAre, FunctionsAre
    <2>1. f \in Frame /\ f.at = "lock"  BY <2>0, NestedRange, FrameIs
    <2> HIDE DEF f
    <2>2. <<f>> \in Seq(Frame) /\ Len(<<f>>) = 1 /\ <<f>>[1] = f  BY <2>1
    <2>3. stack' = [stack EXCEPT ![h] = <<f>>]  BY <1>1 DEF f
    <2>4. TypeOK'  BY <2>2, <2>3 DEF TypeOK, HostCalls, errs, life
    <2>5. InBudget'
      <3> SUFFICES ASSUME NEW a \in Actors, NEW i \in 1..Len(stack'[a])
                   PROVE  HasBudget(stack[a][i], InstanceOf(a))'
        BY DEF InBudget
      <3>1. left' = left /\ limit' = limit /\ InstanceOf(a)' = InstanceOf(a)
        BY DEF HostCalls, life, InstanceOf
      <3>2. CASE a = h
        <4>1. stack'[a][i] = f  BY <1>0, <2>2, <2>3, <3>2 DEF TypeOK
        <4> QED BY <2>1, <4>1 DEF HasBudget
      <3>3. CASE a # h
        <4>1. stack'[a] = stack[a]  BY <2>3, <3>3 DEF TypeOK
        <4>2. HasBudget(stack[a][i], InstanceOf(a))  BY <4>1 DEF InBudget
        <4> QED BY <3>1, <4>1, <4>2 DEF HasBudget, Epochs
      <3> QED BY <3>2, <3>3
    <2> QED BY <2>4, <2>5
  <1>2. CASE /\ At(h, "host") /\ Top(h).nested > 0
             /\ LET rest == Top(h).nested - 1 IN
                  stack' = [stack EXCEPT ![h] =
                    Append(Append(Without(h), [Top(h) EXCEPT !.nested = rest]),
                           Called(fn, "lock", rest))]
    <2> DEFINE rest == Top(h).nested - 1
               g == [Top(h) EXCEPT !.nested = rest]
               f == Called(fn, "lock", rest)
               s == Append(Without(h), g)
               t == Append(s, f)
               n == Len(stack[h])
    <2>1. stack[h] # <<>>  BY <1>2 DEF At, Idle
    <2>2. n \in Nat \ {0} /\ Top(h) \in Frame
      <3>1. n \in Nat \ {0}  BY <1>0, <2>1
      <3> QED BY <1>0, <3>1 DEF Top
    <2>3. rest \in 0..MaxNested  BY <1>2, <2>2, TimeAssumption DEF Frame
    <2>0. fn \in Functions /\ "lock" \in Places  BY PlacesAre, FunctionsAre
    <2>4. f \in Frame /\ f.at = "lock"  BY <2>0, <2>3, FrameIs
    <2>5. g \in Frame /\ g.at = Top(h).at /\ g.spent = Top(h).spent  BY <2>2, <2>3 DEF Frame
    <2>6. /\ Without(h) \in Seq(Frame) /\ Len(Without(h)) = n - 1
          /\ \A i \in 1..n - 1 : Without(h)[i] = stack[h][i]
      BY <1>0, <2>1, DropLast DEF Without
    <2>7. stack' = [stack EXCEPT ![h] = t]  BY <1>2
    <2> HIDE DEF rest, g, f
    <2>8. /\ s \in Seq(Frame) /\ Len(s) = Len(Without(h)) + 1
          /\ \A i \in 1..Len(Without(h)) + 1 :
               s[i] = IF i = Len(Without(h)) + 1 THEN g ELSE Without(h)[i]
      BY <2>5, <2>6, AddLast
    <2> HIDE DEF s
    <2>9. /\ t \in Seq(Frame) /\ Len(t) = Len(s) + 1
          /\ \A i \in 1..Len(s) + 1 : t[i] = IF i = Len(s) + 1 THEN f ELSE s[i]
      BY <2>4, <2>8, AddLast
    <2> HIDE DEF t, n
    <2>10. /\ Len(t) = n + 1
           /\ \A i \in 1..n + 1 : t[i] = IF i = n + 1 THEN f ELSE IF i = n THEN g ELSE stack[h][i]
      BY <2>2, <2>6, <2>8, <2>9
    <2>11. TypeOK'  BY <2>7, <2>9 DEF TypeOK, HostCalls, errs, life
    <2>12. InBudget'
      <3> SUFFICES ASSUME NEW a \in Actors, NEW i \in 1..Len(stack'[a])
                   PROVE  HasBudget(stack[a][i], InstanceOf(a))'
        BY DEF InBudget
      <3>1. left' = left /\ limit' = limit /\ InstanceOf(a)' = InstanceOf(a)
        BY DEF HostCalls, life, InstanceOf
      <3>2. CASE a = h
        <4>1. stack'[a] = t /\ i \in 1..n + 1  BY <1>0, <2>7, <2>10, <3>2 DEF TypeOK
        <4>2. CASE i = n + 1
          BY <2>4, <2>10, <4>1, <4>2 DEF HasBudget
        <4>3. CASE i = n
          <5>1. stack'[a][i] = g  BY <2>2, <2>10, <4>1, <4>3
          <5>2. HasBudget(Top(h), InstanceOf(h))  BY <1>0, <2>2 DEF InBudget, Top, n
          <5> QED BY <2>5, <3>1, <3>2, <5>1, <5>2 DEF HasBudget, Epochs
        <4>4. CASE i \in 1..n - 1
          <5>1. stack'[a][i] = stack[a][i]  BY <2>2, <2>10, <3>2, <4>1, <4>4
          <5>2. HasBudget(stack[a][i], InstanceOf(a))  BY <2>2, <3>2, <4>4 DEF InBudget, n
          <5> QED BY <3>1, <5>1, <5>2 DEF HasBudget, Epochs
        <4> QED BY <2>2, <4>1, <4>2, <4>3, <4>4
      <3>3. CASE a # h
        <4>1. stack'[a] = stack[a]  BY <2>7, <3>3 DEF TypeOK
        <4>2. HasBudget(stack[a][i], InstanceOf(a))  BY <4>1 DEF InBudget
        <4> QED BY <3>1, <4>1, <4>2 DEF HasBudget, Epochs
      <3> QED BY <3>2, <3>3
    <2> QED BY <2>11, <2>12
  <1> QED BY <1>1, <1>2 DEF HostCalls

\* The steps that move the innermost function of an actor and set no deadline.
LEMMA MoveIInv ==
  ASSUME IInv, NEW h \in Hosts, CallUnresolved(h) \/ HostFunction(h) \/ HostReturns(h)
  PROVE  IInv'
  <1> USE DEF IInv
  <1>1. h \in Actors /\ stack[h] # <<>>
    BY HostsAreActors DEF CallUnresolved, HostFunction, HostReturns, At, Idle
  <1>2. PICK l \in {"bad function pointer", "host", "wasm"} :
          Goto(h, l) /\ (l # "bad function pointer" => Top(h).at \in {"wasm", "host"})
    BY DEF CallUnresolved, HostFunction, HostReturns, At
  <1>3. l \in Places  BY PlacesAre
  <1>4. UNCHANGED <<limit, left, groupLock, errs, life>>
    BY DEF CallUnresolved, HostFunction, HostReturns, life
  <1>5. stack' \in [Actors -> Seq(Frame)]  BY <1>1, <1>2, <1>3, GotoStack
  <1>6. TypeOK'  BY <1>4, <1>5 DEF TypeOK, errs, life
  <1>7. InBudget'  BY <1>1, <1>2, <1>3, <1>4, GotoKeeps
  <1> QED BY <1>6, <1>7

LEMMA EnterIInv ==
  ASSUME IInv, NEW h \in Hosts, Enter(h)
  PROVE  IInv'
  <1> USE DEF IInv
  <1>1. h \in Actors /\ stack[h] # <<>> /\ Main \in Instances /\ InstanceOf(h) = Main
    BY HostsAreActors DEF Enter, At, Idle
  <1>2. Goto(h, "wasm") /\ SetDeadline(Main) /\ UNCHANGED <<groupLock, errs, life>>
    BY DEF Enter
  <1>3. stack' \in [Actors -> Seq(Frame)]  BY <1>1, <1>2, PlacesAre, GotoStack
  <1>4. left' \in [Instances -> 0..MaxSpent]  BY <1>1, <1>2, DeadlineType
  <1>5. TypeOK'  BY <1>2, <1>3, <1>4 DEF TypeOK, errs, life
  <1>6. limit' = limit  BY <1>2 DEF life
  <1>7. InBudget'  BY <1>1, <1>2, <1>6, EnterKeeps
  <1> QED BY <1>5, <1>7

\* The ends of a call: refused, returned, or with an error that is now the group's.
LEMMA LeaveIInv ==
  ASSUME IInv, NEW a \in Actors, Leave(a), stack[a] # <<>>,
         UNCHANGED <<left, limit, started, stop>>,
         hadInit' \in BOOLEAN, constErr' \in Messages \cup {None}, wtErr' \in Actors \cup {None}
  PROVE  IInv'
  <1> USE DEF IInv
  <1>1. /\ stack' \in [Actors -> Seq(Frame)]
        /\ groupLock' \in {Opener, None} /\ opened' \in BOOLEAN
    BY LeaveStack
  <1>2. TypeOK'  BY <1>1 DEF TypeOK
  <1>3. InBudget'  BY LeaveKeeps
  <1> QED BY <1>2, <1>3

LEMMA EndIInv ==
  ASSUME IInv, NEW a \in Actors,
         \/ CallRefused(a) \/ Returns(a) \/ ReportMessage(a) \/ StoreError(a)
         \/ TestError(a) /\ HasError
  PROVE  IInv'
  <1>1. Leave(a) /\ stack[a] # <<>> /\ UNCHANGED <<left, limit, started, stop>>
    BY DEF CallRefused, Returns, ReportMessage, StoreError, TestError, At, Idle
  <1>2. hadInit' \in BOOLEAN
    BY DEF CallRefused, Returns, ReportMessage, StoreError, TestError, IInv, TypeOK
  <1>3. constErr' \in Messages \cup {None}
    BY DEF CallRefused, Returns, ReportMessage, StoreError, TestError, SetConst, errs, IInv, TypeOK
  <1>4. wtErr' \in Actors \cup {None}
    BY DEF CallRefused, Returns, ReportMessage, StoreError, TestError, SetConst, errs, IInv, TypeOK
  <1> QED BY <1>1, <1>2, <1>3, <1>4, LeaveIInv

\* Running into an error: a trap, one from Wasmtime, a deadline, the test of hasError().
LEMMA FailIInv ==
  ASSUME IInv, NEW a \in Actors, Fails(a) \/ Timeout(a) \/ (TestError(a) /\ ~HasError)
  PROVE  IInv'
  <1> USE DEF IInv
  <1>1. stack[a] # <<>>  BY DEF Fails, Timeout, TestError, At, Idle
  <1>2. PICK l \in {"trap", "raised", "timeout", "store"} :
          /\ Goto(a, l)
          /\ l = "timeout" => limit > 0 /\ left[InstanceOf(a)] = 0 /\ Top(a).at = "wasm"
    BY DEF Fails, Timeout, TestError, At
  <1>3. l \in Places /\ l \notin {"wasm", "host"}  BY PlacesAre
  <1>4. UNCHANGED <<limit, left, groupLock, constErr, wtErr, hadInit, opened, started, stop>>
    BY DEF Fails, Timeout, TestError, errs, life
  <1>5. stack' \in [Actors -> Seq(Frame)]  BY <1>1, <1>2, <1>3, GotoStack
  <1>6. TypeOK'  BY <1>4, <1>5 DEF TypeOK
  <1>7. InBudget'  BY <1>1, <1>2, <1>3, <1>4, GotoKeeps
  <1> QED BY <1>6, <1>7

LEMMA SpawnIInv ==
  ASSUME IInv, NEW w \in Workers, Spawn(w)
  PROVE  IInv'
  <1> USE DEF IInv
  <1> DEFINE f == Called("thread", "check", 0)
  <1>0. w \in Actors  BY WorkersAreActors
  <1>1. f \in Frame /\ f.at = "check"
    <2>1. "thread" \in Functions /\ "check" \in Places  BY PlacesAre, FunctionsAre
    <2> QED BY <2>1, NestedRange, FrameIs
  <1>2. stack' = [stack EXCEPT ![w] = <<f>>]  BY DEF Spawn
  <1> HIDE DEF f
  <1>3. <<f>> \in Seq(Frame) /\ Len(<<f>>) = 1 /\ <<f>>[1] = f  BY <1>1
  <1>4. TypeOK'
    <2>1. stack' \in [Actors -> Seq(Frame)]  BY <1>2, <1>3 DEF TypeOK
    <2> QED BY <2>1 DEF TypeOK, Spawn, errs
  <1>5. InBudget'
    <2> SUFFICES ASSUME NEW a \in Actors, NEW i \in 1..Len(stack'[a])
                 PROVE  HasBudget(stack[a][i], InstanceOf(a))'
      BY DEF InBudget
    <2>1. left' = left /\ limit' = limit /\ InstanceOf(a)' = InstanceOf(a)
      BY DEF Spawn, InstanceOf
    <2>2. CASE a = w
      <3>1. stack'[a][i] = f  BY <1>0, <1>2, <1>3, <2>2 DEF TypeOK
      <3> QED BY <1>1, <3>1 DEF HasBudget
    <2>3. CASE a # w
      <3>1. stack'[a] = stack[a]  BY <1>2, <2>3 DEF TypeOK
      <3>2. HasBudget(stack[a][i], InstanceOf(a))  BY <3>1 DEF InBudget
      <3> QED BY <2>1, <3>1, <3>2 DEF HasBudget, Epochs
    <2> QED BY <2>2, <2>3
  <1> QED BY <1>4, <1>5

LEMMA RunThreadIInv ==
  ASSUME IInv, NEW w \in Workers, RunThread(w)
  PROVE  IInv'
  <1> USE DEF IInv
  <1>1. w \in Actors /\ stack[w] # <<>> /\ InstanceOf(w) = w /\ w \in Instances
    BY WorkersAreActors DEF RunThread, At, Idle
  <1>2. UNCHANGED <<limit, groupLock, constErr, wtErr, hadInit, opened, started, stop>>
    BY DEF RunThread, errs, life
  <1>3. CASE Goto(w, "wasm") /\ SetDeadline(w)
    <2>1. stack' \in [Actors -> Seq(Frame)]  BY <1>1, <1>3, PlacesAre, GotoStack
    <2>2. left' \in [Instances -> 0..MaxSpent]  BY <1>1, <1>3, DeadlineType
    <2>3. TypeOK'  BY <1>2, <2>1, <2>2 DEF TypeOK
    <2>4. InBudget'  BY <1>1, <1>2, <1>3, EnterKeeps
    <2> QED BY <2>3, <2>4
  <1>4. CASE Goto(w, "not initialised") /\ UNCHANGED left
    <2>1. stack' \in [Actors -> Seq(Frame)]  BY <1>1, <1>4, PlacesAre, GotoStack
    <2>2. TypeOK'  BY <1>2, <1>4, <2>1 DEF TypeOK
    <2>3. InBudget'  BY <1>1, <1>2, <1>4, PlacesAre, GotoKeeps
    <2> QED BY <2>2, <2>3
  <1> QED BY <1>3, <1>4 DEF RunThread

LEMMA ContinueCheckerIInv ==
  ASSUME IInv, NEW w \in Workers, ContinueChecker(w)
  PROVE  IInv'
  <1> USE DEF IInv
  <1>1. w \in Actors /\ stack[w] # <<>> /\ w \in Instances
    BY WorkersAreActors DEF ContinueChecker, At, Idle
  <1>2. UNCHANGED <<limit, groupLock, constErr, wtErr, hadInit, opened, started, stop>>
    BY DEF ContinueChecker, errs, life
  <1>3. CASE Goto(w, "raised") /\ UNCHANGED left
    <2>1. stack' \in [Actors -> Seq(Frame)]  BY <1>1, <1>3, PlacesAre, GotoStack
    <2>2. TypeOK'  BY <1>2, <1>3, <2>1 DEF TypeOK
    <2>3. InBudget'  BY <1>1, <1>2, <1>3, PlacesAre, GotoKeeps
    <2> QED BY <2>2, <2>3
  <1>4. CASE SetDeadline(w) /\ UNCHANGED stack
    <2>1. left' \in [Instances -> 0..MaxSpent]  BY <1>1, <1>4, DeadlineType
    <2>2. TypeOK'  BY <1>2, <1>4, <2>1 DEF TypeOK
    <2>3. InBudget'  BY <1>1, <1>2, <1>4, DeadlineKeeps
    <2> QED BY <2>2, <2>3
  <1> QED BY <1>3, <1>4 DEF ContinueChecker

\* An epoch takes from what is left at most what it adds to what was spent.
LEMMA TickIInv ==
  ASSUME IInv, Tick
  PROVE  IInv'
  <1> USE DEF IInv
  <1> DEFINE Spent(f) == IF f.at \in {"lock", "check"} \/ f.spent = MaxSpent
                         THEN f ELSE [f EXCEPT !.spent = @ + 1]
  <1>1. UNCHANGED <<limit, groupLock, constErr, wtErr, hadInit, opened, started, stop>>
    BY DEF Tick, errs, life
  <1>2. \A i \in Instances : left[i] \in 0..MaxSpent /\ left'[i] = IF left[i] = 0 THEN 0 ELSE left[i] - 1
    BY DEF Tick, TypeOK
  <1>3. left' \in [Instances -> 0..MaxSpent]
    <2>1. left' = [i \in Instances |-> IF left[i] = 0 THEN 0 ELSE left[i] - 1]  BY DEF Tick
    <2>2. \A i \in Instances : (IF left[i] = 0 THEN 0 ELSE left[i] - 1) \in 0..MaxSpent
      BY <1>2, TimeAssumption
    <2> QED BY <2>1, <2>2
  <1>4. \A f \in Frame : Spent(f) \in Frame
    BY TimeAssumption DEF Frame
  <1>5. stack' = [a \in Actors |-> [i \in DOMAIN stack[a] |-> Spent(stack[a][i])]]
    BY DEF Tick
  <1> HIDE DEF Spent
  <1>6. ASSUME NEW a \in Actors
        PROVE  /\ stack'[a] \in Seq(Frame) /\ Len(stack'[a]) = Len(stack[a])
               /\ \A i \in 1..Len(stack[a]) : stack'[a][i] = Spent(stack[a][i])
    <2>1. stack[a] \in Seq(Frame)  BY DEF TypeOK
    <2>2. DOMAIN stack[a] = 1..Len(stack[a]) /\ Len(stack[a]) \in Nat  BY <2>1
    <2>3. \A i \in 1..Len(stack[a]) : stack[a][i] \in Frame  BY <2>1
    <2>4. stack'[a] = [i \in 1..Len(stack[a]) |-> Spent(stack[a][i])]  BY <1>5, <2>2
    <2>5. \A i \in 1..Len(stack[a]) : Spent(stack[a][i]) \in Frame  BY <1>4, <2>3
    <2> QED BY <2>2, <2>4, <2>5
  <1>7. stack' \in [Actors -> Seq(Frame)]  BY <1>5, <1>6
  <1>8. TypeOK'  BY <1>1, <1>3, <1>7 DEF TypeOK
  <1>9. InBudget'
    <2> SUFFICES ASSUME NEW a \in Actors, NEW i \in 1..Len(stack'[a])
                 PROVE  HasBudget(stack[a][i], InstanceOf(a))'
      BY DEF InBudget
    <2>1. i \in 1..Len(stack[a]) /\ stack'[a][i] = Spent(stack[a][i])  BY <1>6
    <2>2. stack[a][i] \in Frame
      <3>1. stack[a] \in Seq(Frame)  BY DEF TypeOK
      <3> QED BY <2>1, <3>1
    <2>3. HasBudget(stack[a][i], InstanceOf(a))  BY <2>1 DEF InBudget
    <2>4. /\ Epochs(limit) \in 0..MaxSpent /\ Epochs(limit)' = Epochs(limit)
          /\ InstanceOf(a)' = InstanceOf(a) /\ InstanceOf(a) \in Instances
      BY <1>1, EpochsInRange, InstanceIs DEF Epochs, InstanceOf
    <2> DEFINE old == stack[a][i]  now == stack'[a][i]
    <2>5. /\ old.spent \in 0..MaxSpent /\ now.at = old.at
          /\ now.spent = IF old.at \in {"lock", "check"} \/ old.spent = MaxSpent
                         THEN old.spent ELSE old.spent + 1
      BY <2>1, <2>2 DEF Frame, Spent
    <2>6. left[InstanceOf(a)] \in 0..MaxSpent
      BY <1>2, <2>4
    <2>7. left'[InstanceOf(a)] = IF left[InstanceOf(a)] = 0 THEN 0 ELSE left[InstanceOf(a)] - 1
      BY <1>2, <2>4
    <2> HIDE DEF old, now
    <2>8. now.at \in {"wasm", "host"} => now.spent + left'[InstanceOf(a)] >= Epochs(limit)
      <3>1. HasBudget(old, InstanceOf(a))  BY <2>3 DEF old
      <3> QED BY <2>4, <2>5, <2>6, <2>7, <3>1, TimeAssumption DEF HasBudget
    <2>9. now.at = "timeout" => limit > 0 /\ now.spent >= Epochs(limit)
      <3>1. HasBudget(old, InstanceOf(a))  BY <2>3 DEF old
      <3> QED BY <2>4, <2>5, <3>1, TimeAssumption DEF HasBudget
    <2> QED BY <1>1, <2>4, <2>8, <2>9 DEF HasBudget, now
  <1> QED BY <1>8, <1>9

LEMMA NextIInv == IInv /\ [Next]_vars => IInv'
  <1> SUFFICES ASSUME IInv, [Next]_vars PROVE IInv'  OBVIOUS
  <1>1. CASE UNCHANGED vars
    BY <1>1 DEF vars, IInv, TypeOK, InBudget, HasBudget, InstanceOf, Epochs
  <1>2. ASSUME NEW h \in Hosts, NEW fn \in {"call", "malloc"}, HostCalls(h, fn)
        PROVE  IInv'
    BY <1>2, HostCallsIInv
  <1>3. ASSUME NEW h \in Hosts,
               CallRefused(h) \/ CallUnresolved(h) \/ Enter(h) \/ HostFunction(h) \/ HostReturns(h)
        PROVE  IInv'
    <2>1. h \in Actors  BY HostsAreActors
    <2> QED BY <1>3, <2>1, EndIInv, MoveIInv, EnterIInv
  <1>4. ASSUME NEW a \in Actors,
               \/ Returns(a) \/ Fails(a) \/ Timeout(a)
               \/ ReportMessage(a) \/ TestError(a) \/ StoreError(a)
        PROVE  IInv'
    <2>1. CASE Returns(a) \/ ReportMessage(a) \/ StoreError(a)  BY <2>1, EndIInv
    <2>2. CASE Fails(a) \/ Timeout(a)  BY <2>2, FailIInv
    <2>3. CASE TestError(a) /\ HasError  BY <2>3, EndIInv
    <2>4. CASE TestError(a) /\ ~HasError  BY <2>4, FailIInv
    <2> QED BY <1>4, <2>1, <2>2, <2>3, <2>4
  <1>5. ASSUME NEW w \in Workers, Spawn(w) \/ RunThread(w) \/ ContinueChecker(w)
        PROVE  IInv'
    BY <1>5, SpawnIInv, RunThreadIInv, ContinueCheckerIInv
  <1>6. CASE Close
    BY <1>6 DEF Close, errs, IInv, TypeOK, InBudget, HasBudget, InstanceOf, Epochs
  <1>7. CASE Tick  BY <1>7, TickIInv
  <1>8. CASE Terminated
    BY <1>8 DEF Terminated, vars, IInv, TypeOK, InBudget, HasBudget, InstanceOf, Epochs
  <1> QED BY <1>1, <1>2, <1>3, <1>4, <1>5, <1>6, <1>7, <1>8 DEF Next

\* A whole budget of epochs, less the one that may end at once, is the time limit.
LEMMA BudgetIsEnough == IInv => NoEarlyTimeout
  <1> SUFFICES ASSUME IInv, NEW a \in Actors, NEW i \in 1..Len(stack[a]), stack[a][i].at = "timeout"
               PROVE  (stack[a][i].spent - 1) * EpochMs >= limit
    BY DEF NoEarlyTimeout
  <1> DEFINE q == limit \div EpochMs
             n == stack[a][i].spent
  <1>1. limit > 0 /\ n >= Epochs(limit)  BY DEF IInv, InBudget, HasBudget
  <1>2. limit \in Nat /\ EpochMs \in Nat \ {0}  BY EpochsInRange, TimeAssumption DEF IInv
  <1>3. q \in Nat /\ limit < (q + 1) * EpochMs  BY <1>2, DivBound
  <1>4. n \in Nat
    <2>1. stack[a] \in Seq(Frame)  BY DEF IInv, TypeOK
    <2>2. stack[a][i] \in Frame  BY <2>1
    <2> QED BY <2>2, TimeAssumption DEF Frame
  <1>5. Epochs(limit) = q + 2  BY <1>1, <1>2 DEF Epochs
  <1> HIDE DEF q, n
  <1>6. q + 1 \in Nat /\ n - 1 \in Nat /\ q + 1 <= n - 1  BY <1>1, <1>3, <1>4, <1>5
  <1>7. (q + 1) * EpochMs <= (n - 1) * EpochMs  BY <1>2, <1>6, MulMono
  <1>8. (q + 1) * EpochMs \in Nat /\ (n - 1) * EpochMs \in Nat  BY <1>2, <1>6
  <1>9. (n - 1) * EpochMs >= limit  BY <1>2, <1>3, <1>7, <1>8
  <1> QED BY <1>9 DEF n

\* A step leaves the errors alone, adds a message to none, or stores a Wasmtime error.
LEMMA ErrorSteps ==
  ASSUME [Next]_vars
  PROVE  \/ UNCHANGED errs
         \/ wtErr' = wtErr /\ (HasError => constErr' = constErr)
         \/ constErr' = constErr /\ wtErr' \in Actors
  <1>1. CASE UNCHANGED vars  BY <1>1 DEF vars, errs
  <1>2. ASSUME NEW h \in Hosts, NEW fn \in {"call", "malloc"}, HostCalls(h, fn)
        PROVE  UNCHANGED errs
    BY <1>2 DEF HostCalls, errs
  <1>3. ASSUME NEW h \in Hosts,
               CallRefused(h) \/ CallUnresolved(h) \/ Enter(h) \/ HostFunction(h) \/ HostReturns(h)
        PROVE  UNCHANGED errs
    BY <1>3 DEF CallRefused, CallUnresolved, Enter, HostFunction, HostReturns, errs
  <1>4. ASSUME NEW a \in Actors, Returns(a) \/ Fails(a) \/ Timeout(a) \/ TestError(a)
        PROVE  UNCHANGED errs
    BY <1>4 DEF Returns, Fails, Timeout, TestError, errs
  <1>5. ASSUME NEW a \in Actors, ReportMessage(a)
        PROVE  wtErr' = wtErr /\ (HasError => constErr' = constErr)
    BY <1>5 DEF ReportMessage, SetConst
  <1>6. ASSUME NEW a \in Actors, StoreError(a)
        PROVE  constErr' = constErr /\ wtErr' \in Actors
    BY <1>6 DEF StoreError
  <1>7. ASSUME NEW w \in Workers, Spawn(w) \/ RunThread(w) \/ ContinueChecker(w)
        PROVE  UNCHANGED errs
    BY <1>7 DEF Spawn, RunThread, ContinueChecker, errs
  <1>8. CASE Close \/ Tick \/ Terminated
    BY <1>8 DEF Close, Tick, Terminated, vars, errs
  <1> QED BY <1>1, <1>2, <1>3, <1>4, <1>5, <1>6, <1>7, <1>8 DEF Next

LEMMA ErrorStays ==
  ASSUME TypeOK, [Next]_vars, Error # None
  PROVE  Error' = Error \/ (Error \in Actors /\ Error' \in Actors)
  <1>1. HasError  BY DEF Error, HasError
  <1>2. CASE constErr # None
    <2>1. constErr' = constErr  BY <1>1, ErrorSteps DEF errs
    <2> QED BY <1>2, <2>1 DEF Error
  <1>3. CASE constErr = None
    <2>1. Error = wtErr /\ wtErr \in Actors  BY <1>3 DEF Error, TypeOK
    <2>2. constErr' = None /\ (wtErr' = wtErr \/ wtErr' \in Actors)
      BY <1>1, <1>3, ErrorSteps DEF errs
    <2>3. Error' = wtErr'  BY <2>2 DEF Error
    <2> QED BY <2>1, <2>2, <2>3
  <1> QED BY <1>2, <1>3

-----------------------------------------------------------------------------
(* The theorems *)

\* IInv is inductive: what each call has spent and what is left until its deadline
\* are a whole budget, whichever calls nest or run side by side.
THEOREM Invariance == Spec => []IInv
  <1>1. Init => IInv  BY InitIInv
  <1>2. IInv /\ [Next]_vars => IInv'  BY NextIInv
  <1> QED BY <1>1, <1>2, PTL DEF Spec

\* Every variable keeps its shape.
THEOREM TypeCorrect == Spec => []TypeOK
  <1>1. IInv => TypeOK  BY DEF IInv
  <1> QED BY <1>1, Invariance, PTL

\* setWasmDeadline: no call ends at its deadline before timeLimitMs have passed.
THEOREM NoCallCutShort == Spec => []NoEarlyTimeout
  <1> QED BY Invariance, BudgetIsEnough, PTL

\* setError keeps the first error, but for two Wasmtime errors that race (the test
\* and the store of wclap-instance-wasmtime.h:317 and 324).
THEOREM FirstErrorIsKept == Spec => FirstErrorStays
  <1>1. TypeOK /\ [Next]_vars =>
          [Error # None => \/ Error' = Error
                           \/ Error \in Actors /\ Error' \in Actors]_vars
    BY ErrorStays
  <1> QED BY <1>1, TypeCorrect, PTL DEF Spec, FirstErrorStays
===============================================================================
