--------------------------- MODULE PluginData_proofs ---------------------------
(***************************************************************************)
(* What PluginData carries arrives whole and in order, for any buffers,    *)
(* events, lengths and nesting of calls.                                   *)
(***************************************************************************)
EXTENDS PluginData, FiniteSetTheorems, SequenceTheorems, TLAPS

-----------------------------------------------------------------------------
(* Induction, with the property as a set, and what FlattenSeq computes *)

LEMMA LeastElement ==
  ASSUME NEW T \in SUBSET Nat, T # {}
  PROVE  \E x \in T : \A y \in T : x <= y
  <1> DEFINE R == OpToRel(<, Nat)
  <1>1. IsWellFoundedOn(R, Nat)  BY NatLessThanWellFounded
  <1>2. \A x, y \in Nat : y < x => <<y, x>> \in R  BY DEF OpToRel
  <1> HIDE DEF R
  <1>3. PICK x \in T : \A y \in T : <<y, x>> \notin R  BY <1>1, WFMin
  <1>4. \A y \in T : x \in Nat /\ y \in Nat /\ ~(y < x)  BY <1>2, <1>3
  <1>5. \A y \in T : x <= y  BY <1>4
  <1> QED BY <1>5

LEMMA SetInduction ==
  ASSUME NEW T, 0 \in T, \A n \in Nat : n \in T => n + 1 \in T
  PROVE  \A n \in Nat : n \in T
  <1>1. SUFFICES ASSUME Nat \ T # {}  PROVE FALSE  OBVIOUS
  <1>2. PICK x \in Nat \ T : \A y \in Nat \ T : x <= y  BY <1>1, LeastElement
  <1>3. x # 0 /\ x - 1 \in Nat /\ x - 1 \notin Nat \ T  BY <1>2
  <1>4. x - 1 + 1 \in T  BY <1>3
  <1>5. x - 1 + 1 = x  OBVIOUS
  <1> QED BY <1>2, <1>4, <1>5

IsFlatten(g, seqs, n) == g = [i \in 1..n |-> IF i = 1 THEN seqs[i] ELSE g[i-1] \o seqs[i]]

LEMMA FlattenExists ==
  ASSUME NEW seqs, NEW n \in Nat
  PROVE  \E g : IsFlatten(g, seqs, n)
  <1> DEFINE T == {m \in Nat : \E g : IsFlatten(g, seqs, m)}
  <1>1. 0 \in T
    <2>1. IsFlatten([i \in 1..0 |-> 0], seqs, 0)  BY DEF IsFlatten
    <2> QED BY <2>1
  <1>2. ASSUME NEW m \in Nat, m \in T PROVE m + 1 \in T
    <2>1. PICK g : IsFlatten(g, seqs, m)  BY <1>2
    <2> DEFINE h == [i \in 1..m+1 |-> IF i = 1 THEN seqs[i] ELSE g[i-1] \o seqs[i]]
    <2>2. \A i \in 1..m : g[i] = IF i = 1 THEN seqs[i] ELSE g[i-1] \o seqs[i]
      BY <2>1, Zenon DEF IsFlatten
    <2>3. \A i \in 1..m : i \in 1..m + 1  OBVIOUS
    <2>4. \A i \in 1..m+1 : i # 1 => i - 1 \in 1..m  OBVIOUS
    <2>5. \A i \in 1..m : h[i] = g[i]  BY <2>2, <2>3, Zenon
    <2>6. \A i \in 1..m + 1 : (IF i = 1 THEN seqs[i] ELSE g[i-1] \o seqs[i])
                            = (IF i = 1 THEN seqs[i] ELSE h[i-1] \o seqs[i])
      BY <2>4, <2>5, Zenon
    <2>7. h = [i \in 1..m+1 |-> IF i = 1 THEN seqs[i] ELSE h[i-1] \o seqs[i]]
      BY <2>6, Zenon
    <2> HIDE DEF h
    <2>8. IsFlatten(h, seqs, m + 1)  BY <2>7, Zenon DEF IsFlatten
    <2> QED BY <2>8
  <1> HIDE DEF T
  <1>3. n \in T  BY <1>1, <1>2, SetInduction
  <1> QED BY <1>3 DEF T

LEMMA Flattened ==
  ASSUME NEW seqs, NEW n \in Nat \ {0}, Len(seqs) = n
  PROVE  \E g : IsFlatten(g, seqs, n) /\ FlattenSeq(seqs) = g[n]
  <1> DEFINE flatten == CHOOSE g : IsFlatten(g, seqs, n)
  <1>1. IsFlatten(flatten, seqs, n)  BY FlattenExists, Zenon
  <1>2. FlattenSeq(seqs) = (CHOOSE g : g = [i \in 1..n |-> IF i = 1 THEN seqs[i] ELSE g[i-1] \o seqs[i]])[n]
    BY DEF FlattenSeq
  <1>3. FlattenSeq(seqs) = flatten[n]  BY <1>2 DEF IsFlatten
  <1> HIDE DEF flatten
  <1> QED BY <1>1, <1>3

-----------------------------------------------------------------------------
(* Translating one event *)

IsKnown(e) == e.space = "core" /\ e.type <= 12

\* What a call keeps of an event of the host's.
Crossed(e, w) ==
  /\ w \in WasmEvents /\ w.space = "core" /\ w.type = e.type /\ w.type <= 12
  /\ w.cookie = e.cookie /\ w.size = e.size /\ w.hdr = "native"
  /\ w.ptr = IF e.type = 11 THEN "wasm" ELSE "none"

LEMMA ModSmall == ASSUME NEW a \in Nat, NEW b \in Nat \ {0}, a < b  PROVE a % b = a
  OBVIOUS

LEMMA HostEventIs ==
  ASSUME NEW e \in HostEvents
  PROVE  /\ e \in NativeEvents /\ e.hdr = "native" /\ e.ptr = IF e.type = 11 THEN "native" ELSE "none"
         /\ e.type \in Nat /\ e.size \in Nat /\ e.cookie \in 0..HostPtrs - 1
         /\ e.cookie \in 0..WasmPtrs - 1
  <1>1. /\ e \in NativeEvents /\ e.hdr = "native" /\ e.cookie < WasmPtrs
        /\ (e.ptr = "native") <=> (e.type = 11)
    BY EventAssumption
  <1>2. e.ptr \in {"none", "native"} /\ e.cookie \in 0..HostPtrs - 1 /\ e.type \in Nat /\ e.size \in Nat
    BY <1>1 DEF NativeEvents, Events
  <1>3. HostPtrs \in Nat \ {0} /\ WasmPtrs \in Nat \ {0}  BY SizeAssumption
  <1>4. e.cookie \in 0..WasmPtrs - 1  BY <1>1, <1>2, <1>3
  <1> QED BY <1>1, <1>2, <1>4

LEMMA EventCrosses ==
  ASSUME NEW e \in HostEvents
  PROVE  IF IsKnown(e) THEN \E w : ToWasm(e) = <<w>> /\ Crossed(e, w) ELSE ToWasm(e) = <<>>
  <1>1. HostPtrs \in Nat \ {0} /\ WasmPtrs \in Nat \ {0}  BY SizeAssumption
  <1>2. /\ e \in NativeEvents /\ e.hdr = "native" /\ e.ptr = IF e.type = 11 THEN "native" ELSE "none"
        /\ e.type \in Nat /\ e.size \in Nat /\ e.cookie \in 0..HostPtrs - 1
        /\ e.cookie \in 0..WasmPtrs - 1
    BY HostEventIs
  <1>3. e.cookie % WasmPtrs = e.cookie  BY <1>1, <1>2, ModSmall
  <1>4. CASE ~IsKnown(e)
    <2>1. e.space # "core" \/ ~(Bitwise(e.type) \/ e.type \in {5, 6} \/ e.type = 11)
      BY <1>2, <1>4 DEF IsKnown, Bitwise
    <2>2. CASE e.space # "core"  BY <1>4, <2>2 DEF ToWasm
    <2>3. CASE ~(Bitwise(e.type) \/ e.type \in {5, 6} \/ e.type = 11)
      <3>1. ~Bitwise(e.type) /\ e.type \notin {5, 6} /\ e.type # 11  BY <2>3
      <3>2. ToWasm(e) = <<>>  BY <3>1 DEF ToWasm
      <3> QED BY <1>4, <3>2
    <2> QED BY <2>1, <2>2, <2>3
  <1>5. CASE IsKnown(e) /\ Bitwise(e.type)
    <2>1. e.type # 11 /\ e.type \notin {5, 6}  BY <1>5, <1>2 DEF Bitwise
    <2>3. ToWasm(e) = <<e>>  BY <1>5, <2>1 DEF ToWasm, IsKnown
    <2>2. Crossed(e, e)
      BY <1>2, <1>5, <2>1 DEF Crossed, IsKnown, WasmEvents, NativeEvents, Events
    <2> QED BY <1>5, <2>2, <2>3
  <1>6. CASE IsKnown(e) /\ e.type \in {5, 6}
    <2> DEFINE w == [e EXCEPT !.cookie = @ % WasmPtrs]
    <2>1. ~Bitwise(e.type) /\ e.type # 11  BY <1>6, <1>2 DEF Bitwise
    <2>2. ToWasm(e) = <<w>>  BY <1>6, <2>1 DEF ToWasm, IsKnown
    <2>3. Crossed(e, w)
      BY <1>2, <1>3, <1>6, <2>1 DEF Crossed, IsKnown, WasmEvents, NativeEvents, Events
    <2> QED BY <1>6, <2>2, <2>3
  <1>7. CASE IsKnown(e) /\ e.type = 11
    <2> DEFINE w == [e EXCEPT !.ptr = "wasm"]
    <2>1. ~Bitwise(e.type) /\ e.type \notin {5, 6}  BY <1>7 DEF Bitwise
    <2>2. ToWasm(e) = <<w>>  BY <1>7, <2>1 DEF ToWasm, IsKnown
    <2>3. Crossed(e, w)
      BY <1>2, <1>7 DEF Crossed, IsKnown, WasmEvents, NativeEvents, Events
    <2> QED BY <1>7, <2>2, <2>3
  <1>8. IsKnown(e) => Bitwise(e.type) \/ e.type \in {5, 6} \/ e.type = 11
    BY <1>2 DEF IsKnown, Bitwise
  <1> QED BY <1>4, <1>5, <1>6, <1>7, <1>8

\* Sent back with the header of the WASM code's own layout, it is refused or the
\* event it was; with pointers wider than the host's, its cookie may be lost.
LEMMA EventReturns ==
  ASSUME NEW e \in HostEvents, NEW w, IsKnown(e), Crossed(e, w)
  PROVE  LET sent == FromWasm([w EXCEPT !.hdr = "wasm"]) IN
           \/ sent = <<>>
           \/ \E x \in NativeEvents : sent = <<x>> /\ (HostPtrs >= WasmPtrs => x = e)
  <1> DEFINE v == [w EXCEPT !.hdr = "wasm"]
             x == [v EXCEPT !.hdr = "native",
                            !.ptr = IF v.type = 11 THEN "native" ELSE @,
                            !.cookie = IF v.type \in {5, 6} /\ HostPtrs < WasmPtrs THEN 0 ELSE @]
  <1>1. HostPtrs \in Nat \ {0} /\ WasmPtrs \in Nat \ {0}  BY SizeAssumption
  <1>2. /\ e \in NativeEvents /\ e.hdr = "native" /\ e.ptr = IF e.type = 11 THEN "native" ELSE "none"
        /\ e.type \in Nat /\ e.size \in Nat /\ e.cookie \in 0..HostPtrs - 1
        /\ e.cookie \in 0..WasmPtrs - 1
    BY HostEventIs
  <1>3. FromWasm(v) = <<>> \/ FromWasm(v) = <<x>>  BY DEF FromWasm
  <1>4. w \in WasmEvents  BY DEF Crossed
  <1> HIDE DEF v
  <1>5. v = [space |-> "core", type |-> e.type, cookie |-> e.cookie, size |-> e.size,
             ptr |-> w.ptr, hdr |-> "wasm"]
    BY <1>4 DEF Crossed, WasmEvents, Events, v
  <1>6. x = [space |-> "core", type |-> e.type,
             cookie |-> IF e.type \in {5, 6} /\ HostPtrs < WasmPtrs THEN 0 ELSE e.cookie,
             size |-> e.size, ptr |-> e.ptr, hdr |-> "native"]
    <2> DEFINE q == IF v.type = 11 THEN "native" ELSE v.ptr
               c == IF v.type \in {5, 6} /\ HostPtrs < WasmPtrs THEN 0 ELSE v.cookie
    <2>1. q = e.ptr  BY <1>2, <1>5 DEF Crossed
    <2>2. c = IF e.type \in {5, 6} /\ HostPtrs < WasmPtrs THEN 0 ELSE e.cookie  BY <1>5
    <2>3. x = [v EXCEPT !.hdr = "native", !.ptr = q, !.cookie = c]  OBVIOUS
    <2> HIDE DEF q, c, x
    <2>4. x = [space |-> "core", type |-> e.type, cookie |-> c, size |-> e.size, ptr |-> q,
               hdr |-> "native"]
      BY <1>5, <2>3
    <2> QED BY <2>1, <2>2, <2>4
  <1> HIDE DEF x
  <1>7. x \in NativeEvents  BY <1>1, <1>2, <1>6 DEF NativeEvents, Events
  <1>8. ASSUME HostPtrs >= WasmPtrs  PROVE x = e
    <2>1. ~(HostPtrs < WasmPtrs)  BY <1>1, <1>8
    <2> QED BY <1>2, <1>6, <2>1 DEF NativeEvents, Events, IsKnown
  <1> QED BY <1>3, <1>7, <1>8 DEF v

-----------------------------------------------------------------------------
(* Translating a list of events: the two lists are the same length, place by *)
(* place an event and what became of it                                     *)

Matches(w, k) ==
  /\ w \in Seq(WasmEvents) /\ k \in Seq(HostEvents) /\ Len(w) = Len(k)
  /\ \A i \in 1..Len(w) : IsKnown(k[i]) /\ Crossed(k[i], w[i])

LEMMA MatchesConcat ==
  ASSUME NEW w, NEW k, Matches(w, k), NEW x, NEW y, Matches(x, y)
  PROVE  Matches(w \o x, k \o y)
  <1>1. /\ w \o x \in Seq(WasmEvents) /\ Len(w \o x) = Len(w) + Len(x)
        /\ \A i \in 1..Len(w) + Len(x) :
             (w \o x)[i] = IF i <= Len(w) THEN w[i] ELSE x[i - Len(w)]
    BY ConcatProperties DEF Matches
  <1>2. /\ k \o y \in Seq(HostEvents) /\ Len(k \o y) = Len(k) + Len(y)
        /\ \A i \in 1..Len(k) + Len(y) :
             (k \o y)[i] = IF i <= Len(k) THEN k[i] ELSE y[i - Len(k)]
    BY ConcatProperties DEF Matches
  <1>3. Len(w) \in Nat /\ Len(x) \in Nat /\ Len(w) = Len(k) /\ Len(x) = Len(y)  BY DEF Matches
  <1>4. ASSUME NEW i \in 1..Len(w) + Len(x)
        PROVE  IsKnown((k \o y)[i]) /\ Crossed((k \o y)[i], (w \o x)[i])
    <2>1. CASE i <= Len(w)
      <3>1. i \in 1..Len(w)  BY <1>3, <2>1
      <3>2. IsKnown(k[i]) /\ Crossed(k[i], w[i])  BY <3>1 DEF Matches
      <3>3. (w \o x)[i] = w[i] /\ (k \o y)[i] = k[i]  BY <1>1, <1>2, <1>3, <2>1
      <3> QED BY <3>2, <3>3
    <2>2. CASE ~(i <= Len(w))
      <3>1. i - Len(w) \in 1..Len(x)  BY <1>3, <2>2
      <3>2. IsKnown(y[i - Len(w)]) /\ Crossed(y[i - Len(w)], x[i - Len(w)])  BY <3>1 DEF Matches
      <3>3. (w \o x)[i] = x[i - Len(w)] /\ (k \o y)[i] = y[i - Len(w)]
        BY <1>1, <1>2, <1>3, <2>2
      <3> QED BY <3>2, <3>3
    <2> QED BY <2>1, <2>2
  <1> QED BY <1>1, <1>2, <1>3, <1>4 DEF Matches

Kept(e) == IF e.space = "core" /\ e.type <= 12 THEN <<e>> ELSE <<>>

LEMMA MatchesOne == ASSUME NEW e \in HostEvents  PROVE Matches(ToWasm(e), Kept(e))
  <1>1. CASE IsKnown(e)
    <2>1. PICK w : ToWasm(e) = <<w>> /\ Crossed(e, w)  BY <1>1, EventCrosses
    <2>2. Kept(e) = <<e>>  BY <1>1 DEF Kept, IsKnown
    <2>3. w \in WasmEvents  BY <2>1 DEF Crossed
    <2> QED BY <1>1, <2>1, <2>2, <2>3 DEF Matches
  <1>2. CASE ~IsKnown(e)
    <2>1. ToWasm(e) = <<>>  BY <1>2, EventCrosses
    <2>2. Kept(e) = <<>>  BY <1>2 DEF Kept, IsKnown
    <2> QED BY <2>1, <2>2 DEF Matches
  <1> QED BY <1>1, <1>2

LEMMA InputMatches ==
  ASSUME NEW src \in Seq(HostEvents)
  PROVE  Matches(InputEvents(src), Known(src))
  <1> DEFINE n == Len(src)
             A == [i \in DOMAIN src |-> ToWasm(src[i])]
             B == [i \in DOMAIN src |-> Kept(src[i])]
  <1>1. n \in Nat /\ DOMAIN src = 1..n /\ \A i \in 1..n : src[i] \in HostEvents  OBVIOUS
  <1>2. InputEvents(src) = FlattenSeq(A) /\ Known(src) = FlattenSeq(B)
    BY DEF InputEvents, Known, Kept
  <1>3. Len(A) = n /\ Len(B) = n  BY <1>1
  <1>4. \A i \in 1..n : A[i] = ToWasm(src[i]) /\ B[i] = Kept(src[i])  BY <1>1
  <1>5. \A i \in 1..n : Matches(A[i], B[i])  BY <1>1, <1>4, MatchesOne
  <1>6. CASE n = 0
    <2>1. A = <<>> /\ B = <<>>  BY <1>1, <1>6
    <2>2. FlattenSeq(A) = <<>> /\ FlattenSeq(B) = <<>>  BY <2>1 DEF FlattenSeq
    <2>3. Matches(<<>>, <<>>)  BY DEF Matches
    <2> QED BY <1>2, <2>2, <2>3
  <1>7. CASE n # 0
    <2> HIDE DEF n, A, B
    <2>1. n \in Nat \ {0}  BY <1>1, <1>7
    <2>2. PICK f : IsFlatten(f, A, n) /\ FlattenSeq(A) = f[n]  BY <1>3, <2>1, Flattened
    <2>3. PICK g : IsFlatten(g, B, n) /\ FlattenSeq(B) = g[n]  BY <1>3, <2>1, Flattened
    <2>4. \A i \in 1..n : /\ f[i] = IF i = 1 THEN A[i] ELSE f[i-1] \o A[i]
                          /\ g[i] = IF i = 1 THEN B[i] ELSE g[i-1] \o B[i]
      BY <2>2, <2>3, Zenon DEF IsFlatten
    <2> DEFINE T == {m \in Nat : m + 1 \in 1..n => Matches(f[m + 1], g[m + 1])}
    <2>5. 0 \in T
      <3>1. 0 + 1 = 1 /\ 1 \in 1..n  BY <2>1
      <3>2. f[1] = A[1] /\ g[1] = B[1]  BY <2>4, <3>1
      <3> QED BY <1>5, <3>1, <3>2
    <2>6. ASSUME NEW m \in Nat, m \in T  PROVE m + 1 \in T
      <3>1. SUFFICES ASSUME m + 1 + 1 \in 1..n  PROVE Matches(f[m + 1 + 1], g[m + 1 + 1])
        OBVIOUS
      <3> DEFINE i == m + 1 + 1
      <3>2. i \in 1..n /\ i # 1 /\ i - 1 = m + 1 /\ m + 1 \in 1..n  BY <2>1, <3>1
      <3>3. Matches(f[m + 1], g[m + 1])  BY <2>6, <3>2
      <3>4. f[i] = f[i - 1] \o A[i] /\ g[i] = g[i - 1] \o B[i]  BY <2>4, <3>2
      <3>5. Matches(A[i], B[i])  BY <1>5, <3>2
      <3> HIDE DEF i
      <3>6. Matches(f[i], g[i])  BY <3>2, <3>3, <3>4, <3>5, MatchesConcat
      <3> QED BY <3>6 DEF i
    <2> HIDE DEF T
    <2>7. n - 1 \in T  BY <2>1, <2>5, <2>6, SetInduction
    <2>8. n - 1 + 1 = n /\ n \in 1..n  BY <2>1
    <2>9. Matches(f[n], g[n])  BY <2>7, <2>8 DEF T
    <2> QED BY <1>2, <2>2, <2>3, <2>9
  <1> QED BY <1>6, <1>7

-----------------------------------------------------------------------------
(* One call: how it begins, and what may change in it *)

Good == {f \in Frame : Carries(f) /\ Translates(f)}

NewFrame(op, at, src) ==
  [op |-> op, at |-> at, src |-> src, io |-> <<>>, pos |-> 0, told |-> <<>>,
   input |-> IF op \in EventOps THEN InputEvents(src) ELSE <<>>]

LEMMA OpsAre ==
  /\ EventOps = {"process", "flush"} /\ OutOps = {"save", "resource"}
  /\ Ops = {"process", "flush", "save", "resource", "load"}
  /\ Ops \ EventOps = {"save", "resource", "load"}
  BY DEF EventOps, OutOps, Ops

LEMMA EventFrame ==
  ASSUME NEW f, f.op \in EventOps
  PROVE  f \in Frame <=> f \in Frames(EventOps, NativeEvents)
  BY DEF Frame, Frames

LEMMA StreamFrame ==
  ASSUME NEW f, f.op \notin EventOps
  PROVE  f \in Frame <=> f \in Frames(Ops \ EventOps, Bytes)
  BY DEF Frame, Frames

LEMMA HostListIsSeq == ASSUME NEW src \in HostLists  PROVE src \in Seq(HostEvents)
  <1>1. PICK n \in 0..MaxEvents : src \in [1..n -> HostEvents]  BY DEF HostLists
  <1>2. n \in Nat  BY SizeAssumption, <1>1
  <1> QED BY <1>1, <1>2

LEMMA HostSeqIsNative == ASSUME NEW src \in Seq(HostEvents)  PROVE src \in Seq(NativeEvents)
  <1>1. HostEvents \subseteq NativeEvents  BY HostEventIs
  <1> QED BY <1>1, SeqMonotonic

LEMMA NewEventCall ==
  ASSUME NEW op \in EventOps, NEW at \in {"wasm", "false"}, NEW src \in HostLists
  PROVE  NewFrame(op, at, src) \in Good
  <1> DEFINE f == NewFrame(op, at, src)
  <1>1. src \in Seq(HostEvents) /\ src \in Seq(NativeEvents)  BY HostListIsSeq, HostSeqIsNative
  <1>2. InputEvents(src) \in Seq(WasmEvents)  BY <1>1, InputMatches DEF Matches
  <1>3. /\ f.op = op /\ f.at = at /\ f.src = src /\ f.io = <<>> /\ f.told = <<>>
        /\ f.input = InputEvents(src)
    BY DEF NewFrame
  <1>4. f \in Frames(EventOps, NativeEvents)  BY <1>1, <1>2 DEF Frames, NewFrame
  <1> HIDE DEF f
  <1>5. f \in Frame  BY <1>3, <1>4, EventFrame
  <1>6. Carries(f)  BY <1>3 DEF Carries
  <1>7. CameBack(f)
    <2>1. [k \in DOMAIN f.told |-> Known(f.src)[f.told[k]]] = <<>>  BY <1>3
    <2> QED BY <1>3, <2>1 DEF CameBack
  <1>8. Translates(f)  BY <1>1, <1>3, <1>7 DEF Translates
  <1> QED BY <1>5, <1>6, <1>8 DEF f, Good

LEMMA SourceIs ==
  ASSUME NEW n \in Nat, Depth \in Nat
  PROVE  Source(n) \in Seq(Bytes) /\ Len(Source(n)) = n
  <1> DEFINE d == Depth + 1
             s == [i \in 1..n |-> <<d, i>>]
  <1>1. d \in Nat /\ Source(n) = s  BY DEF Source
  <1> HIDE DEF d
  <1>2. \A i \in 1..n : <<d, i>> \in Bytes  BY <1>1 DEF Bytes
  <1>3. s \in Seq(Bytes) /\ Len(s) = n  BY <1>2
  <1> QED BY <1>1, <1>3

LEMMA NewStreamCall ==
  ASSUME NEW op \in Ops \ EventOps, NEW at \in {"wasm", "file", "false"}, NEW n \in Lengths,
         Depth \in Nat
  PROVE  NewFrame(op, at, Source(n)) \in Good
  <1> DEFINE f == NewFrame(op, at, Source(n))
  <1>1. Source(n) \in Seq(Bytes) /\ Len(Source(n)) = n /\ n \in Nat  BY SourceIs, SizeAssumption
  <1>2. /\ f.op = op /\ f.at = at /\ f.src = Source(n) /\ f.io = <<>> /\ f.told = <<>>
        /\ f.input = <<>> /\ f.pos = 0
    BY DEF NewFrame
  <1>3. f \in Frames(Ops \ EventOps, Bytes)  BY <1>1 DEF Frames, NewFrame
  <1> HIDE DEF f
  <1>4. f \in Frame  BY <1>2, <1>3, StreamFrame
  <1>5. SubSeq(f.src, 1, 0) = <<>>  BY SubSeqEmpty
  <1>6. Carries(f)  BY <1>1, <1>2, <1>5 DEF Carries
  <1>7. Translates(f)  BY <1>2 DEF Translates
  <1> QED BY <1>4, <1>6, <1>7 DEF f, Good

\* An answer; of a stream, true only at the end.
LEMMA Answered ==
  ASSUME NEW f \in Good, NEW at \in {"true", "false"},
         f.op \notin EventOps /\ at = "true" => f.pos = Len(f.src)
  PROVE  [f EXCEPT !.at = at] \in Good
  <1> DEFINE g == [f EXCEPT !.at = at]
  <1>1. f \in Frame /\ Carries(f) /\ Translates(f)  BY DEF Good
  <1>2. /\ g \in Frame /\ g.op = f.op /\ g.at = at /\ g.src = f.src /\ g.io = f.io
        /\ g.pos = f.pos /\ g.input = f.input /\ g.told = f.told
    BY <1>1 DEF Frame, Frames
  <1> HIDE DEF g
  <1>3. Carries(g)  BY <1>1, <1>2 DEF Carries
  <1>4. Translates(g)  BY <1>1, <1>2 DEF Translates, CameBack
  <1> QED BY <1>2, <1>3, <1>4 DEF g, Good

LEMMA Passed ==
  ASSUME NEW f \in Good, f.op \in EventOps, NEW i \in Nat
  PROVE  [f EXCEPT !.pos = i] \in Good
  <1> DEFINE g == [f EXCEPT !.pos = i]
  <1>1. f \in Frame /\ Carries(f) /\ Translates(f)  BY DEF Good
  <1>2. /\ g \in Frame /\ g.op = f.op /\ g.at = f.at /\ g.src = f.src /\ g.io = f.io
        /\ g.input = f.input /\ g.told = f.told
    BY <1>1 DEF Frame, Frames
  <1> HIDE DEF g
  <1>3. Carries(g)  BY <1>2 DEF Carries
  <1>4. Translates(g)  BY <1>1, <1>2 DEF Translates, CameBack
  <1> QED BY <1>2, <1>3, <1>4 DEF g, Good

LEMMA StreamPart ==
  ASSUME NEW f \in Good, f.op \notin EventOps
  PROVE  /\ f.op \in Ops \ EventOps /\ f.at \in {"wasm", "file", "true", "false"}
         /\ f.src \in Seq(Bytes) /\ f.io \in Seq(Bytes) /\ f.pos \in Nat /\ f.told \in Seq(Nat)
         /\ Len(f.src) \in Nat /\ f.pos \in 0..Len(f.src) /\ f.io = SubSeq(f.src, 1, f.pos)
         /\ f.told # <<>> => f.op = "load" /\ f.pos = Len(f.src)
         /\ f.at = "true" => f.pos = Len(f.src)
  <1>1. f \in Frames(Ops \ EventOps, Bytes)  BY StreamFrame DEF Good
  <1>2. /\ f.op \in Ops \ EventOps /\ f.at \in {"wasm", "file", "true", "false"}
        /\ f.src \in Seq(Bytes) /\ f.io \in Seq(Bytes) /\ f.pos \in Nat /\ f.told \in Seq(Nat)
    BY <1>1 DEF Frames
  <1>3. Len(f.src) \in Nat  BY <1>2
  <1>4. Carries(f)  BY DEF Good
  <1> QED BY <1>2, <1>3, <1>4 DEF Carries

\* A transfer continues where the last one ended.
LEMMA Transferred ==
  ASSUME NEW f \in Good, f.op \notin EventOps, NEW r \in 1..(Len(f.src) - f.pos)
  PROVE  [f EXCEPT !.pos = f.pos + r,
                   !.io = f.io \o SubSeq(f.src, f.pos + 1, f.pos + r)] \in Good
  <1> DEFINE part == SubSeq(f.src, f.pos + 1, f.pos + r)
             g == [f EXCEPT !.pos = f.pos + r, !.io = f.io \o part]
  <1>1. /\ f.op \in Ops \ EventOps /\ f.at \in {"wasm", "file", "true", "false"}
        /\ f.src \in Seq(Bytes) /\ f.io \in Seq(Bytes) /\ f.pos \in Nat /\ f.told \in Seq(Nat)
        /\ Len(f.src) \in Nat /\ f.pos \in 0..Len(f.src) /\ f.io = SubSeq(f.src, 1, f.pos)
        /\ f.told # <<>> => f.op = "load" /\ f.pos = Len(f.src)
        /\ f.at = "true" => f.pos = Len(f.src)
    BY StreamPart
  <1>2. f.pos + r \in Nat /\ f.pos + r <= Len(f.src) /\ f.told = <<>> /\ f.at # "true"
    BY <1>1
  <1>3. f.io \o part = SubSeq(f.src, 1, f.pos + r)
    <2>1. 1 \in 1..Len(f.src) + 1 /\ f.pos \in 1 - 1..Len(f.src) /\ f.pos + r \in f.pos..Len(f.src)
      BY <1>1, <1>2
    <2> QED BY ONLY <1>1, <2>1, ConcatAdjacentSubSeq DEF part
  <1>4. SubSeq(f.src, 1, f.pos + r) \in Seq(Bytes)
    <2>1. \A i \in 1..f.pos + r : f.src[i] \in Bytes  BY <1>1, <1>2
    <2> QED BY <1>2, <2>1, SubSeqProperties
  <1>5. f \in Frames(Ops \ EventOps, Bytes)  BY StreamFrame DEF Good
  <1> HIDE DEF part
  <1>6. /\ g \in Frames(Ops \ EventOps, Bytes)
        /\ g.op = f.op /\ g.at = f.at /\ g.src = f.src /\ g.io = f.io \o part
        /\ g.pos = f.pos + r /\ g.told = f.told
    BY <1>2, <1>3, <1>4, <1>5 DEF Frames
  <1> HIDE DEF g
  <1>7. g \in Frame  BY <1>6, StreamFrame
  <1>8. Carries(g)  BY <1>1, <1>2, <1>3, <1>6 DEF Carries
  <1>9. Translates(g)  BY <1>6 DEF Translates
  <1> QED BY <1>7, <1>8, <1>9 DEF g, part, Good

LEMMA Ended ==
  ASSUME NEW f \in Good, f.op = "load", f.pos = Len(f.src)
  PROVE  [f EXCEPT !.told = <<0>>] \in Good
  <1> DEFINE g == [f EXCEPT !.told = <<0>>]
  <1>1. f.op \notin EventOps  BY DEF EventOps
  <1>2. f \in Frames(Ops \ EventOps, Bytes) /\ Carries(f)  BY <1>1, StreamFrame DEF Good
  <1>3. /\ g \in Frames(Ops \ EventOps, Bytes)
        /\ g.op = f.op /\ g.at = f.at /\ g.src = f.src /\ g.io = f.io /\ g.pos = f.pos
    <2>1. <<0>> \in Seq(Nat)  OBVIOUS
    <2> QED BY <1>2, <2>1 DEF Frames
  <1> HIDE DEF g
  <1>4. g \in Frame  BY <1>1, <1>3, StreamFrame
  <1>5. Carries(g)  BY <1>1, <1>2, <1>3 DEF Carries
  <1>6. Translates(g)  BY <1>1, <1>3 DEF Translates
  <1> QED BY <1>4, <1>5, <1>6 DEF g, Good

LEMMA EventPart ==
  ASSUME NEW f \in Good, f.op \in EventOps
  PROVE  /\ f \in Frames(EventOps, NativeEvents)
         /\ f.src \in Seq(HostEvents) /\ f.input = InputEvents(f.src)
         /\ Matches(f.input, Known(f.src)) /\ Len(f.input) \in Nat
         /\ f.told \in Seq(Nat) /\ f.io \in Seq(NativeEvents)
  <1>1. f \in Frames(EventOps, NativeEvents)  BY EventFrame DEF Good
  <1>2. f.told \in Seq(Nat) /\ f.io \in Seq(NativeEvents) /\ f.input \in Seq(WasmEvents)
    BY <1>1 DEF Frames
  <1>3. Translates(f)  BY DEF Good
  <1>4. f.src \in Seq(HostEvents) /\ f.input = InputEvents(f.src)  BY <1>3 DEF Translates
  <1>5. Matches(f.input, Known(f.src))  BY <1>4, InputMatches
  <1> QED BY <1>1, <1>2, <1>4, <1>5

\* What the WASM code sends back of what it found: nothing, or the event itself.
LEMMA SentIs ==
  ASSUME NEW f \in Good, f.op \in EventOps, NEW i \in 1..Len(f.input)
  PROVE  LET sent == FromWasm([f.input[i] EXCEPT !.hdr = "wasm"]) IN
           \/ sent = <<>>
           \/ \E x \in NativeEvents :
                sent = <<x>> /\ (HostPtrs >= WasmPtrs => x = Known(f.src)[i])
  <1> DEFINE w == f.input[i]
             e == Known(f.src)[i]
  <1>1. Matches(f.input, Known(f.src))  BY EventPart
  <1>2. IsKnown(e) /\ Crossed(e, w) /\ e \in HostEvents  BY <1>1 DEF Matches
  <1> HIDE DEF w, e
  <1>3. LET sent == FromWasm([w EXCEPT !.hdr = "wasm"]) IN
          sent = <<>> \/ \E x \in NativeEvents : sent = <<x>> /\ (HostPtrs >= WasmPtrs => x = e)
    BY <1>2, EventReturns
  <1> QED BY <1>3 DEF w, e

LEMMA Sent ==
  ASSUME NEW f \in Good, f.op \in EventOps, NEW i \in 1..Len(f.input), NEW x \in NativeEvents,
         HostPtrs >= WasmPtrs => x = Known(f.src)[i]
  PROVE  [f EXCEPT !.pos = i, !.told = Append(f.told, i), !.io = f.io \o <<x>>] \in Good
  <1> DEFINE told == Append(f.told, i)
             io == f.io \o <<x>>
             g == [f EXCEPT !.pos = i, !.told = told, !.io = io]
  <1>1. /\ f \in Frames(EventOps, NativeEvents)
        /\ f.src \in Seq(HostEvents) /\ f.input = InputEvents(f.src)
        /\ Len(f.input) \in Nat
        /\ f.told \in Seq(Nat) /\ f.io \in Seq(NativeEvents)
    BY EventPart
  <1>2. Translates(f)  BY DEF Good
  <1>3. i \in Nat  BY <1>1
  <1>4. /\ told \in Seq(Nat) /\ Len(told) = Len(f.told) + 1
        /\ \A k \in 1..Len(f.told) : told[k] = f.told[k]
        /\ told[Len(f.told) + 1] = i
    BY <1>1, <1>3, AppendProperties
  <1>5. /\ io \in Seq(NativeEvents) /\ Len(io) = Len(f.io) + 1
        /\ \A k \in 1..Len(f.io) : io[k] = f.io[k]
        /\ io[Len(f.io) + 1] = x
    <2>1. io = Append(f.io, x)  BY <1>1, AppendIsConcat
    <2> HIDE DEF io
    <2> QED BY <1>1, <2>1, AppendProperties
  <1>6. Len(f.told) \in Nat /\ DOMAIN f.told = 1..Len(f.told)  BY <1>1
  <1>7. DOMAIN told = 1..Len(f.told) + 1  BY <1>4
  <1> HIDE DEF told, io
  <1>8. /\ g \in Frames(EventOps, NativeEvents) /\ g.op = f.op /\ g.at = f.at
        /\ g.src = f.src /\ g.input = f.input /\ g.told = told /\ g.io = io
    BY <1>1, <1>3, <1>4, <1>5 DEF Frames
  <1> HIDE DEF g
  <1>9. \A k \in DOMAIN told : told[k] \in 1..Len(f.input)
    <2>1. \A k \in 1..Len(f.told) : f.told[k] \in 1..Len(f.input)  BY <1>2, <1>6 DEF Translates
    <2>2. \A k \in 1..Len(f.told) : told[k] \in 1..Len(f.input)  BY <1>4, <2>1
    <2>3. told[Len(f.told) + 1] \in 1..Len(f.input)  BY <1>4
    <2> QED BY <1>6, <1>7, <2>2, <2>3
  <1>10. ASSUME HostPtrs >= WasmPtrs  PROVE CameBack(g)
    <2> DEFINE K == Known(f.src)
    <2> HIDE DEF K
    <2>1. f.io = [k \in DOMAIN f.told |-> K[f.told[k]]]  BY <1>2, <1>10 DEF Translates, CameBack, K
    <2>2. Len(f.io) = Len(f.told)  BY <1>1, <1>6, <2>1
    <2>3. \A k \in 1..Len(f.told) : io[k] = K[told[k]]  BY <1>4, <1>5, <1>6, <2>1, <2>2
    <2>4. io[Len(f.told) + 1] = K[told[Len(f.told) + 1]]  BY <1>4, <1>5, <1>10, <2>2 DEF K
    <2>5. \A k \in DOMAIN told : io[k] = K[told[k]]  BY <1>6, <1>7, <2>3, <2>4
    <2>6. DOMAIN io = DOMAIN told  BY <1>5, <1>7, <2>2
    <2>7. io = [k \in DOMAIN told |-> K[told[k]]]  BY <1>5, <2>5, <2>6
    <2> QED BY <1>8, <2>7 DEF CameBack, K
  <1>11. Carries(g)  BY <1>8 DEF Carries
  <1>12. Translates(g)  BY <1>1, <1>2, <1>8, <1>9, <1>10 DEF Translates
  <1>13. g \in Frame  BY <1>8, EventFrame
  <1> QED BY <1>11, <1>12, <1>13 DEF g, told, io, Good

-----------------------------------------------------------------------------
(* The pointers while calls come and go *)

Pointer(s, p, ops) == p \in 0..Len(s) /\ PointsTo(s, p, ops)

LEMMA NullPointer == ASSUME NEW s \in Seq(Good), NEW ops  PROVE Pointer(s, 0, ops)
  BY DEF Pointer, PointsTo

LEMMA PointerOverCall ==
  ASSUME NEW s \in Seq(Good), NEW f \in Good, NEW p, NEW ops, Pointer(s, p, ops),
         f.op \in ops => f.at # "wasm"
  PROVE  Pointer(Append(s, f), p, ops)
  <1> DEFINE t == Append(s, f)
  <1>1. /\ Len(t) = Len(s) + 1 /\ Len(s) \in Nat
        /\ \A i \in 1..Len(s) : t[i] = s[i] 
        /\ t[Len(s) + 1] = f
    OBVIOUS
  <1> HIDE DEF t
  <1>2. p \in 0..Len(t)  BY <1>1 DEF Pointer
  <1>3. ASSUME p # 0  PROVE t[p] = s[p] /\ t[p].at = "wasm" /\ t[p].op \in ops
    BY <1>1, <1>3 DEF Pointer, PointsTo
  <1>4. ASSUME p # 0, NEW d \in p + 1..Len(t), t[d].op \in ops  PROVE t[d].at # "wasm"
    <2>1. d = Len(s) + 1 \/ (d \in p + 1..Len(s) /\ d \in 1..Len(s))  BY <1>1, <1>4 DEF Pointer
    <2> QED BY <1>1, <1>4, <2>1 DEF Pointer, PointsTo
  <1> QED BY <1>2, <1>3, <1>4 DEF Pointer, PointsTo, t

LEMMA PointerToCall ==
  ASSUME NEW s \in Seq(Good), NEW f \in Good, NEW ops, f.op \in ops, f.at = "wasm"
  PROVE  Pointer(Append(s, f), Len(s) + 1, ops)
  <1> DEFINE t == Append(s, f)
  <1>1. Len(t) = Len(s) + 1 /\ Len(s) \in Nat /\ t[Len(s) + 1] = f  OBVIOUS
  <1> HIDE DEF t
  <1> QED BY <1>1 DEF Pointer, PointsTo, t

\* The innermost call goes on, and its pointer is its own still or null.
LEMMA PointerOverChange ==
  ASSUME NEW s \in Seq(Good), s # <<>>, NEW f \in Good, NEW p, NEW ops, Pointer(s, p, ops),
         f.op = s[Len(s)].op,
         f.at = s[Len(s)].at \/ (f.at # "wasm" /\ p # Len(s))
  PROVE  Pointer([s EXCEPT ![Len(s)] = f], p, ops)
  <1> DEFINE n == Len(s)
             t == [s EXCEPT ![n] = f]
  <1>1. /\ n \in Nat \ {0} /\ Len(t) = n
        /\ \A i \in 1..n : t[i] = IF i = n THEN f ELSE s[i]
    OBVIOUS
  <1> HIDE DEF n, t
  <1>2. f.op = s[n].op /\ (f.at = s[n].at \/ (f.at # "wasm" /\ p # n)) /\ p \in 0..n
    BY DEF n, Pointer
  <1>3. ASSUME p # 0  PROVE t[p].at = "wasm" /\ t[p].op \in ops
    <2>1. s[p].at = "wasm" /\ s[p].op \in ops  BY <1>3 DEF Pointer, PointsTo
    <2> QED BY <1>1, <1>2, <1>3, <2>1
  <1>4. ASSUME p # 0, NEW d \in p + 1..n, t[d].op \in ops  PROVE t[d].at # "wasm"
    <2>1. s[d].op \in ops => s[d].at # "wasm"  BY <1>4 DEF Pointer, PointsTo, n
    <2>2. d \in 1..n  BY <1>1, <1>2, <1>4
    <2> QED BY <1>1, <1>2, <1>4, <2>1, <2>2
  <1> QED BY <1>1, <1>2, <1>3, <1>4 DEF Pointer, PointsTo, n, t

LEMMA WithoutLast ==
  ASSUME NEW s \in Seq(Good), s # <<>>
  PROVE  /\ SubSeq(s, 1, Len(s) - 1) \in Seq(Good)
         /\ Len(SubSeq(s, 1, Len(s) - 1)) = Len(s) - 1
         /\ \A i \in 1..Len(s) - 1 : SubSeq(s, 1, Len(s) - 1)[i] = s[i]
  <1> DEFINE n == Len(s) - 1
             t == SubSeq(s, 1, n)
  <1>1. n \in Nat /\ 1 \in Int /\ n \in Int  OBVIOUS
  <1>2. \A i \in 1..n : s[i] \in Good  BY <1>1
  <1>3. /\ t \in Seq(Good) /\ Len(t) = IF 1 <= n THEN n - 1 + 1 ELSE 0
        /\ \A i \in 1..n - 1 + 1 : t[i] = s[1 + i - 1]
    BY <1>1, <1>2, SubSeqProperties
  <1> HIDE DEF n, t
  <1>4. Len(t) = n  BY <1>1, <1>3
  <1>5. \A i \in 1..n : t[i] = s[i]  BY <1>1, <1>3
  <1> QED BY <1>3, <1>4, <1>5 DEF n, t

LEMMA PointerOverReturn ==
  ASSUME NEW s \in Seq(Good), s # <<>>, s[Len(s)].at # "wasm",
         NEW p, NEW ops, Pointer(s, p, ops)
  PROVE  Pointer(SubSeq(s, 1, Len(s) - 1), p, ops)
  <1> DEFINE n == Len(s) - 1
             t == SubSeq(s, 1, n)
  <1>1. Len(t) = n /\ \A i \in 1..n : t[i] = s[i]  BY WithoutLast
  <1>2. n \in Nat /\ Len(s) = n + 1  OBVIOUS
  <1> HIDE DEF n, t
  <1>3. p \in 0..n + 1 /\ p # n + 1
    BY <1>2 DEF Pointer, PointsTo
  <1>4. p \in 0..n  BY <1>2, <1>3
  <1>5. ASSUME p # 0  PROVE t[p].at = "wasm" /\ t[p].op \in ops
    <2>1. t[p] = s[p]  BY <1>1, <1>4, <1>5
    <2> QED BY <1>5, <2>1 DEF Pointer, PointsTo
  <1>6. ASSUME p # 0, NEW d \in p + 1..n, t[d].op \in ops  PROVE t[d].at # "wasm"
    <2>1. d \in p + 1..Len(s) /\ d \in 1..n  BY <1>2, <1>4, <1>6
    <2>2. t[d] = s[d]  BY <1>1, <2>1
    <2> QED BY <1>6, <2>1, <2>2 DEF Pointer, PointsTo
  <1> QED BY <1>1, <1>4, <1>5, <1>6 DEF Pointer, PointsTo, n, t

\* The innermost call, at work in WASM code, finds nothing in the pointer, or itself.
LEMMA PointerIsOwn ==
  ASSUME NEW s \in Seq(Good), s # <<>>, s[Len(s)].at = "wasm",
         NEW p, NEW ops, Pointer(s, p, ops)
  PROVE  /\ s[Len(s)].op \in ops => p \in {0, Len(s)}
         /\ s[Len(s)].op \notin ops => p # Len(s)
  <1>1. p \in 0..Len(s) /\ Len(s) \in Nat \ {0}  BY DEF Pointer
  <1>2. ASSUME p # 0, p # Len(s)  PROVE s[Len(s)].op \notin ops
    <2>1. Len(s) \in p + 1..Len(s)  BY <1>1, <1>2
    <2> QED BY <1>2, <2>1 DEF Pointer, PointsTo
  <1>3. ASSUME p = Len(s)  PROVE s[Len(s)].op \in ops
    BY <1>1, <1>3 DEF Pointer, PointsTo
  <1> QED BY <1>2, <1>3

-----------------------------------------------------------------------------
(* The invariant, in these terms *)

LEMMA GoodSeq ==
  ASSUME NEW s
  PROVE  s \in Seq(Good) <=> /\ s \in Seq(Frame)
                             /\ \A d \in 1..Len(s) : Carries(s[d]) /\ Translates(s[d])
  <1>1. ASSUME s \in Seq(Good)
        PROVE  s \in Seq(Frame) /\ \A d \in 1..Len(s) : Carries(s[d]) /\ Translates(s[d])
    <2>1. Good \subseteq Frame  BY DEF Good
    <2>2. \A d \in 1..Len(s) : s[d] \in Good  BY <1>1
    <2>3. s \in Seq(Frame)  BY <1>1, <2>1, SeqMonotonic
    <2> QED BY <2>2, <2>3 DEF Good
  <1>2. ASSUME s \in Seq(Frame), \A d \in 1..Len(s) : Carries(s[d]) /\ Translates(s[d])
        PROVE  s \in Seq(Good)
    <2>1. Len(s) \in Nat /\ s \in [1..Len(s) -> Frame]  BY <1>2, LenProperties
    <2>2. \A d \in 1..Len(s) : s[d] \in Good  BY <1>2, <2>1 DEF Good
    <2>3. s \in [1..Len(s) -> Good]  BY <2>1, <2>2
    <2> QED BY <2>1, <2>3
  <1> QED BY <1>1, <1>2

LEMMA IInvMeans ==
  ASSUME IInv
  PROVE  /\ stack \in Seq(Good) /\ Depth \in Nat
         /\ Pointer(stack, hostOstream, OutOps)
         /\ Pointer(stack, hostIstream, {"load"})
         /\ Pointer(stack, hostOutputEvents, EventOps)
         /\ wasFileUri \in BOOLEAN /\ hasError \in BOOLEAN
  <1>1. stack \in Seq(Frame)  BY DEF IInv, TypeOK
  <1>2. stack \in Seq(Good)  BY <1>1, GoodSeq DEF IInv, Depth
  <1>3. Len(stack) \in Nat  BY <1>1
  <1> QED BY <1>2, <1>3 DEF IInv, TypeOK, Pointer, Depth

LEMMA IInvAfter ==
  ASSUME stack' \in Seq(Good),
         Pointer(stack', hostOstream', OutOps),
         Pointer(stack', hostIstream', {"load"}),
         Pointer(stack', hostOutputEvents', EventOps),
         wasFileUri' \in BOOLEAN, hasError' \in BOOLEAN
  PROVE  IInv'
  <1>1. stack' \in Seq(Frame) /\ \A d \in 1..Len(stack') : Carries(stack'[d]) /\ Translates(stack'[d])
    BY GoodSeq
  <1> QED BY <1>1 DEF IInv, TypeOK, Pointer, Depth

-----------------------------------------------------------------------------
(* The shapes of a step *)

Keeps == UNCHANGED ptrs /\ wasFileUri' \in BOOLEAN /\ hasError' \in BOOLEAN

\* The innermost call goes on.
LEMMA ChangeKeeps ==
  ASSUME IInv, stack # <<>>, NEW f \in Good, stack' = [stack EXCEPT ![Depth] = f],
         f.op = Top.op, f.at = Top.at \/ (f.at # "wasm" /\ Top.at # "wasm"), Keeps
  PROVE  IInv'
  <1>1. /\ stack \in Seq(Good) /\ Depth \in Nat
        /\ Pointer(stack, hostOstream, OutOps)
        /\ Pointer(stack, hostIstream, {"load"})
        /\ Pointer(stack, hostOutputEvents, EventOps)
    BY IInvMeans
  <1>2. Depth \in 1..Len(stack)  BY <1>1 DEF Depth
  <1>3. stack' \in Seq(Good)  BY <1>1, <1>2, ExceptSeq
  <1>4. ASSUME NEW p, NEW ops, Pointer(stack, p, ops)  PROVE Pointer(stack', p, ops)
    <2>1. f.at = Top.at \/ (f.at # "wasm" /\ p # Len(stack))
      <3>1. CASE Top.at # "wasm"
        <4>1. p # Len(stack)  BY <1>1, <1>2, <1>4, <3>1 DEF Pointer, PointsTo, Top, Depth
        <4> QED BY <4>1
      <3> QED BY <3>1
    <2> QED BY <1>1, <1>4, <2>1, PointerOverChange DEF Top, Depth
  <1> QED BY <1>1, <1>3, <1>4, IInvAfter DEF Keeps, ptrs

\* A call begins that has no pointer to it.
LEMMA CallKeeps ==
  ASSUME IInv, NEW f \in Good, stack' = Append(stack, f), f.at # "wasm", Keeps
  PROVE  IInv'
  <1>1. /\ stack \in Seq(Good)
        /\ Pointer(stack, hostOstream, OutOps)
        /\ Pointer(stack, hostIstream, {"load"})
        /\ Pointer(stack, hostOutputEvents, EventOps)
    BY IInvMeans
  <1>2. stack' \in Seq(Good)  BY <1>1
  <1>3. \A p, ops : Pointer(stack, p, ops) => Pointer(stack', p, ops)
    BY <1>1, PointerOverCall
  <1> QED BY <1>1, <1>2, <1>3, IInvAfter DEF Keeps, ptrs

LEMMA CallIs ==
  ASSUME NEW op, NEW at, NEW src, Call(op, at, src)
  PROVE  stack' = Append(stack, NewFrame(op, at, src))
  BY DEF Call, NewFrame

-----------------------------------------------------------------------------
(* Every step keeps the invariant *)

LEMMA InitIInv == Init => IInv
  <1> SUFFICES ASSUME Init  PROVE IInv  OBVIOUS
  <1> USE DEF Init
  <1>1. stack \in Seq(Frame) /\ Len(stack) = 0  OBVIOUS
  <1>2. TypeOK
    <2>1. {hostOstream, hostIstream, hostOutputEvents} \subseteq 0..Len(stack)  BY <1>1
    <2>2. {wasFileUri, hasError} \subseteq BOOLEAN  OBVIOUS
    <2> QED BY <1>1, <2>1, <2>2 DEF TypeOK
  <1>3. \A d \in 1..Depth : Carries(stack[d]) /\ Translates(stack[d])  BY <1>1 DEF Depth
  <1>4. \A ops : PointsTo(stack, 0, ops)  BY DEF PointsTo
  <1> QED BY <1>2, <1>3, <1>4 DEF IInv

\* A call begins: its pointer is its own, the others stay with calls around it.
LEMMA BeginKeeps ==
  ASSUME IInv, NEW op \in Ops, NEW src, Begin(op, src), NewFrame(op, "wasm", src) \in Good
  PROVE  IInv'
  <1> DEFINE f == NewFrame(op, "wasm", src)
  <1>1. /\ stack \in Seq(Good) /\ Depth = Len(stack) /\ hasError \in BOOLEAN /\ wasFileUri \in BOOLEAN
        /\ Pointer(stack, hostOstream, OutOps)
        /\ Pointer(stack, hostIstream, {"load"})
        /\ Pointer(stack, hostOutputEvents, EventOps)
    BY IInvMeans DEF Depth
  <1>2. f.op = op /\ f.at = "wasm"  BY DEF NewFrame
  <1>3. stack' = Append(stack, f)  BY CallIs DEF Begin
  <1> HIDE DEF f
  <1>4. f \in Good  BY DEF f
  <1>5. stack' \in Seq(Good)  BY <1>1, <1>3, <1>4
  <1>6. ASSUME NEW p, NEW ops, Pointer(stack, p, ops)  PROVE Pointer(stack', SetFor(op, ops, p), ops)
    <2>1. CASE op \in ops  BY <1>1, <1>2, <1>3, <1>4, <2>1, PointerToCall DEF SetFor
    <2>2. CASE op \notin ops  BY <1>1, <1>2, <1>3, <1>4, <1>6, <2>2, PointerOverCall DEF SetFor
    <2> QED BY <2>1, <2>2
  <1>7. /\ hostOstream' = SetFor(op, OutOps, hostOstream)
        /\ hostIstream' = SetFor(op, {"load"}, hostIstream)
        /\ hostOutputEvents' = SetFor(op, EventOps, hostOutputEvents)
        /\ wasFileUri' = wasFileUri /\ hasError' = hasError
    BY DEF Begin
  <1> QED BY <1>1, <1>5, <1>6, <1>7, IInvAfter

LEMMA RefusalKeeps ==
  ASSUME IInv, NEW op \in Ops, NEW src, BeginRefused(op, src), NewFrame(op, "false", src) \in Good
  PROVE  IInv'
  <1> DEFINE f == NewFrame(op, "false", src)
  <1>1. /\ stack \in Seq(Good) /\ hasError \in BOOLEAN /\ wasFileUri \in BOOLEAN
        /\ Pointer(stack, hostOstream, OutOps)
        /\ Pointer(stack, hostIstream, {"load"})
        /\ Pointer(stack, hostOutputEvents, EventOps)
    BY IInvMeans
  <1>2. f.at # "wasm"  BY DEF NewFrame
  <1>3. stack' = Append(stack, f)  BY CallIs DEF BeginRefused
  <1> HIDE DEF f
  <1>4. f \in Good  BY DEF f
  <1>5. stack' \in Seq(Good)  BY <1>1, <1>3, <1>4
  <1>6. ASSUME NEW p, NEW ops, Pointer(stack, p, ops)  PROVE Pointer(stack', ClearFor(op, ops, p), ops)
    <2>1. Pointer(stack', p, ops)  BY <1>1, <1>2, <1>3, <1>4, <1>6, PointerOverCall
    <2>2. Pointer(stack', 0, ops)  BY <1>5, NullPointer
    <2> QED BY <2>1, <2>2 DEF ClearFor
  <1>7. /\ hostOstream' = ClearFor(op, OutOps, hostOstream)
        /\ hostIstream' = ClearFor(op, {"load"}, hostIstream)
        /\ hostOutputEvents' = ClearFor(op, EventOps, hostOutputEvents)
        /\ wasFileUri' = wasFileUri /\ hasError' = hasError
    BY DEF BeginRefused
  <1> QED BY <1>1, <1>5, <1>6, <1>7, IInvAfter

\* An answer clears the pointer of the call that gives it.
LEMMA AnswerKeeps ==
  ASSUME IInv, InWasm, NEW result \in BOOLEAN, Answer(result), result => Complete,
         wasFileUri' \in BOOLEAN, hasError' \in BOOLEAN
  PROVE  IInv'
  <1> DEFINE at == IF result THEN "true" ELSE "false"
             f == [Top EXCEPT !.at = at]
  <1>1. /\ stack \in Seq(Good) /\ Depth = Len(stack)
        /\ Pointer(stack, hostOstream, OutOps)
        /\ Pointer(stack, hostIstream, {"load"})
        /\ Pointer(stack, hostOutputEvents, EventOps)
    BY IInvMeans DEF Depth
  <1>2. stack # <<>> /\ Top.at = "wasm" /\ Top = stack[Len(stack)] /\ Depth \in 1..Len(stack)
    BY <1>1 DEF InWasm, Top, Depth
  <1>3. Top \in Good  BY <1>1, <1>2
  <1>4. at \in {"true", "false"} /\ at # "wasm"  OBVIOUS
  <1>5. Top.op \notin EventOps /\ at = "true" => Top.pos = Len(Top.src)
    <2>1. SUFFICES ASSUME Top.op \notin EventOps, Complete  PROVE Top.pos = Len(Top.src)  OBVIOUS
    <2>2. CASE Top.op \in OutOps
      <3>1. Top.op # "load"  BY <2>2 DEF OutOps
      <3> QED BY <2>1, <2>2, <3>1 DEF Complete
    <2>3. CASE Top.op = "load"
      <3>1. Top.op \notin OutOps  BY <2>3 DEF OutOps
      <3>2. Top.told = <<0>>  BY <2>1, <2>3, <3>1 DEF Complete
      <3>3. Top.told # <<>>  BY <3>2
      <3> QED BY <1>3, <2>1, <3>3, StreamPart
    <2>4. Top.op \in Ops \ EventOps  BY <1>3, <2>1, StreamPart
    <2> QED BY <2>2, <2>3, <2>4, OpsAre
  <1> HIDE DEF at
  <1>6. f \in Good  BY <1>3, <1>4, <1>5, Answered
  <1>7. f.op = Top.op /\ f.at = at
    BY <1>3 DEF Good, Frame, Frames
  <1>8. stack' = [stack EXCEPT ![Depth] = f]  BY <1>1, <1>2 DEF Answer, Top, at
  <1> HIDE DEF f
  <1>9. stack' \in Seq(Good)  BY <1>1, <1>2, <1>6, <1>8, ExceptSeq
  <1>10. ASSUME NEW p, NEW ops, Pointer(stack, p, ops)
         PROVE  Pointer(stack', ClearFor(Top.op, ops, p), ops)
    <2>1. CASE Top.op \in ops  BY <1>9, <2>1, NullPointer DEF ClearFor
    <2>2. CASE Top.op \notin ops
      <3>1. p # Len(stack)  BY <1>1, <1>2, <1>10, <2>2, PointerIsOwn
      <3>2. Pointer(stack', p, ops)
        BY <1>1, <1>2, <1>4, <1>6, <1>7, <1>8, <1>10, <3>1, PointerOverChange
      <3> QED BY <2>2, <3>2 DEF ClearFor
    <2> QED BY <2>1, <2>2
  <1>11. /\ hostOstream' = ClearFor(Top.op, OutOps, hostOstream)
         /\ hostIstream' = ClearFor(Top.op, {"load"}, hostIstream)
         /\ hostOutputEvents' = ClearFor(Top.op, EventOps, hostOutputEvents)
    BY DEF Answer
  <1> QED BY <1>1, <1>9, <1>10, <1>11, IInvAfter

LEMMA TakenKeeps == ASSUME IInv, Taken  PROVE IInv'
  <1>1. /\ stack \in Seq(Good) /\ Depth = Len(stack) /\ hasError \in BOOLEAN /\ wasFileUri \in BOOLEAN
        /\ Pointer(stack, hostOstream, OutOps)
        /\ Pointer(stack, hostIstream, {"load"})
        /\ Pointer(stack, hostOutputEvents, EventOps)
    BY IInvMeans DEF Depth
  <1>2. /\ stack # <<>> /\ stack[Len(stack)].at # "wasm"
        /\ stack' = SubSeq(stack, 1, Len(stack) - 1)
        /\ UNCHANGED <<hostOstream, hostIstream, hostOutputEvents, wasFileUri, hasError>>
    BY <1>1 DEF Taken, Top, ptrs
  <1>3. stack' \in Seq(Good)  BY <1>1, <1>2, WithoutLast
  <1>4. \A p, ops : Pointer(stack, p, ops) => Pointer(stack', p, ops)
    BY <1>1, <1>2, PointerOverReturn
  <1> QED BY <1>1, <1>2, <1>3, <1>4, IInvAfter

LEMMA TopIs ==
  ASSUME IInv, stack # <<>>
  PROVE  /\ stack \in Seq(Good) /\ Depth \in 1..Len(stack) /\ Depth = Len(stack)
         /\ Top \in Good /\ Top = stack[Depth]
  <1>1. stack \in Seq(Good)  BY IInvMeans
  <1>2. Depth \in 1..Len(stack)  BY <1>1 DEF Depth
  <1> QED BY <1>1, <1>2 DEF Top, Depth

\* The WASM code passes an event, or sends it on to the host of this call.
LEMMA EchoKeeps == ASSUME IInv, Echo  PROVE IInv'
  <1> DEFINE i == Top.pos + 1
             sent == FromWasm([Top.input[i] EXCEPT !.hdr = "wasm"])
  <1>1. stack # <<>> /\ Top.at = "wasm" /\ Top.op \in EventOps  BY DEF Echo, InWasm
  <1>2. /\ stack \in Seq(Good) /\ Depth \in 1..Len(stack) /\ Depth = Len(stack)
        /\ Top \in Good /\ Top = stack[Depth]
    BY <1>1, TopIs
  <1>3. Top \in Frames(EventOps, NativeEvents) /\ Len(Top.input) \in Nat  BY <1>1, <1>2, EventPart
  <1>4. i \in 1..Len(Top.input) /\ i \in Nat
    <2>1. Top.pos \in Nat  BY <1>3 DEF Frames
    <2>2. Top.pos < Len(Top.input)  BY DEF Echo
    <2> QED BY <1>3, <2>1, <2>2
  <1>5. Keeps
    <2>1. wasFileUri \in BOOLEAN /\ hasError \in BOOLEAN  BY IInvMeans
    <2> QED BY <2>1 DEF Echo, Keeps
  <1>6. \/ stack' = [stack EXCEPT ![Depth].pos = i]
        \/ /\ hostOutputEvents # 0 /\ sent # <<>>
           /\ stack' = [stack EXCEPT ![Depth].pos = i, ![Depth].told = Append(@, i),
                                     ![hostOutputEvents].io = @ \o sent]
    BY DEF Echo
  <1> HIDE DEF i
  <1>7. CASE stack' = [stack EXCEPT ![Depth].pos = i]
    <2> DEFINE f == [Top EXCEPT !.pos = i]
    <2>1. f \in Good  BY <1>1, <1>2, <1>4, Passed
    <2>2. f.op = Top.op /\ f.at = Top.at  BY <1>3 DEF Frames
    <2>3. stack' = [stack EXCEPT ![Depth] = f]  BY <1>2, <1>7
    <2> HIDE DEF f
    <2> QED BY <1>1, <1>5, <2>1, <2>2, <2>3, ChangeKeeps
  <1>8. CASE /\ hostOutputEvents # 0 /\ sent # <<>>
             /\ stack' = [stack EXCEPT ![Depth].pos = i, ![Depth].told = Append(@, i),
                                       ![hostOutputEvents].io = @ \o sent]
    <2>1. hostOutputEvents = Depth
      <3>1. Pointer(stack, hostOutputEvents, EventOps)  BY IInvMeans
      <3> QED BY <1>1, <1>2, <1>8, <3>1, PointerIsOwn
    <2>2. PICK x \in NativeEvents :
            sent = <<x>> /\ (HostPtrs >= WasmPtrs => x = Known(Top.src)[i])
      BY <1>1, <1>2, <1>4, <1>8, SentIs
    <2> HIDE DEF sent
    <2> DEFINE f == [Top EXCEPT !.pos = i, !.told = Append(Top.told, i), !.io = Top.io \o <<x>>]
    <2>3. f \in Good  BY <1>1, <1>2, <1>4, <2>2, Sent
    <2>4. f.op = Top.op /\ f.at = Top.at  BY <1>3 DEF Frames
    <2>5. stack' = [stack EXCEPT ![Depth].pos = i, ![Depth].told = Append(@, i),
                                 ![Depth].io = @ \o <<x>>]
      BY <1>8, <2>1, <2>2
    <2>6. stack' = [stack EXCEPT ![Depth] = f]  BY <1>2, <1>3, <2>5 DEF Frames
    <2> HIDE DEF f
    <2> QED BY <1>1, <1>5, <2>3, <2>4, <2>6, ChangeKeeps
  <1> QED BY <1>6, <1>7, <1>8

LEMMA SmallerIs ==
  ASSUME NEW a \in Int, NEW b \in Int  PROVE Smaller(a, b) \in Int /\ Smaller(a, b) <= a /\ Smaller(a, b) <= b
  BY DEF Smaller

LEMMA CapIs == Cap \in Nat \ {0}
  BY SizeAssumption

\* A stream of this call's takes or gives r bytes more.
LEMMA TransferKeeps ==
  ASSUME IInv, stack # <<>>, Top.op \notin EventOps, Keeps, NEW r \in 1..(Len(Top.src) - Top.pos),
         stack' = [stack EXCEPT ![Depth].pos = @ + r,
                     ![Depth].io = @ \o SubSeq(Top.src, Top.pos + 1, Top.pos + r)]
  PROVE  IInv'
  <1> DEFINE part == SubSeq(Top.src, Top.pos + 1, Top.pos + r)
             f == [Top EXCEPT !.pos = Top.pos + r, !.io = Top.io \o part]
  <1>1. stack \in Seq(Good) /\ Depth \in 1..Len(stack) /\ Top \in Good /\ Top = stack[Depth]
    BY TopIs
  <1>2. f \in Good  BY <1>1, Transferred
  <1>3. Top \in Frame  BY <1>1 DEF Good
  <1> HIDE DEF part
  <1>4. f.op = Top.op /\ f.at = Top.at  BY <1>3 DEF Frame, Frames
  <1>5. stack' = [stack EXCEPT ![Depth].pos = @ + r, ![Depth].io = @ \o part]  BY DEF part
  <1>6. stack' = [stack EXCEPT ![Depth] = f]  BY <1>1, <1>3, <1>5 DEF Frame, Frames
  <1> HIDE DEF f
  <1> QED BY <1>2, <1>4, <1>6, ChangeKeeps

LEMMA OstreamWriteKeeps == ASSUME IInv, NEW n \in Nat, OstreamWrite(n)  PROVE IInv'
  <1>1. /\ stack # <<>> /\ Top.at = "wasm" /\ Top.op \in OutOps /\ hostOstream # 0
        /\ n \in 1..(Len(Top.src) - Top.pos)
    BY DEF OstreamWrite, InWasm
  <1>2. Top.op \notin EventOps  BY <1>1 DEF EventOps, OutOps
  <1>3. stack \in Seq(Good) /\ Depth = Len(stack) /\ Top \in Good /\ Top = stack[Depth]
    BY <1>1, TopIs
  <1>4. hostOstream = Depth
    <2>1. Pointer(stack, hostOstream, OutOps)  BY IInvMeans
    <2> QED BY <1>1, <1>3, <2>1, PointerIsOwn
  <1>5. PICK result \in 1..Smaller(n, Cap) :
          stack' = [stack EXCEPT ![Depth].pos = @ + result,
                      ![hostOstream].io = @ \o SubSeq(Top.src, Top.pos + 1, Top.pos + result)]
    BY DEF OstreamWrite
  <1>6. result \in 1..(Len(Top.src) - Top.pos)
    <2>1. Smaller(n, Cap) \in Int /\ Smaller(n, Cap) <= n  BY CapIs, SmallerIs
    <2>2. Len(Top.src) \in Nat /\ Top.pos \in Nat  BY <1>2, <1>3, StreamPart
    <2> QED BY <1>1, <2>1, <2>2
  <1>7. Keeps
    <2>1. wasFileUri \in BOOLEAN /\ hasError \in BOOLEAN  BY IInvMeans
    <2> QED BY <2>1 DEF OstreamWrite, Keeps
  <1>8. stack' = [stack EXCEPT ![Depth].pos = @ + result,
                    ![Depth].io = @ \o SubSeq(Top.src, Top.pos + 1, Top.pos + result)]
    BY <1>4, <1>5
  <1> QED BY <1>1, <1>2, <1>6, <1>7, <1>8, TransferKeeps

LEMMA IstreamReadKeeps == ASSUME IInv, NEW n \in Nat, IstreamRead(n)  PROVE IInv'
  <1>1. stack # <<>> /\ Top.at = "wasm" /\ Top.op = "load" /\ hostIstream # 0
    BY DEF IstreamRead, InWasm
  <1>2. Top.op \notin EventOps  BY <1>1 DEF EventOps
  <1>3. stack \in Seq(Good) /\ Depth \in 1..Len(stack) /\ Depth = Len(stack) /\ Top \in Good
        /\ Top = stack[Depth]
    BY <1>1, TopIs
  <1>4. hostIstream = Depth
    <2>1. Pointer(stack, hostIstream, {"load"})  BY IInvMeans
    <2> QED BY <1>1, <1>3, <2>1, PointerIsOwn
  <1>5. Keeps
    <2>1. wasFileUri \in BOOLEAN /\ hasError \in BOOLEAN  BY IInvMeans
    <2> QED BY <2>1 DEF IstreamRead, Keeps
  <1>6. Len(Top.src) \in Nat /\ Top.pos \in 0..Len(Top.src)  BY <1>2, <1>3, StreamPart
  <1> DEFINE rest == Len(Top.src) - Top.pos
  <1>7. IF rest = 0 THEN stack' = [stack EXCEPT ![Depth].told = <<0>>]
        ELSE \E result \in 1..Smaller(Smaller(n, Cap), rest) :
               stack' = [stack EXCEPT ![Depth].pos = @ + result,
                           ![Depth].io = @ \o SubSeq(Top.src, Top.pos + 1, Top.pos + result)]
    <2> DEFINE from == stack[hostIstream]
               rest0 == Len(from.src) - from.pos
    <2>1. IF rest0 = 0 THEN stack' = [stack EXCEPT ![Depth].told = <<0>>]
          ELSE \E result \in 1..Smaller(Smaller(n, Cap), rest0) :
                 stack' = [stack EXCEPT ![hostIstream].pos = @ + result,
                   ![Depth].io = @ \o SubSeq(from.src, from.pos + 1, from.pos + result)]
      BY Zenon DEF IstreamRead
    <2>2. hostIstream = Depth /\ from = Top  BY <1>3, <1>4
    <2> QED BY <2>1, <2>2, Zenon
  <1>8. CASE rest = 0 /\ stack' = [stack EXCEPT ![Depth].told = <<0>>]
    <2> DEFINE f == [Top EXCEPT !.told = <<0>>]
    <2>1. Top.pos = Len(Top.src)  BY <1>6, <1>8
    <2>2. f \in Good  BY <1>1, <1>3, <2>1, Ended
    <2>3. Top \in Frame  BY <1>3 DEF Good
    <2>4. f.op = Top.op /\ f.at = Top.at  BY <2>3 DEF Frame, Frames
    <2>5. stack' = [stack EXCEPT ![Depth] = f]  BY <1>3, <1>8
    <2> HIDE DEF f
    <2> QED BY <1>1, <1>5, <2>2, <2>4, <2>5, ChangeKeeps
  <1>9. CASE \E result \in 1..Smaller(Smaller(n, Cap), rest) :
               stack' = [stack EXCEPT ![Depth].pos = @ + result,
                           ![Depth].io = @ \o SubSeq(Top.src, Top.pos + 1, Top.pos + result)]
    <2>1. PICK result \in 1..Smaller(Smaller(n, Cap), rest) :
            stack' = [stack EXCEPT ![Depth].pos = @ + result,
                        ![Depth].io = @ \o SubSeq(Top.src, Top.pos + 1, Top.pos + result)]
      BY <1>9
    <2>2. Smaller(n, Cap) \in Int  BY CapIs, SmallerIs
    <2>3. rest \in Int  BY <1>6
    <2>4. Smaller(Smaller(n, Cap), rest) \in Int /\ Smaller(Smaller(n, Cap), rest) <= rest
      BY <2>2, <2>3, SmallerIs
    <2>5. result \in 1..rest  BY <2>3, <2>4
    <2> QED BY <1>1, <1>2, <1>5, <2>1, <2>5, TransferKeeps
  <1> HIDE DEF rest
  <1> QED BY <1>7, <1>8, <1>9

LEMMA ResourceFileKeeps ==
  ASSUME IInv, NEW n \in Lengths, ResourceFile(Source(n))  PROVE IInv'
  <1>1. PICK at \in {"file", "false"} : Call("resource", at, Source(n))  BY DEF ResourceFile
  <1> DEFINE f == NewFrame("resource", at, Source(n))
  <1>2. f \in Good
    <2>1. Depth \in Nat  BY IInvMeans
    <2> QED BY <2>1, OpsAre, NewStreamCall
  <1>3. f.at # "wasm"  BY DEF NewFrame
  <1>4. stack' = Append(stack, f)  BY <1>1, CallIs
  <1> HIDE DEF f
  <1>5. Keeps
    <2>1. wasFileUri \in BOOLEAN /\ hasError \in BOOLEAN  BY IInvMeans
    <2> QED BY <2>1 DEF ResourceFile, Keeps
  <1> QED BY <1>2, <1>3, <1>4, <1>5, CallKeeps

\* The bridge writes a file itself: more of it, its end, or a failure.
LEMMA FileWriteKeeps == ASSUME IInv, FileWrite  PROVE IInv'
  <1>1. stack # <<>> /\ Top.at = "file"  BY DEF FileWrite
  <1>2. stack \in Seq(Good) /\ Depth \in 1..Len(stack) /\ Top \in Good /\ Top = stack[Depth]
    BY <1>1, TopIs
  <1>3. Top.op \notin EventOps  BY <1>1, <1>2 DEF Good, Translates
  <1>4. Keeps
    <2>1. wasFileUri \in BOOLEAN /\ hasError \in BOOLEAN  BY IInvMeans
    <2> QED BY <2>1 DEF FileWrite, Keeps
  <1>5. Top \in Frame  BY <1>2 DEF Good
  <1>6. ASSUME NEW at \in {"true", "false"}, stack' = [stack EXCEPT ![Depth].at = at],
               at = "true" => Top.pos = Len(Top.src)
        PROVE  IInv'
    <2> DEFINE f == [Top EXCEPT !.at = at]
    <2>1. f \in Good  BY <1>2, <1>6, Answered
    <2>2. f.op = Top.op /\ f.at = at  BY <1>5 DEF Frame, Frames
    <2>3. stack' = [stack EXCEPT ![Depth] = f]  BY <1>2, <1>6
    <2> HIDE DEF f
    <2> QED BY <1>1, <1>4, <2>1, <2>2, <2>3, ChangeKeeps
  <1>7. CASE Top.pos = Len(Top.src) /\ stack' = [stack EXCEPT ![Depth].at = "true"]
    BY <1>6, <1>7
  <1>8. CASE stack' = [stack EXCEPT ![Depth].at = "false"]
    BY <1>6, <1>8
  <1>9. CASE \E result \in 1..(Len(Top.src) - Top.pos) :
               stack' = [stack EXCEPT ![Depth].pos = @ + result,
                 ![Depth].io = @ \o SubSeq(Top.src, Top.pos + 1, Top.pos + result)]
    BY <1>1, <1>3, <1>4, <1>9, TransferKeeps
  <1> QED BY <1>7, <1>8, <1>9 DEF FileWrite

LEMMA NextIInv == IInv /\ [Next]_vars => IInv'
  <1> SUFFICES ASSUME IInv, [Next]_vars  PROVE IInv'  OBVIOUS
  <1>1. wasFileUri \in BOOLEAN /\ hasError \in BOOLEAN /\ Depth \in Nat  BY IInvMeans
  <1>2. ASSUME NEW op \in EventOps, NEW sent \in HostLists,
               Begin(op, sent) \/ BeginRefused(op, sent)
        PROVE  IInv'
    <2>1. op \in Ops  BY DEF Ops
    <2>2. NewFrame(op, "wasm", sent) \in Good /\ NewFrame(op, "false", sent) \in Good
      BY NewEventCall
    <2> QED BY <1>2, <2>1, <2>2, BeginKeeps, RefusalKeeps
  <1>3. ASSUME NEW op \in OutOps \cup {"load"}, NEW n \in Lengths,
               Begin(op, Source(n)) \/ BeginRefused(op, Source(n))
        PROVE  IInv'
    <2>1. op \in Ops /\ op \in Ops \ EventOps  BY OpsAre
    <2>2. NewFrame(op, "wasm", Source(n)) \in Good /\ NewFrame(op, "false", Source(n)) \in Good
      BY <1>1, <2>1, NewStreamCall
    <2> QED BY <1>3, <2>1, <2>2, BeginKeeps, RefusalKeeps
  <1>4. CASE WasmReturns
    <2>1. PICK result \in {FALSE, Complete} : Answer(result)  BY <1>4 DEF WasmReturns
    <2>2. InWasm /\ wasFileUri' = wasFileUri /\ hasError' = hasError  BY <1>4 DEF WasmReturns
    <2>3. CASE result = FALSE  BY <1>1, <2>1, <2>2, <2>3, AnswerKeeps
    <2>4. CASE result = Complete
      <3>1. CASE Complete
        <4>1. Answer(TRUE)  BY <2>1, <2>4, <3>1 DEF Answer
        <4> QED BY <1>1, <2>2, <3>1, <4>1, AnswerKeeps
      <3>2. CASE ~Complete
        <4>1. Answer(FALSE)  BY <2>1, <2>4, <3>2 DEF Answer
        <4> QED BY <1>1, <2>2, <4>1, AnswerKeeps
      <3> QED BY <3>1, <3>2
    <2> QED BY <2>1, <2>3, <2>4
  <1>5. CASE WasmTraps
    <2>1. InWasm /\ Answer(FALSE) /\ hasError' = TRUE /\ wasFileUri' = wasFileUri
      BY <1>5 DEF WasmTraps
    <2> QED BY <1>1, <2>1, AnswerKeeps
  <1>6. CASE Taken  BY <1>6, TakenKeeps
  <1>7. CASE Echo  BY <1>7, EchoKeeps
  <1>8. ASSUME NEW n \in 1..Cap + 1, OstreamWrite(n) \/ IstreamRead(n)  PROVE IInv'
    <2>1. n \in Nat  BY CapIs
    <2> QED BY <1>8, <2>1, OstreamWriteKeeps, IstreamReadKeeps
  <1>9. CASE GetUri
    <2>1. /\ stack \in Seq(Good)
          /\ Pointer(stack, hostOstream, OutOps)
          /\ Pointer(stack, hostIstream, {"load"})
          /\ Pointer(stack, hostOutputEvents, EventOps)
      BY IInvMeans
    <2>2. {wasFileUri', hasError'} \subseteq BOOLEAN /\ UNCHANGED <<stack, ptrs>>
      BY <1>1, <1>9 DEF GetUri
    <2> QED BY <1>1, <2>1, <2>2, IInvAfter DEF ptrs
  <1>10. ASSUME NEW n \in Lengths, ResourceFile(Source(n))  PROVE IInv'
    BY <1>10, ResourceFileKeeps
  <1>11. CASE FileWrite  BY <1>11, FileWriteKeeps
  <1>12. CASE UNCHANGED vars
    <2>1. /\ stack \in Seq(Good)
          /\ Pointer(stack, hostOstream, OutOps)
          /\ Pointer(stack, hostIstream, {"load"})
          /\ Pointer(stack, hostOutputEvents, EventOps)
      BY IInvMeans
    <2> QED BY <1>1, <1>12, <2>1, IInvAfter DEF vars
  <1> QED BY <1>2, <1>3, <1>4, <1>5, <1>6, <1>7, <1>8, <1>9, <1>10, <1>11, <1>12 DEF Next

-----------------------------------------------------------------------------
(* The results *)

\* Everything the invariant says holds in every state, for all sizes of pointers and
\* buffers, all events the host may send, and calls nested to any depth.
THEOREM Invariance == Spec => []IInv
  <1> QED BY InitIInv, NextIInv, PTL DEF Spec

\* No event crosses with an untranslated pointer: the WASM code's list holds addresses
\* of its own memory, and the host receives events with native ones.
THEOREM TypeCorrect == Spec => []TypeOK
  <1>1. IInv => TypeOK  BY DEF IInv
  <1> QED BY <1>1, Invariance, PTL

\* The events the host accepted are the ones it sent in, in the order of the answers
\* the WASM code was given, when the host's pointers are at least as wide.
THEOREM EventsAreKept == Spec => []EventsComeBack
  <1>1. IInv => EventsComeBack
    BY DEF IInv, EventsComeBack, Translates
  <1> QED BY <1>1, Invariance, PTL

\* An answer of true to a save, a load or a request for a resource means that the other
\* side has all of it.
THEOREM TrueIsComplete == Spec => []TrueMeansComplete
  <1>1. IInv => TrueMeansComplete
    <2> SUFFICES ASSUME IInv, NEW d \in 1..Depth, stack[d].at = "true", stack[d].op \notin EventOps
                 PROVE  stack[d].io = stack[d].src
      BY DEF TrueMeansComplete
    <2>1. stack[d] \in Good
      <3>1. stack \in Seq(Good)  BY IInvMeans
      <3> QED BY <3>1 DEF Depth
    <2> DEFINE f == stack[d]
    <2> HIDE DEF f
    <2>2. f \in Good /\ f.op \notin EventOps /\ f.at = "true"  BY <2>1 DEF f
    <2>3. f.src \in Seq(Bytes) /\ f.io = SubSeq(f.src, 1, f.pos) /\ f.pos = Len(f.src)
      BY <2>2, StreamPart
    <2>4. f.io = f.src  BY <2>3, SubSeqFull
    <2> QED BY <2>4 DEF f
  <1> QED BY <1>1, Invariance, PTL

\* Whatever the nesting, a stream receives a prefix of the bytes of the call it was
\* given to, and no pointer outlives its call.
THEOREM StreamsStayApart == Spec => []StreamsNotMixed
  <1>1. IInv => StreamsNotMixed
    <2> SUFFICES ASSUME IInv  PROVE StreamsNotMixed  OBVIOUS
    <2>1. /\ stack \in Seq(Good) /\ Depth = Len(stack)
          /\ Pointer(stack, hostOstream, OutOps)
          /\ Pointer(stack, hostIstream, {"load"})
          /\ Pointer(stack, hostOutputEvents, EventOps)
      BY IInvMeans DEF Depth
    <2>2. ASSUME NEW d \in 1..Depth, stack[d].op \notin EventOps
          PROVE  IsPrefix(stack[d].io, stack[d].src)
      <3> DEFINE f == stack[d]
      <3>1. f \in Good  BY <2>1
      <3> HIDE DEF f
      <3>2. f.op \notin EventOps  BY <2>2 DEF f
      <3>3. f.src \in Seq(Bytes) /\ Len(f.src) \in Nat /\ f.pos \in 0..Len(f.src)
            /\ f.io = SubSeq(f.src, 1, f.pos)
        BY <3>1, <3>2, StreamPart
      <3>4. Len(f.io) = f.pos
        <4>1. \A i \in 1..f.pos : f.src[i] \in Bytes  BY <3>3
        <4>2. 1 \in Int /\ f.pos \in Int  BY <3>3
        <4>3. Len(f.io) = IF 1 <= f.pos THEN f.pos - 1 + 1 ELSE 0
          BY <3>3, <4>1, <4>2, SubSeqProperties
        <4> QED BY <3>3, <4>3
      <3>5. IsPrefix(f.io, f.src)  BY <3>3, <3>4 DEF IsPrefix
      <3> QED BY <3>5 DEF f
    <2>3. \A p, ops : Pointer(stack, p, ops) /\ p # 0 => p <= Depth /\ stack[p].at = "wasm"
      BY <2>1 DEF Pointer, PointsTo
    <2> QED BY <2>1, <2>2, <2>3 DEF StreamsNotMixed
  <1> QED BY <1>1, Invariance, PTL
====
