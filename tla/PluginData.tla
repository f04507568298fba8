------------------------------- MODULE PluginData -------------------------------
(***************************************************************************)
(* What one Plugin carries between the host and its WASM code: the events  *)
(* of process() and params.flush(), the bytes of state.save and            *)
(* state.load, and the resources of the webview.                           *)
(*                                                                         *)
(* WASM code reaches the host's event list and streams through members of  *)
(* the Plugin that hold for one call.  The calls of a module's plugins are *)
(* serialised (PluginCalls); but a host function may lead the host to call *)
(* the plugin again on the same thread, as a save inside a load, so the    *)
(* calls form a stack.                                                     *)
(*                                                                         *)
(* Of an event the model keeps what translation looks at or changes; of a  *)
(* stream, which call each byte belongs to and its place.                  *)
(***************************************************************************)
EXTENDS Integers, Sequences, SequencesExt

CONSTANTS HostPtrs, WasmPtrs,   \* addresses run from 0 to these, less one
          Cap,                  \* 1024 in the code: one transfer, and one sysex sent out
          HostEvents, MaxEvents,\* the events the host sends, and how many in a call
          Lengths,              \* the lengths of states and files
          MaxDepth              \* bound: nested calls

ASSUME SizeAssumption == /\ {HostPtrs, WasmPtrs, Cap, MaxDepth} \subseteq Nat \ {0}
                         /\ MaxEvents \in Nat /\ Lengths \subseteq Nat

VARIABLES
  stack,             \* the calls in progress, innermost last
  hostOstream,       \* the depth of the call whose stream it is, 0 for null
  hostIstream,
  hostOutputEvents,
  wasFileUri,        \* the webview's pages are files
  hasError           \* the group has an error

vars == <<stack, hostOstream, hostIstream, hostOutputEvents, wasFileUri, hasError>>
ptrs == <<hostOstream, hostIstream, hostOutputEvents>>

EventOps == {"process", "flush"}
OutOps   == {"save", "resource"}
Ops      == EventOps \cup OutOps \cup {"load"}

\* hdr says in which of the two layouts header.size counts, ptr where the sysex
\* buffer is.
Events(addresses, places) ==
  [space : {"core", "other"}, type : Nat, cookie : 0..addresses - 1, size : Nat,
   ptr : {"none"} \cup places, hdr : {"native", "wasm"}]
NativeEvents == Events(HostPtrs, {"native"})
WasmEvents   == Events(WasmPtrs, {"wasm"})

ASSUME EventAssumption == \A e \in HostEvents : /\ e \in NativeEvents /\ e.hdr = "native"
                                                /\ e.ptr = "native" <=> e.type = 11
                                                /\ e.cookie < WasmPtrs

Bytes == Nat \X Nat

\* src is what the call is to carry and io what has arrived at the other side; pos
\* is how far the one who reads src has come, and told what it knows of the other:
\* which events the host accepted, or that a stream came to its end.  The vector
\* inputEvents is kept with the call that fills it: the next one empties it first.
Frames(ops, data) ==
  [op : ops, at : {"wasm", "file", "true", "false"}, src : Seq(data), io : Seq(data),
   pos : Nat, input : Seq(WasmEvents), told : Seq(Nat)]
Frame == Frames(EventOps, NativeEvents) \cup Frames(Ops \ EventOps, Bytes)

\* README "Design": no event crosses with an untranslated pointer.  What the WASM
\* code finds in its list has addresses of its own memory only, and what the host
\* receives those of native memory only.
TypeOK ==
  /\ stack \in Seq(Frame)
  /\ {hostOstream, hostIstream, hostOutputEvents} \subseteq 0..Len(stack)
  /\ {wasFileUri, hasError} \subseteq BOOLEAN

Init ==
  /\ stack = <<>>
  /\ hostOstream = 0 /\ hostIstream = 0 /\ hostOutputEvents = 0
  /\ wasFileUri = FALSE /\ hasError = FALSE

Depth  == Len(stack)
Top    == stack[Depth]
InWasm == stack # <<>> /\ Top.at = "wasm"
Smaller(a, b) == IF a < b THEN a ELSE b

-----------------------------------------------------------------------------
(* Translating events *)

\* tryCopyInputEvent: no event, or the one the WASM code will find.
Bitwise(type) == type <= 4 \/ type \in 7..10 \/ type = 12
ToWasm_BitwiseSysex(e) ==                                            \* mutant
  IF e.space # "core" \/ e.type > 12 THEN <<>>
  ELSE <<[e EXCEPT !.cookie = IF e.type \in {5, 6} THEN @ % WasmPtrs ELSE @]>>
ToWasm(e) ==
  IF e.space # "core" THEN <<>>
  ELSE CASE Bitwise(e.type)    -> <<e>>
         [] e.type \in {5, 6}  -> <<[e EXCEPT !.cookie = @ % WasmPtrs]>>
         [] e.type = 11        -> <<[e EXCEPT !.ptr = "wasm"]>>
         [] OTHER              -> <<>>

InputEvents(sent) == FlattenSeq([i \in DOMAIN sent |-> ToWasm(sent[i])])

\* outputEventsTryPush: no event, or the one the host is given.
FromWasm_KeepsSize(e) ==                                             \* mutant
  IF e.space # "core" \/ e.type > 12 \/ (e.type = 11 /\ e.size > Cap) THEN <<>>
  ELSE <<[e EXCEPT !.ptr = IF e.type = 11 THEN "native" ELSE @]>>
FromWasm(e) ==
  IF e.space # "core" \/ e.type > 12 \/ (e.type = 11 /\ e.size > Cap) THEN <<>>
  ELSE <<[e EXCEPT !.hdr = "native",
                   !.ptr = IF e.type = 11 THEN "native" ELSE @,
                   !.cookie = IF e.type \in {5, 6} /\ HostPtrs < WasmPtrs THEN 0 ELSE @]>>

-----------------------------------------------------------------------------
(* A call begins and ends *)

SetFor_IfNull(op, ops, current) ==                                   \* mutant
  IF op \in ops /\ current = 0 THEN Depth + 1 ELSE current
\* A call publishes its own list or stream, over that of a call around it.
SetFor(op, ops, current) == IF op \in ops THEN Depth + 1 ELSE current

\* After the call the pointer is null: it is not given back to the call around it.
ClearFor(op, ops, current) == IF op \in ops THEN 0 ELSE current

\* The host may call the plugin again from a host function.  It sends no events
\* while it is inside a call for events (CLAP), and process() has the audio thread.
MayCall(op) ==
  /\ Depth < MaxDepth /\ (Depth > 0 => InWasm /\ Top.op # "process" /\ op # "process")
  /\ op \in EventOps => \A d \in 1..Depth : stack[d].op \notin EventOps

\* What there is to carry: the host's events, or n bytes that belong to this call.
Source(n) == [i \in 1..n |-> <<Depth + 1, i>>]
Call(op, at, src) ==
  stack' = Append(stack, [op |-> op, at |-> at, src |-> src, io |-> <<>>, pos |-> 0, told |-> <<>>,
                          input |-> IF op \in EventOps THEN InputEvents(src) ELSE <<>>])

Begin(op, src) ==
  /\ MayCall(op) /\ ~hasError /\ (op = "resource" => ~wasFileUri)
  /\ Call(op, "wasm", src)
  /\ hostOstream' = SetFor(op, OutOps, hostOstream)
  /\ hostIstream' = SetFor(op, {"load"}, hostIstream)
  /\ hostOutputEvents' = SetFor(op, EventOps, hostOutputEvents)
  /\ UNCHANGED <<wasFileUri, hasError>>

\* wtCall refuses: the pointers are set and cleared, and the answer is 0.
BeginRefused(op, src) ==
  /\ MayCall(op) /\ hasError /\ (op = "resource" => ~wasFileUri)
  /\ Call(op, "false", src)
  /\ hostOstream' = ClearFor(op, OutOps, hostOstream)
  /\ hostIstream' = ClearFor(op, {"load"}, hostIstream)
  /\ hostOutputEvents' = ClearFor(op, EventOps, hostOutputEvents)
  /\ UNCHANGED <<wasFileUri, hasError>>

Answer(result) ==
  /\ stack' = [stack EXCEPT ![Depth].at = IF result THEN "true" ELSE "false"]
  /\ hostOstream' = ClearFor(Top.op, OutOps, hostOstream)
  /\ hostIstream' = ClearFor(Top.op, {"load"}, hostIstream)
  /\ hostOutputEvents' = ClearFor(Top.op, EventOps, hostOutputEvents)

\* WASM code that checks its results: a save or resource is true only if every byte
\* was taken, a load if it was told that the stream has ended.
Complete == CASE Top.op \in EventOps -> TRUE
              [] Top.op \in OutOps   -> Top.pos = Len(Top.src)
              [] Top.op = "load"     -> Top.told = <<0>>

WasmReturns ==
  /\ InWasm /\ \E result \in {FALSE, Complete} : Answer(result)
  /\ UNCHANGED <<wasFileUri, hasError>>

WasmTraps ==
  /\ InWasm /\ Answer(FALSE) /\ hasError' = TRUE
  /\ UNCHANGED wasFileUri

\* The host takes the answer, and whatever called it goes on.
Taken ==
  /\ stack # <<>> /\ Top.at \in {"true", "false"}
  /\ stack' = SubSeq(stack, 1, Depth - 1)
  /\ UNCHANGED <<ptrs, wasFileUri, hasError>>

-----------------------------------------------------------------------------
(* Events and streams from inside the call *)

\* The WASM code reads its next event (inputEventsGet) and sends it on with its own
\* header, or passes over it.  The host may refuse what it is offered.
Echo ==
  /\ InWasm /\ Top.op \in EventOps /\ Top.pos < Len(Top.input)
  /\ LET i    == Top.pos + 1
         sent == FromWasm([Top.input[i] EXCEPT !.hdr = "wasm"])
     IN \/ stack' = [stack EXCEPT ![Depth].pos = i]
        \/ /\ hostOutputEvents # 0 /\ sent # <<>>
           /\ stack' = [stack EXCEPT ![Depth].pos = i, ![Depth].told = Append(@, i),
                                     ![hostOutputEvents].io = @ \o sent]
  /\ UNCHANGED <<ptrs, wasFileUri, hasError>>

OstreamWrite_ClaimsAll(n) ==                                         \* mutant
  /\ InWasm /\ Top.op \in OutOps /\ n \in 1..(Len(Top.src) - Top.pos) /\ hostOstream # 0
  /\ \E result \in 1..Smaller(n, Cap) :
       stack' = [stack EXCEPT ![Depth].pos = @ + Smaller(n, Cap),
                 ![hostOstream].io = @ \o SubSeq(Top.src, Top.pos + 1, Top.pos + result)]
  /\ UNCHANGED <<ptrs, wasFileUri, hasError>>

\* The WASM code has n bytes written, and is told how many the host's stream took.
\* Without a stream, or if that fails, it is told -1 and has got no further.
OstreamWrite(n) ==
  /\ InWasm /\ Top.op \in OutOps /\ n \in 1..(Len(Top.src) - Top.pos) /\ hostOstream # 0
  /\ \E result \in 1..Smaller(n, Cap) :
       stack' = [stack EXCEPT ![Depth].pos = @ + result,
                 ![hostOstream].io = @ \o SubSeq(Top.src, Top.pos + 1, Top.pos + result)]
  /\ UNCHANGED <<ptrs, wasFileUri, hasError>>

\* The WASM code asks for n bytes and gets as many as the host's stream gave; 0 is
\* the end.  As with OstreamWrite, -1 gets it nowhere.
IstreamRead(n) ==
  /\ InWasm /\ Top.op = "load" /\ Top.told = <<>> /\ hostIstream # 0
  /\ LET from == stack[hostIstream]
         rest == Len(from.src) - from.pos
     IN IF rest = 0 THEN stack' = [stack EXCEPT ![Depth].told = <<0>>]
        ELSE \E result \in 1..Smaller(Smaller(n, Cap), rest) :
               stack' = [stack EXCEPT ![hostIstream].pos = @ + result,
                 ![Depth].io = @ \o SubSeq(from.src, from.pos + 1, from.pos + result)]
  /\ UNCHANGED <<ptrs, wasFileUri, hasError>>

-----------------------------------------------------------------------------
(* The webview *)

\* webview.get_uri: whether the page is a file of the WCLAP's; a call that fails, traps
\* or is refused leaves the last answer.  (uri is then text: its characters, and the
\* one read at uri[result], are left out.)
GetUri ==
  /\ MayCall("resource")
  /\ \/ ~hasError /\ wasFileUri' \in BOOLEAN /\ UNCHANGED hasError
     \/ hasError' = TRUE /\ UNCHANGED wasFileUri
  /\ UNCHANGED <<stack, ptrs>>

\* A file is read as a whole, or not found, not readable or too large.
ResourceFile(src) ==
  /\ MayCall("resource") /\ wasFileUri
  /\ \E at \in {"file", "false"} : Call("resource", at, src)
  /\ UNCHANGED <<ptrs, wasFileUri, hasError>>

\* It is written by the bridge itself, until all of it is taken or nothing is.
FileWrite ==
  /\ stack # <<>> /\ Top.at = "file"
  /\ IF Top.pos = Len(Top.src) THEN stack' = [stack EXCEPT ![Depth].at = "true"]
     ELSE \/ stack' = [stack EXCEPT ![Depth].at = "false"]
          \/ \E result \in 1..(Len(Top.src) - Top.pos) :
               stack' = [stack EXCEPT ![Depth].pos = @ + result,
                 ![Depth].io = @ \o SubSeq(Top.src, Top.pos + 1, Top.pos + result)]
  /\ UNCHANGED <<ptrs, wasFileUri, hasError>>

-----------------------------------------------------------------------------
HostLists == UNION {[1..n -> HostEvents] : n \in 0..MaxEvents}

Next ==
  \/ \E op \in EventOps, sent \in HostLists : Begin(op, sent) \/ BeginRefused(op, sent)
  \/ \E op \in OutOps \cup {"load"}, n \in Lengths :
       Begin(op, Source(n)) \/ BeginRefused(op, Source(n))
  \/ WasmReturns \/ WasmTraps \/ Taken \/ Echo
  \/ \E n \in 1..Cap + 1 : OstreamWrite(n) \/ IstreamRead(n)
  \/ GetUri \/ (\E n \in Lengths : ResourceFile(Source(n))) \/ FileWrite

Spec == Init /\ [][Next]_vars

-----------------------------------------------------------------------------
(* Properties *)

\* The events the WASM code was told the host accepted are all that the host got, in
\* that order, and each is the event that the host itself sent in, its cookie, its
\* sysex data and the size in its header included, if the WASM code sends back what
\* it found.  Events of unknown types and spaces are not in the WASM code's list.
Known(sent) == FlattenSeq([i \in DOMAIN sent |->
                 IF sent[i].space = "core" /\ sent[i].type <= 12 THEN <<sent[i]>> ELSE <<>>])
CameBack(f) == f.io = [k \in DOMAIN f.told |-> Known(f.src)[f.told[k]]]
EventsComeBack ==
  HostPtrs >= WasmPtrs => \A d \in 1..Depth : stack[d].op \in EventOps => CameBack(stack[d])

\* When the host is told that a state was saved, a resource sent, or a state loaded,
\* the other side has all of it: with a stream that takes or gives a part at a time,
\* transfers longer than the buffer, and a call in between that took the pointer away.
TrueMeansComplete ==
  \A d \in 1..Depth : stack[d].at = "true" /\ stack[d].op \notin EventOps =>
    stack[d].io = stack[d].src

\* A host's stream receives the bytes of the call it was given to, in order and
\* without a gap, and a load receives those of its own stream, also when calls nest
\* or end in the middle.  No pointer to a stream or list outlives its call.
StreamsNotMixed ==
  /\ \A d \in 1..Depth : stack[d].op \notin EventOps => IsPrefix(stack[d].io, stack[d].src)
  /\ \A d \in {hostOstream, hostIstream, hostOutputEvents} \ {0} :
       d <= Depth /\ stack[d].at = "wasm"

-----------------------------------------------------------------------------
(* The inductive invariant *)

\* Of a stream, what has arrived is what lies before the place the reader has come
\* to; an end it was told of, and an answer true, are at the end.
Carries(f) ==
  f.op \notin EventOps =>
    /\ f.pos <= Len(f.src) /\ f.io = SubSeq(f.src, 1, f.pos)
    /\ f.told # <<>> => f.op = "load" /\ f.pos = Len(f.src)
    /\ f.at = "true" => f.pos = Len(f.src)

\* A call for events keeps the translation of what the host sent, and was told only
\* of events it has passed.
Translates(f) ==
  f.op \in EventOps =>
    /\ f.src \in Seq(HostEvents) /\ f.input = InputEvents(f.src) /\ f.at # "file"
    /\ \A k \in DOMAIN f.told : f.told[k] \in 1..Len(f.input)
    /\ HostPtrs >= WasmPtrs => CameBack(f)

\* A pointer is null, or that of the innermost call of its kind whose WASM code is
\* still at work: the calls inside that one are of another kind or have an answer.
PointsTo(calls, ptr, ops) ==
  ptr # 0 =>
    /\ calls[ptr].at = "wasm" /\ calls[ptr].op \in ops
    /\ \A d \in ptr + 1..Len(calls) : calls[d].op \in ops => calls[d].at # "wasm"

\* All of it together is kept by every step: a transfer goes to the call that asks
\* for it only because the pointer is that call's, and an answer is complete only
\* because every transfer before it continued where the last one ended.
IInv ==
  /\ TypeOK
  /\ \A d \in 1..Depth : Carries(stack[d]) /\ Translates(stack[d])
  /\ PointsTo(stack, hostOstream, OutOps)
  /\ PointsTo(stack, hostIstream, {"load"})
  /\ PointsTo(stack, hostOutputEvents, EventOps)

================================================================================
