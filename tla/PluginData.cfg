\* Two events of nine kinds, three bytes through a two-byte buffer, two calls deep.
CONSTANTS
  HostPtrs = 8
  WasmPtrs = 4
  Cap = 2
  HostEvents <- MCEvents
  MaxEvents = 2
  Lengths = {0, 3}
  MaxDepth = 2
SPECIFICATION Spec
INVARIANTS IInv EventsComeBack TrueMeansComplete StreamsNotMixed
