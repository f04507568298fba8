\* Two host threads, one WASM thread, one nested call.  A run may end only in Terminated.
CONSTANTS
  Hosts = {h1, h2}
  Opener = h1
  Workers = {w1}
  Main = main
  None = none
  EpochMs = 10
  Limits <- MCLimits
  MaxNested = 1
  MaxSpent = 2
SPECIFICATION FairSpec
INVARIANTS IInv NoEarlyTimeout
PROPERTIES FirstErrorStays CallsReturn StopReachesWorkers
