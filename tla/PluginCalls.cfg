\* Both host threads and a pool of one; three methods deep on the main thread.  A
\* process() that waits for the pool waits for ever, and so do two threads in
\* LockInversion: deadlocks are reachable.
CONSTANTS
  Main = main
  Audio = audio
  Workers = {p1}
  None = none
  SharedMemory = TRUE
  MaxDepth = 3
  MaxCallbacks = 2
SPECIFICATION FairSpec
CHECK_DEADLOCK FALSE
INVARIANTS IInv LocksBalanced OutEventsAreLive
PROPERTIES AudioReturns MainReturns
