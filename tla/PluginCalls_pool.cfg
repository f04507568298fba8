\* process() asks the host's thread pool to run a task.
CONSTANTS
  Main = main
  Audio = audio
  Workers = {p1}
  None = none
  SharedMemory = TRUE
  MaxDepth = 1
  MaxCallbacks = 1
SPECIFICATION FairSpec
CHECK_DEADLOCK FALSE
PROPERTY PoolRequestReturns
