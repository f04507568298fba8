\* A spawn that passed the test of the hook while wclap_close clears it.
CONSTANTS
  Threads = {t1, t2}
  Main = main
  None = none
  TimeLimited = TRUE
SPECIFICATION Spec
PROPERTY NoSpawnAfterHookCleared
