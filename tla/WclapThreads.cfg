\* Two WASM threads beside the host, no symmetry (it is unsound for liveness): one
\* may spawn or be created while the other spawns, runs or ends.  A run may end only
\* in Terminated.
CONSTANTS
  Threads = {t1, t2}
  Main = main
  None = none
  TimeLimited = TRUE
SPECIFICATION FairSpec
INVARIANTS IInv LiveThreadsRegistered NoThreadOutlivesModule LookupFindsItself RegistryBounded
PROPERTIES SlotLeftOnlyByItsThread ImplementsThreadHost CloseCompletes SpawnReturns
