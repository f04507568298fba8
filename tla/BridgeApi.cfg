\* Two host threads that initialise, de-initialise, open and close two WCLAPs at
\* will.  No symmetry: it is unsound for liveness.
CONSTANTS
  Callers = {c1, c2}
  Wclaps = {w1, w2}
  Limits <- SomeLimits
  None = none
SPECIFICATION FairSpec
INVARIANTS IInv EpochThreadUsesLiveEngine InitConsistent CountMatchesOpen
           EngineOutlivesWclaps OpenFindsEngine
PROPERTIES GlobalCallsReturn
