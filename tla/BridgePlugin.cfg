\* Two threads that initialise and de-initialise, over every disk of two files
\* with up to two plugins each.
CONSTANTS
  Hosts = {h1, h2}
  NumFiles = 2
  Ids = {p, q}
  Versions = {0, 1, 2, 3}
  Unparsable = {3}
  MaxPlugins = 2
  MaxInits = 1
  None = none
SYMMETRY Symmetry
SPECIFICATION Spec
INVARIANTS IInv EntriesRouteToOwner NewestListedOnce DeinitClosesAll
PROPERTY ImplementsSharedFactory
