\* One host that calls clap_init once.
CONSTANTS
  Hosts = {h1}
  NumFiles = 2
  Ids = {p, q}
  Versions = {0, 1, 2}
  Unparsable = {}
  MaxPlugins = 2
  MaxInits = 1
  None = none
SPECIFICATION Spec
INVARIANT AllPluginsCollected
