\* One plugin with one thread.
CONSTANTS
  Plugins = {p1}
  Workers = {w1}
  Arenas = {a1}
  Indices = {0}
  Main = main
  None = none
SPECIFICATION Spec
INVARIANT NoCallbackIntoDeletedPlugin
