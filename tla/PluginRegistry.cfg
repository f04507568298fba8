\* Three plugins, one after the other or together, and two WASM threads.
CONSTANTS
  Plugins = {p1, p2, p3}
  Workers = {w1, w2}
  Arenas = {a1, a2, a3}
  Indices = {0, 1, 2}
  Main = main
  None = none
SYMMETRY Symmetry
SPECIFICATION Spec
INVARIANTS IInv PluginLivesThroughCallback CallbackReachesCaller ArenasHaveOneHolder AbortMeansNotDestroyed
