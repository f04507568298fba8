--------------------------- MODULE MCPluginRegistry ---------------------------
(* A small instance of PluginRegistry for TLC. *)
EXTENDS PluginRegistry, TLC

\* Plugin objects, WASM threads and arenas are interchangeable.
Symmetry == Permutations(Plugins) \cup Permutations(Workers) \cup Permutations(Arenas)
===============================================================================
