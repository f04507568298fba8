---------------------------- MODULE MCBridgePlugin ----------------------------
(* A small instance of BridgePlugin for TLC. *)
EXTENDS BridgePlugin, TLC

\* Host threads, and plugin IDs, are interchangeable.
Symmetry == Permutations(Hosts) \cup Permutations(Ids)
===============================================================================
