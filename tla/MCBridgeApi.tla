------------------------------ MODULE MCBridgeApi ------------------------------
(* A small instance of BridgeApi for TLC. *)
EXTENDS BridgeApi

\* No limit, a limit shorter than an epoch, and the bridge plugin's 250 ms.
SomeLimits == {0, 5, 250}
===============================================================================
