---------------------------- MODULE MCInstanceCalls ----------------------------
(* A small instance of InstanceCalls for TLC. *)
EXTENDS InstanceCalls

\* No limit, and one that is not a whole number of epochs.
MCLimits == {0, 5}
================================================================================
