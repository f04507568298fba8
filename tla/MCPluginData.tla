------------------------------ MODULE MCPluginData ------------------------------
(* A small instance of PluginData for TLC: one event of each way of translating,
   at the boundaries between them. *)
EXTENDS PluginData

Plain(type) == [space |-> "core", type |-> type, cookie |-> 0, size |-> 0,
                ptr |-> "none", hdr |-> "native"]
Param(type, c) == [Plain(type) EXCEPT !.cookie = c]
Sysex(n)       == [Plain(11) EXCEPT !.size = n, !.ptr = "native"]

MCEvents == {Plain(4), Param(5, 3), Param(6, 0), Plain(7), Sysex(2), Sysex(3), Plain(12),
             Plain(13), [Plain(0) EXCEPT !.space = "other"]}
================================================================================
