----------------------------- MODULE SharedFactory -----------------------------
(***************************************************************************)
(* What the bridge plugin promises the hosts that share it, without files, *)
(* scans or locks: whoever's clap_init returned finds a factory that is    *)
(* filled, and that stays as it is until the last of them has left; while  *)
(* it is being filled nobody is let in, an ID stays listed once it is, and *)
(* its version only rises.  An init that fails spoils the factory for good *)
(* (the code counts it): later ones are let in, to an empty one.           *)
(***************************************************************************)
EXTENDS Naturals

CONSTANTS Hosts, Ids, Versions

VARIABLES phase,   \* "closed" -> "opening" -> "open" -> "closing" -> "closed"; or "failed"
          users,   \* successful inits of each host that it has not undone
          listed   \* descriptors of the factory

vars == <<phase, users, listed>>

InUse(u) == \E h \in Hosts : u[h] > 0
OnePerId(list) == \A d, e \in list : d.id = e.id => d = e

TypeOK == /\ phase \in {"closed", "opening", "open", "closing", "failed"}
          /\ users \in [Hosts -> Nat]
          /\ listed \subseteq [id : Ids, version : Versions]

Init == phase = "closed" /\ users = [h \in Hosts |-> 0] /\ listed = {}

BeginOpen == /\ phase = "closed" /\ phase' = "opening"
             /\ UNCHANGED <<users, listed>>

OpenFails == /\ phase = "opening" /\ listed = {} /\ phase' = "failed"
             /\ UNCHANGED <<users, listed>>

\* IDs are added and versions rise; no ID is lost.
Grows == /\ phase = "opening" /\ OnePerId(listed')
         /\ \A d \in listed : \E e \in listed' : e.id = d.id /\ e.version >= d.version

Fill == Grows /\ UNCHANGED <<phase, users>>

Opened(h) == /\ Grows /\ phase' = "open"
             /\ ~InUse(users) /\ users' = [users EXCEPT ![h] = 1]

Join(h) == /\ phase \in {"open", "failed"}
           /\ users' = [users EXCEPT ![h] = @ + 1]
           /\ UNCHANGED <<phase, listed>>

\* The last to leave closes the factory, and nobody else does.
Leave(h) == /\ phase \in {"open", "failed"} /\ users[h] > 0
            /\ users' = [users EXCEPT ![h] = @ - 1]
            /\ phase' = IF phase = "failed" \/ InUse(users') THEN phase ELSE "closing"
            /\ UNCHANGED listed

Empty == /\ phase = "closing" /\ listed' = {}
         /\ UNCHANGED <<phase, users>>

EndClose == /\ phase = "closing" /\ listed = {} /\ phase' = "closed"
            /\ UNCHANGED <<users, listed>>

Next == \/ BeginOpen \/ OpenFails \/ Fill \/ Empty \/ EndClose
        \/ \E h \in Hosts : Opened(h) \/ Join(h) \/ Leave(h)

Spec == Init /\ [][Next]_vars

===============================================================================
