------------------------------ MODULE ThreadHost ------------------------------
(***************************************************************************)
(* What an open WCLAP promises about the OS threads its WASM code starts,  *)
(* without slots, locks or hooks: threads start while the module is open,  *)
(* and while it is closing only as long as another one still runs; the     *)
(* module is gone only once nothing runs, and nothing starts after that.   *)
(***************************************************************************)
CONSTANT Threads

VARIABLES phase,    \* "open" -> "closing" -> "closed"
          running   \* the OS threads that exist

vars == <<phase, running>>

TypeOK == /\ phase \in {"open", "closing", "closed"}
          /\ running \subseteq Threads

Init == /\ phase = "open"
        /\ running = {}

Start(t) == /\ t \notin running
            /\ \/ phase = "open"
               \/ phase = "closing" /\ running # {}
            /\ running' = running \cup {t}
            /\ UNCHANGED phase

Stop(t) == /\ t \in running
           /\ running' = running \ {t}
           /\ UNCHANGED phase

BeginClose == /\ phase = "open"
              /\ phase' = "closing"
              /\ UNCHANGED running

EndClose == /\ phase = "closing"
            /\ running = {}
            /\ phase' = "closed"
            /\ UNCHANGED running

Next == \/ \E t \in Threads : Start(t) \/ Stop(t)
        \/ BeginClose
        \/ EndClose

Spec == Init /\ [][Next]_vars

===============================================================================
