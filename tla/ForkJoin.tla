------------------------------ MODULE ForkJoin ------------------------------
(***************************************************************************)
(* What the job system promises its one caller, the engine's main thread:  *)
(* it hands over work items, each is performed once, by somebody, at some  *)
(* time, and a wait returns only when nothing is left to do.  The main     *)
(* thread captures its stack by reference in the items it submits          *)
(* (the cascades of ShadowRenderer and the rigid body update, when they    *)
(* are built with threads), so a wait that returned too early would leave  *)
(* dangling references.                                                    *)
(***************************************************************************)
CONSTANT Item

VARIABLES todo,      \* items accepted and not performed
          done,      \* items performed
          mode       \* "free" or "waiting": the caller

vars == <<todo, done, mode>>

TypeOK == /\ todo \subseteq Item
          /\ done \subseteq Item
          /\ mode \in {"free", "waiting"}

Init == todo = {} /\ done = {} /\ mode = "free"

\* Items never seen before are accepted; possibly none.
Submit == /\ mode = "free"
          /\ todo \subseteq todo'
          /\ todo' \subseteq Item
          /\ (todo' \ todo) \cap done = {}
          /\ UNCHANGED <<done, mode>>

Perform(i) == /\ i \in todo
              /\ todo' = todo \ {i}
              /\ done' = done \cup {i}
              /\ UNCHANGED mode

BeginWait == mode = "free" /\ mode' = "waiting" /\ UNCHANGED <<todo, done>>

EndWait == /\ mode = "waiting"
           /\ todo = {}
           /\ mode' = "free"
           /\ UNCHANGED <<todo, done>>

Next == Submit \/ (\E i \in Item : Perform(i)) \/ BeginWait \/ EndWait

Spec == Init /\ [][Next]_vars
=============================================================================
