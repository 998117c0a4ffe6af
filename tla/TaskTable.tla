----------------------------- MODULE TaskTable ------------------------------
(***************************************************************************)
(* What the Master's table of tasks promises: a task is entered once, is   *)
(* there until its end, and never comes back.  A process that ends may     *)
(* take several tasks with it.                                             *)
(***************************************************************************)
CONSTANT Tasks

VARIABLES
    running,    \* the tasks in the table
    over        \* those that have been in it

vars == <<running, over>>

Init == running = {} /\ over = {}

Enter(t) ==
    /\ t \notin running \cup over
    /\ running' = running \cup {t}
    /\ UNCHANGED over

Leave(S) ==
    /\ S # {} /\ S \subseteq running
    /\ running' = running \ S
    /\ over' = over \cup S

Next ==
    \/ \E t \in Tasks : Enter(t)
    \/ \E S \in SUBSET Tasks : Leave(S)

Spec == Init /\ [][Next]_vars
=============================================================================
