--------------------------- MODULE ExclusiveAccess ---------------------------
(* What the host promises of its devices: the engine runs them and control *)
(* works on them, never both, and neither passes them on without letting   *)
(* go of them first.                                                       *)

VARIABLES running,  \* the engine is among the devices
          editing   \* control is

vars == <<running, editing>>

Init == running = FALSE /\ editing = FALSE

Run == ~editing /\ running' = TRUE /\ UNCHANGED editing
Rest == running' = FALSE /\ UNCHANGED editing
Edit == ~running /\ editing' = TRUE /\ UNCHANGED running
Release == editing' = FALSE /\ UNCHANGED running

Next == Run \/ Rest \/ Edit \/ Release

Spec == Init /\ [][Next]_vars
=============================================================================
