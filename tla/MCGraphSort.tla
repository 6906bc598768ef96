----------------------------- MODULE MCGraphSort -----------------------------
(* Four devices, one of them a terminal. *)
EXTENDS GraphEdits
=============================================================================
