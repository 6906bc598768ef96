-------------------------- MODULE MCTimingMailbox --------------------------
(* A small instance of TimingMailbox for TLC. *)
EXTENDS TimingMailbox

CONSTANTS w1, w2

MCWords == {w1, w2}
=============================================================================
