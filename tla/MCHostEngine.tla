---------------------------- MODULE MCHostEngine ----------------------------
(* A small instance of HostEngine for TLC. *)
EXTENDS HostEngine

CONSTANTS s1, s2

MCBufferSizes == {s1, s2}
=============================================================================
