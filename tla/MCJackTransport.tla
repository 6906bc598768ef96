-------------------------- MODULE MCJackTransport --------------------------
(* A small instance of JackTransport for TLC. *)
EXTENDS JackTransport

CONSTANTS j1, j2

MCDevices == {j1, j2}
=============================================================================
