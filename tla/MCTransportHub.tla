---------------------------- MODULE MCTransportHub ----------------------------
(* A small instance of TransportHub for TLC: two Output devices.            *)
EXTENDS TransportHub

CONSTANTS d1, d2

MCDevices == {d1, d2}
=============================================================================
