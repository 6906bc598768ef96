---------------------------- MODULE MCNativeMidi ----------------------------
(* One note, two ports, queues of one packet.                               *)
EXTENDS NativeMidi

CONSTANTS n1, a, b
=============================================================================
