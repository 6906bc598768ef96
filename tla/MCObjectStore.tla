---------------------------- MODULE MCObjectStore ----------------------------
(* Two threads, of one process or of two, and two objects that have one     *)
(* directory in common.                                                     *)
EXTENDS ObjectStore, TLC

CONSTANTS w1, w2, a, b, f1, f2, f3, f4, f5, p1, p2

MCPath == [x \in Addresses |-> IF x = a THEN <<"sha256", "0", "x">>
                               ELSE <<"sha256", "1", "y">>]
MCPuts == [w \in Writers |-> IF w = w1 THEN {a} ELSE {a, b}]
Symmetry == Permutations(Pids)
=============================================================================
