------------------------------- MODULE MCCanvas -------------------------------
(* Two small devices and copies of them; one patch file is empty (New), one *)
(* has two wires into the first device and one to a device that is missing. *)
EXTENDS Canvas

Ports(ins, outs, term) == [NumInputs |-> ins, NumOutputs |-> outs,
                           IsTerminal |-> term]
Wiring(a, p, b, q) == [OutputID |-> a, OutputPort |-> p,
                       InputID |-> b, InputPort |-> q]

MCShapes == {Ports(1, 1, FALSE), Ports(2, 1, FALSE)}
MCPatches == {[shapes |-> << >>, wires |-> << >>],
              [shapes |-> <<Ports(2, 1, FALSE), Ports(1, 1, TRUE)>>,
               wires |-> <<Wiring(1, 0, 0, 0), Wiring(1, 0, 2, 0)>>]}

=============================================================================
