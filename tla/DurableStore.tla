---------------------------- MODULE DurableStore ----------------------------
(* What Spumoni's object store promises: it holds whole objects, which stay *)
(* until the machine fails; those whose address a writer was given survive  *)
(* that, too.                                                               *)

CONSTANT Addresses

VARIABLES held,      \* the objects that can be read
          promised   \* addresses that have been returned

vars == <<held, promised>>

Init == held \subseteq Addresses /\ promised = {}

Hold == /\ held \subseteq held' /\ held' \subseteq Addresses
        /\ UNCHANGED promised

Promise == /\ \E a \in held : promised' = promised \cup {a}
           /\ UNCHANGED held

Fail == /\ promised \subseteq held' /\ held' \subseteq held
        /\ UNCHANGED promised

Next == Hold \/ Promise \/ Fail

Spec == Init /\ [][Next]_vars
=============================================================================
