---------------------------- MODULE MCSavePoints ----------------------------
(* An archive and a directory.  A file that is there from the beginning has *)
(* a shared object and a branch folder that its manifest does not list.     *)
EXTENDS SavePoints

CONSTANTS zip, dir, x, obj

MCBaseName == [p \in Packages |-> IF p = zip THEN "a" ELSE "b"]
Old == Package(Identity(1, "b", <<Branch(1, "b")>>),
               [b \in {1, 2} |-> Payload(IF b = 1 THEN x ELSE Empty, x)],
               {obj})
MCFirstFiles == [p \in Packages |-> IF p = dir THEN {Old} ELSE {NoFile}]
=============================================================================
