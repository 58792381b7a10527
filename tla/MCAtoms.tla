------------------------------ MODULE MCAtoms -------------------------------
(* Instances of Atoms for TLC: strings of three lengths and an integer atom. *)
EXTENDS Atoms, TLC

CONSTANTS a, bb, dddd

Names == {a, bb, dddd}
Numbers == {300}
Sizes == (a :> 2 @@ bb :> 3 @@ dddd :> 5)
Hashes == (a :> 65 @@ bb :> 66 @@ dddd :> 65)
=============================================================================
