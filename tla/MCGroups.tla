-------------------------------- MODULE MCGroups --------------------------------
(* Instances of Groups for TLC. *)
EXTENDS Groups, TLC

CONSTANTS a, b, a1, b1, q1, q2, q3, q4

TheOwner == (a1 :> a) @@ (b1 :> b)
\* Everybody has the same name.
TheName == (a :> "Sam") @@ (b :> "Sam")
Symmetry == Permutations({q1, q2, q3, q4})
=============================================================================
