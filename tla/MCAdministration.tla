--------------------------- MODULE MCAdministration ---------------------------
(* Two administrators who are alike.                                       *)
EXTENDS Administration, TLC
Symmetry == Permutations(Admins)
=============================================================================
