------------------------------ MODULE MCAccounts ------------------------------
(* Sign-ins, resets and passwords are alike.                               *)
EXTENDS Accounts, TLC
Symmetry == Permutations(Logins) \cup Permutations(Resets) \cup Permutations(Passwords)
=============================================================================
