----------------------------- MODULE MCCheckout -----------------------------
(* Values for the constants of Checkout that a cfg cannot write.           *)
EXTENDS Checkout, TLC

OneUnit == [s \in Skus |-> 1]
OneRedemption == [c \in Coupons |-> 1]

Symmetry ==
  Permutations(Users) \cup Permutations(Orders) \cup Permutations(Refs)
    \cup Permutations(Requests) \cup Permutations(Keys)
=============================================================================
