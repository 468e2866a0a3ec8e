---------------------------- MODULE MCFulfillment ----------------------------
(* Fulfillment for TLC; MCFulfillment.cfg and MCPayoutRace.cfg give values. *)
EXTENDS Fulfillment, TLC
=============================================================================
