------------------------------ MODULE MCBooking ------------------------------
(* Booking for TLC; MCBookingPaid.cfg gives the values.  No symmetry: the   *)
(* run checks liveness.                                                    *)
EXTENDS Booking, TLC
=============================================================================
