------------------------------- MODULE MCSupport -------------------------------
(* Support for TLC; MCSupport.cfg gives the values.  No symmetry: the run     *)
(* checks liveness.                                                          *)
EXTENDS Support, TLC
=============================================================================
