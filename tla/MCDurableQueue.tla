--------------------------- MODULE MCDurableQueue ---------------------------
(* Instances of the server drain a queue of three rows.                    *)
EXTENDS DurableQueue
=============================================================================
