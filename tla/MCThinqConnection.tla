------------------------- MODULE MCThinqConnection -------------------------
(* ThinqConnection on small instances. *)
EXTENDS ThinqConnection

CONSTANTS d1
=============================================================================
