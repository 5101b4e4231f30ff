--------------------------- MODULE MCPowerDriven ---------------------------
(* PowerDriven on small instances. *)
EXTENDS PowerDriven

CONSTANTS low1, low2, high1
=============================================================================
