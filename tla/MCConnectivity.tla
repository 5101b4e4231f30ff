-------------------------- MODULE MCConnectivity --------------------------
(* Connectivity on small instances. *)
EXTENDS Connectivity, TLC

CONSTANTS m1, m2, s1, s2

\* Each machine has a site of its own.
OwnSites == m1 :> s1 @@ m2 :> s2
=============================================================================
