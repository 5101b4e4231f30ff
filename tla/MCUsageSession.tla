--------------------------- MODULE MCUsageSession ---------------------------
(* UsageSession on small instances. *)
EXTENDS UsageSession, TLC

CONSTANTS m1, u1, u2, p1, p2, s1, s2, male, female

MCMachineGender == [m \in Machine |-> male]

\* Users are interchangeable, as are the handlers and the session ids.
Symmetry == Permutations({u1, u2}) \cup Permutations(Proc) \cup Permutations(Usage)
=============================================================================
