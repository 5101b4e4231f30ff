---------------------------- MODULE MCThinqDryer ----------------------------
(* ThinqDryer on small instances. *)
EXTENDS ThinqDryer, TLC

CONSTANTS m1, d1, d2

\* The devices are interchangeable.
Symmetry == Permutations(Device)
=============================================================================
