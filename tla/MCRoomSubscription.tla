------------------------- MODULE MCRoomSubscription -------------------------
(* RoomSubscription on small instances. *)
EXTENDS RoomSubscription, TLC

CONSTANTS m1, m2, u1, u2, e1, p1, p2

\* Machines, users and handlers are interchangeable.
Symmetry == Permutations(Machine) \cup Permutations(User) \cup Permutations(Proc)
=============================================================================
