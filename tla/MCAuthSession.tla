---------------------------- MODULE MCAuthSession ----------------------------
(* AuthSession with a few names for TLC. *)
EXTENDS AuthSession, TLC

CONSTANTS n1, a1, a2, s1, s2, t1, t2, p1, p2

Symmetry == Permutations(Account) \cup Permutations(Session)
                \cup Permutations(Token) \cup Permutations(Proc)
=============================================================================
