------------------------- MODULE MCAdminAssignment -------------------------
(* Small instances of AdminAssignment for TLC. *)
EXTENDS AdminAssignment, TLC

CONSTANTS a1, a2, r1, r2, c1, c2

EveryBot == [a \in Admins |-> Stages]
EqualWeight == [a \in Admins |-> 1]

StaffSymmetry == Permutations(Admins) \cup Permutations(Callers)
=============================================================================
