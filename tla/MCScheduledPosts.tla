-------------------------- MODULE MCScheduledPosts --------------------------
(* Small instances of ScheduledPosts for TLC. *)
EXTENDS ScheduledPosts, TLC

CONSTANTS r1, t1, t2

TapSymmetry == Permutations(Taps)
=============================================================================
