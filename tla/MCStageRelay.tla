---------------------------- MODULE MCStageRelay ----------------------------
(* Small instances of StageRelay for TLC. *)
EXTENDS StageRelay

\* Of the three kinds of requests any two meet.
AnyTwo == Cardinality({r \in Requests : status[r] # "none"}) <= 2
=============================================================================
