------------------------------ MODULE MCIntake ------------------------------
(* Small instances of Intake for TLC. *)
EXTENDS Intake

CONSTANTS guest, boss, title1
=============================================================================
