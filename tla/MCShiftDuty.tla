----------------------------- MODULE MCShiftDuty -----------------------------
EXTENDS ShiftDuty
CONSTANTS h1, h2, ann, bob
MCHandlers == {h1, h2}
MCStaff == {ann, bob}
=============================================================================
