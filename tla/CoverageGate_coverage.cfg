\* Four franchises, two jobs at a time, one switch, one fault.
SPECIFICATION FairSpec
CONSTANTS
  Franchises <- SomeFranchises
  Cour = 2
  Slots = {1, 2}
  MaxToggles = 1
  MaxFaults = 1
INVARIANTS
  TypeOK
  LocatorsAreDistinct
PROPERTIES
  GateIsExact
  PausedGetsThrough
CHECK_DEADLOCK FALSE
