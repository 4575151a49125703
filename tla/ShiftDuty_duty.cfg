\* Two admins, the owner and two calls at a time next to the AFK check.
SPECIFICATION DutySpec
CONSTANTS
  h1 = h1
  h2 = h2
  ann = ann
  bob = bob
  Owner = owner
  Nobody = nobody
  AfkCheck = sweep
  Handlers <- MCHandlers
  Staff <- MCStaff
  MaxRestarts = 1
INVARIANTS
  DutyTypeOK
  WellFormed
  
CHECK_DEADLOCK FALSE
