\* One request, normal or a redo; careless staff, late resets, two restarts, three errors.
SPECIFICATION FairSpec
CONSTANTS
  Requests = {1}
  Redos = {1}
  Updates = {}
  Page = 1
  Diligent = FALSE
  SlowDatabase = FALSE
  LateReset = TRUE
  MaxCrashes = 2
  MaxGlitches = 3

  
PROPERTIES
  MissingStageRestored
CHECK_DEADLOCK FALSE
