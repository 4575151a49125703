\* A normal request, a redo and an update, any two of them; staff work only on what they
\* hold; one restart, one error.
SPECIFICATION Spec
CONSTANTS
  Requests = {1, 2, 3}
  Redos = {2}
  Updates = {3}
  Page = 3
  Diligent = TRUE
  SlowDatabase = FALSE
  LateReset = FALSE
  MaxCrashes = 1
  MaxGlitches = 1
CONSTRAINT AnyTwo
INVARIANTS
  TypeOK
  
  
CHECK_DEADLOCK FALSE
