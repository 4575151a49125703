\* Two requests, one of the owner's, two jobs for one slot, one restart.
SPECIFICATION FairSpec
CONSTANTS
  r1 = r1
  r2 = r2
  Requests = {r1, r2}
  Owned = {r2}
  Limit = 1
  MaxJobs = 2
  MaxCrashes = 1
INVARIANTS
  TypeOK
  NoPhantomJob
  
PROPERTIES
  JobsEnd
CHECK_DEADLOCK FALSE
