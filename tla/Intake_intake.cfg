\* A user and a member of staff, one title, two requests, one work item.
SPECIFICATION FairSpec
CONSTANTS
  guest = guest
  boss = boss
  title1 = title1
  Users = {guest, boss}
  Staff = {boss}
  Titles = {title1}
  MaxReqs = 2
  MaxWorks = 1
  MaxTasks = 2
  MaxTurns = 1
INVARIANTS
  TypeOK
  DuplicatesExplained
PROPERTIES
  WorksConverge
CHECK_DEADLOCK FALSE
