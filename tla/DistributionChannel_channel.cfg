\* One confirmed entry, one announced later; publish, update and relink runs meet.
SPECIFICATION Spec
CONSTANTS
  Entries = {1, 2}
  Confirmed = {1}
  t1 = t1
  t2 = t2
  Runs <- MCRuns
  MaxStarts = 3
  MaxPacks = 2
  MaxStores = 3
  MaxTroubles = 1
SYMMETRY Symmetry
INVARIANTS
  TypeOK
  LinksLeadSomewhere
  LayoutIsTheChannel
  BackupIsCurrent
PROPERTIES
  CardsKept
CHECK_DEADLOCK FALSE
