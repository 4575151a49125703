\* One ban, two admins, two chats to move to, two cards; a call, and a transaction or the
\* process fail. Not explored further: what follows once the attempts have crossed, or
\* the original has gone, which every property excuses.
SPECIFICATION FairSpec
CONSTANTS
  ch1 = ch1
  ch2 = ch2
  ch3 = ch3
  x = x
  y = y
  Chats <- MCChats
  Admins <- MCAdminsTwo
  First = ch1
  Cards = {1, 2}
  Careful = FALSE
  MaxBans = 1
  MaxTries = 4
  MaxFaults = 1
  MaxBreaks = 1
INVARIANTS
  TypeOK
  BackupKept
  CompleteChannelKept
PROPERTIES
  NoDuplicateCards
  RecoveryLands
CHECK_DEADLOCK FALSE
CONSTRAINT Undisturbed
