\* A second ban, of the replacement: two attempts, one failed call.
SPECIFICATION Spec
CONSTANTS
  ch1 = ch1
  ch2 = ch2
  ch3 = ch3
  x = x
  y = y
  Chats <- MCChats
  Admins <- MCAdmins
  First = ch1
  Cards = {1, 2, 3}
  Careful = TRUE
  MaxBans = 2
  MaxTries = 2
  MaxFaults = 1
  MaxBreaks = 0
INVARIANTS
  BackupIntact
CHECK_DEADLOCK FALSE
