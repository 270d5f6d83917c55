SPECIFICATION FairSpec
CONSTANTS
  N = 4
  Pairs = {2, 3}
  Joiners = {2}
  LateJoiners = {1}
  Uses <- Everyone
  Wakes <- ReaderWakesWriter
  LooksAgain <- TheJoiningWritersLook
  MayFail = {1, 2, 3, 4}
INVARIANTS
  TypeOK
  CallsReachModules
  WorkersEndFirst
PROPERTIES
  Ends
CHECK_DEADLOCK FALSE
