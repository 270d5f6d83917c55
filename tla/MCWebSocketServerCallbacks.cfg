SPECIFICATION FairSpec
CONSTANTS
  Servers = {a}
  Clients = {c1, c2}
  NoOne = none
  Senders = {a}
  Modes <- Everyone
  Capacity = 1
  MaxPackets = 0
  MaxMessages = 1
  MaxPauses = 2
  MaxStarts = 2
INVARIANTS
  NothingOutlivesStop
  StampsNeverDecrease
PROPERTIES
  PausedMeansNoInput
  StopReturns
  ResumeReleases
CHECK_DEADLOCK FALSE
