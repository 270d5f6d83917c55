SPECIFICATION FairSpec
CONSTANTS
  PacketLen = 2
  Capacity = 2
  MaxPackets = 4
  MaxGenerations = 2
  MaxCloses = 1
  MaxStops = 1
  MaxReads = 1
INVARIANTS
  TypeOK
  WholePackets
  CursorIsTruthful
PROPERTIES
  OnlyBrokenIsClosed
  RetainedPacketsAreSent
CHECK_DEADLOCK FALSE
