SPECIFICATION FairSpec
CONSTANTS
  FlashKeys <- ReturnModeOnly
  Configs <- TwoModes
  Loaded <- PowerSaving
  Unsupported <- TripleReturn
  Sequences16 <- Numbers
  MaxAttempts = 2
  Capacity = 6
  MaxPatches = 1
  MaxFaults = 1
INVARIANTS
  TypeOK
  FormatsAreApplied
  PendingIsDesired
PROPERTIES
  FlashWritesAreNeeded
  Settles
CHECK_DEADLOCK FALSE
