SPECIFICATION Spec
CONSTANTS
  FlashKeys <- ReturnModeOnly
  Configs <- TwoModes
  Loaded <- PowerSaving
  Unsupported <- TripleReturn
  Sequences16 <- Numbers
  MaxAttempts = 2
  Capacity = 6
  MaxPatches = 1
  MaxFaults = 0
INVARIANT ModeIsApplied
CHECK_DEADLOCK FALSE
