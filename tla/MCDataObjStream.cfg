SPECIFICATION Spec
CONSTANTS
  Producers = {canet}
  Readers = {r1, r2}
  Capacity = 2
  Watermarked = TRUE
  ClockSteps <- CoarseClock
  MaxBatch = 3
  MaxElements = 5
  MaxClears = 1
  NoOne = none
INVARIANTS
  TypeOK
  RingIsTheEndOfTheLog
PROPERTIES
  ImplementsPacketLog
CHECK_DEADLOCK FALSE
