SPECIFICATION Spec
CONSTANTS
  Readers = {r1, r2}
  Capacity = 3
  Clock <- CoarseClock
  MaxMessages = 5
  MaxClears = 2
INVARIANTS
  TypeOK
  StampsIncrease
  RingIsTheEndOfTheLog
PROPERTIES
  ImplementsPacketLog
CHECK_DEADLOCK FALSE
