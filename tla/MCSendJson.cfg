SPECIFICATION Spec
CONSTANTS
  Producers = {heartbeat, reply}
  Readers = {transport}
  Capacity = 4
  Watermarked = FALSE
  ClockSteps <- FineClock
  MaxBatch = 1
  MaxElements = 4
  MaxClears = 0
  NoOne = none
PROPERTIES
  ArrivalsAreAhead
CHECK_DEADLOCK FALSE
