SPECIFICATION FairSpec
CONSTANTS
  Callers = {main, other}
  Owner = main
  Worker = worker
  NoOne = none
  CatchUpCallers = {other}
  PauseCallers = {main, other}
  MaxOps = 3
  PassCap = 4
  MaxSpurious = 1
INVARIANTS
  TypeOK
  StopIsNotMissed
  StoppedMeansFinished
  PauseTakesEffect
PROPERTIES
  StopTakesEffect
CHECK_DEADLOCK FALSE
