SPECIFICATION FairSpec
CONSTANTS
  N = 3
  Pairs = {}
  Joiners = {}
  LateJoiners = {1, 2}
  Uses <- TreeAndSetter
  Wakes <- SetterWakesChild
  LooksAgain <- TransformsLook
  MayFail = {}
PROPERTY Ends
CHECK_DEADLOCK FALSE
