SPECIFICATION Spec
CONSTANTS
  Servers = {a}
  Clients = {c1, c2}
  NoOne = none
  Senders = {a}
  Modes <- BothModes
  Capacity = 2
  MaxPackets = 4
  MaxMessages = 0
  MaxPauses = 1
  MaxStarts = 2
SYMMETRY Symmetry
INVARIANTS
  TypeOK
  PacketsAreSentOnce
CHECK_DEADLOCK FALSE
