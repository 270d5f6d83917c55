SPECIFICATION FairSpec
CONSTANTS
  Sessions = {s1}
  MaxClients = 1
  Modes = {"BinaryAcknowledged", "TextPush"}
  Buffers = {1,2,3,4}
  NoBuffer = 0
  MaxVersions = 4
  MaxUpgrades = 2
  MaxCommands = 1
INVARIANTS
  TypeOK
  OneCredit
  SnapshotsGoForward
  SnapshotsAreStable
  PoolIsBounded
PROPERTIES
  NewestIsShown
CHECK_DEADLOCK FALSE
