SPECIFICATION FairArmSpec
CONSTANTS
  Paths = {p1, p2}
  Contents = {c1, c2}
  NoFile = noFile
  NoRow = noRow
  NoBinding = noBinding
  Threshold = 2
  Modes = {"auto", "write", "readonly", "sync", "arm"}
  MaxEvents = 3
INVARIANT ArmTypeOK
INVARIANT WritesMatchTheRemote
INVARIANT DeletionsAreExplained
INVARIANT CheckpointCovers
PROPERTY ComesUp
CHECK_DEADLOCK FALSE
