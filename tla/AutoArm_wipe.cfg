SPECIFICATION ArmSpec
CONSTANTS
  Paths = {p1, p2, p3}
  Contents = {c1}
  NoFile = noFile
  NoRow = noRow
  NoBinding = noBinding
  Threshold = 2
  Modes = {"auto"}
  MaxEvents = 4
INVARIANT DeletionsAreTheUsers
CHECK_DEADLOCK FALSE
