SPECIFICATION FairPassSpec
CONSTANTS
  Paths = {a1, a2, n1}
  Twins = {a1, a2}
  Contents = {c0, c1, c2}
  Binaries = {c2}
  Empty = c0
  Absent = absent
  Garbled = garbled
  NoProv = noProv
  MaxEdits = 1
  MaxWrites = 1
  MaxFaults = 1
INVARIANT PassTypeOK
INVARIANT RowsAreTrue
INVARIANT SupersedesReflected
INVARIANT ConvergedMeansInSync
CHECK_DEADLOCK FALSE
PROPERTY Settles
