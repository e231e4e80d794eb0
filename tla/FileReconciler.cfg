CONSTANTS
  Texts = {c0, c1, c2}
  Binaries = {}
  Empty = c0
  Absent = Absent
  Vanished = Vanished
  Garbled = Garbled
  NoProv = NoProv
  Keys = {"path", "docId"}
  EncryptedPaths = FALSE
  ReadOnly = FALSE
  MaxEdits = 2
  MaxWrites = 1
  MaxFaults = 1
  MaxRevs = 4
  c0 = c0  c1 = c1  c2 = c2
SPECIFICATION FileSpec
INVARIANTS FileTypeOK ProvenanceSound NothingReadIsLost
PROPERTY SupersedesReflected
CHECK_DEADLOCK FALSE
