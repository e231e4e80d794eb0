CONSTANTS
  Texts = {c0, c1, c2}
  Binaries = {}
  Empty = c0
  Absent = Absent
  Vanished = Vanished
  Garbled = Garbled
  NoProv = NoProv
  Keys = {"path"}
  EncryptedPaths = FALSE
  ReadOnly = FALSE
  MaxEdits = 2
  MaxWrites = 2
  MaxFaults = 1
  MaxRevs = 9
  c0 = c0  c1 = c1  c2 = c2
SPECIFICATION FairFileSpec
INVARIANT NoDuplicateRevisions
PROPERTIES InstallsForward Converges
CHECK_DEADLOCK FALSE
