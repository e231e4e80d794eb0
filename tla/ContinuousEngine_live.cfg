CONSTANTS
  p1 = p1  p2 = p2  p3 = p3
  Paths = {p1, p2, p3}
  Tokens = {1, 2}
  RemoteSeqs = {0, 1, 2}
  Concurrency = 1
  MaxQueueSize = 1
  MaxDrains = 1
  NoHint = NoHint
  Chunk = Chunk
  Undecodable = {}
  Conflicted = {p2}
  Unplanned = {p3}
  Kept = {p1, p2}
  ReadOnly = FALSE
  Passes = {1}
  NoPass = NoPass
  MaxChanges = 2
  MaxLocal = 1
  MaxFaults = 1
  MaxStarts = 1
SPECIFICATION FairEngineSpec
PROPERTIES RowsBecomeRequests EventuallyApplied
CHECK_DEADLOCK FALSE
