CONSTANTS
  p1 = p1  p2 = p2
  Paths = {p1, p2}
  Tokens = {1, 2, 3}
  RemoteSeqs = {0, 1, 2, 3}
  Concurrency = 1
  MaxQueueSize = 1
  MaxDrains = 1
  NoHint = NoHint
  Chunk = Chunk
  Undecodable = {p2}
  Conflicted = {}
  Unplanned = {}
  Kept = {}
  ReadOnly = FALSE
  Passes = {1}
  NoPass = NoPass
  MaxChanges = 3
  MaxLocal = 1
  MaxFaults = 1
  MaxStarts = 2
SPECIFICATION EngineSpec
INVARIANTS EngineTypeOK CheckpointSound ReceivedIsTracked
CHECK_DEADLOCK FALSE
