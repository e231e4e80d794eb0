CONSTANTS
  p1 = p1  p2 = p2
  Paths = {p1, p2}
  Tokens = {1, 2}
  RemoteSeqs = {0, 1, 2}
  Concurrency = 1
  MaxQueueSize = 1
  MaxDrains = 1
  NoHint = NoHint
  Chunk = Chunk
  Undecodable = {}
  Conflicted = {p2}
  Unplanned = {p1}
  Kept = {p2}
  ReadOnly = TRUE
  Passes = {1, 2}
  NoPass = NoPass
  MaxChanges = 2
  MaxLocal = 0
  MaxFaults = 1
  MaxStarts = 2
SPECIFICATION EngineSpec
INVARIANTS CheckpointSound ReceivedIsTracked
CHECK_DEADLOCK FALSE
