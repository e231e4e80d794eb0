\* Four paths compete for two slots and a queue of two: the queue overflows
\* while both slots are taken, and dirty hints meet pending ones.
CONSTANTS
  p1 = p1  p2 = p2  p3 = p3  p4 = p4
  Paths = {p1, p2, p3, p4}
  RemoteSeqs = {0}
  Concurrency = 2
  MaxQueueSize = 2
  MaxDrains = 1
  NoHint = NoHint
SPECIFICATION QuietPoolSpec
INVARIANTS PoolTypeOK PendingApart Bounded WorkConserving DrainWillWake
PROPERTIES ServesLikeExecutor HintsAreServed
