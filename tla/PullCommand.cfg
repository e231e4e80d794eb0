SPECIFICATION PullSpec
CONSTANTS
  NoteIds = {3, 4}
  ChunkIds = {1, 2}
  Bodies = {{1}, {2}, {1, 2}}
  FirstBody = {1}
  Unreadable = {{2}}
  Tombstone = deleted
  Gone = gone
  PageSize = 2
  MaxEvents = 3
  Dedicated = TRUE
  NoFile = nofile
  NoRow = norow
INVARIANTS
  PullTypeOK
  PullCheckpointCovers
PROPERTIES
  OverwritesAreProven
  RepeatsNothing
  ChangesCoverPosition
CHECK_DEADLOCK FALSE
