SPECIFICATION PipelineSpec
CONSTANTS
  WindowIds = {1}
  SeqBound = 10
  JournalCap = 8
  NoWait = NoWait
  QueueCap = 4
  MaxActions = 1
  MaxReserved = 0
  NoSnapshot = NoSnapshot
VIEW View
INVARIANT ChangeAfterActionIsCounted
CHECK_DEADLOCK FALSE
