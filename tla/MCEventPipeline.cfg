SPECIFICATION PipelineSpec
CONSTANTS
  WindowIds <- MCWindowIds
  SeqBound = 8
  JournalCap = 1
  NoWait = NoWait
  QueueCap = 2
  MaxActions = 1
  MaxReserved = 1
  NoSnapshot = NoSnapshot
VIEW View
INVARIANTS
  SnapshotNeverStale
  EffectsFollowTheirAction
  AgreesWhenDrained
PROPERTIES
  ReportsNeverGoBack
  CatchesUp
CHECK_DEADLOCK FALSE
