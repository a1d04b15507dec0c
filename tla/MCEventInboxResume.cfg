SPECIFICATION InboxSpec
CONSTANTS
  Clients = {c1}
  NoteIds = {1}
  InboxCap = 8
  BatchMax = 8
  Filters <- MCFilters
  Careful = FALSE
  MaxSeq = 3
INVARIANT ResumingMissesNothing
CHECK_DEADLOCK FALSE
