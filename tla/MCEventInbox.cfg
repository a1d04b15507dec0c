SPECIFICATION InboxSpec
CONSTANTS
  Clients = {c1, c2}
  NoteIds = {1}
  InboxCap = 2
  BatchMax = 1
  Filters <- MCFilters
  Careful = TRUE
  MaxSeq = 3
INVARIANTS
  StoreAndStreamAgree
  MissesOnlyLateOrEvicted
PROPERTIES
  MatchingEventWakes
CHECK_DEADLOCK FALSE
