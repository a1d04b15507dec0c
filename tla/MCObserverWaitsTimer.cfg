SPECIFICATION WaitsSpec
CONSTANTS
  JournalCap = 2
  NoWait = NoWait
  Waiters = {a}
  Window = 1
  Timeout = 2
  QuietMs = 1
  Lead = 0
  Delay = 0
  Plans <- TimedPlans
  MaxTime = 4
  OtherKinds = {}
  MaxEvents = 1
  MaxInputs = 2
  MaxWaits = 1
INVARIANT TimerReachesHorizon
CHECK_DEADLOCK FALSE
