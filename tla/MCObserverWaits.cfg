SPECIFICATION WaitsSpec
CONSTANTS
  JournalCap = 2
  NoWait = NoWait
  Waiters = {a}
  Window = 1
  Timeout = 2
  QuietMs = 1
  Lead = 1
  Delay = 0
  Plans <- TimedPlans
  MaxTime = 2
  OtherKinds = {"notice"}
  MaxEvents = 2
  MaxInputs = 2
  MaxWaits = 1
INVARIANTS
  NoLostWakeup
  QuietFlagAgrees
PROPERTIES
  ResolvesOnAllEvidence
  EveryWaitEnds
CHECK_DEADLOCK FALSE
