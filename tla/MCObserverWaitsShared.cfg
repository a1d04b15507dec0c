SPECIFICATION WaitsSpec
CONSTANTS
  JournalCap = 2
  NoWait = NoWait
  Waiters = {a, b}
  Window = 1
  Timeout = 1
  QuietMs = 1
  Lead = 0
  Delay = 0
  Plans <- SharedPlans
  MaxTime = 1
  OtherKinds = {}
  MaxEvents = 2
  MaxInputs = 1
  MaxWaits = 1
SYMMETRY Symmetric
INVARIANTS
  RegistrationsExact
CHECK_DEADLOCK FALSE
