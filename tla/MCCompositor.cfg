SPECIFICATION MCSpec
CONSTANTS
  NoWindow = NoWindow
  PopupMax = 4
  None = None
  AppsMatch <- MCAppsMatch
  TitlesMatch = {}
  LedgerCap = 1
  Toplevels = {s1, s2}
  Popups = {p1, p2}
  PidOf <- MCPidOf
  Apps = {"app"}
  Titles = {"t"}
  LaunchApp <- MCLaunchApp
  LaunchPid <- MCLaunchPid
  NoSurface = NoSurface
  MaxSeq = 11
  MaxKeys = 3
  MaxWindows = 2
  MaxLaunches = 2
VIEW View
SYMMETRY Symmetric
INVARIANTS
  BridgeCoherent
  PopupCountsAgree
  LaunchAttributedOnce
  SubscriberMirrorsState
PROPERTIES
  ImplementsRuntimeSource
CHECK_DEADLOCK FALSE
