SPECIFICATION Spec
CONSTANTS
  NoWindow = NoWindow
  PopupMax = 1
  Keys = {k1, k2, k3}
  Rects = {small, large}
  NoRect = NoRect
  Names = {app}
  MaxWindows = 3
  MaxCommit = 1
INVARIANTS
  TypeOK
  RepresentationsAgree
  ActionsKeepCallerInStep
PROPERTIES
  SurvivorsKeepHistory
  ImplementsFocusStack
CHECK_DEADLOCK FALSE
