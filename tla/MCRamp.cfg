SPECIFICATION Spec
CONSTANTS
  MaxWindow = 3
  MaxTime = 8
  MaxTotal = 5
INVARIANTS TypeOK NothingInvented
PROPERTIES FallsOnlyWithClock SeamPaysInFull PaidWithinMaxWindow
