SPECIFICATION Spec
VIEW Matters
CONSTANTS
  Omissions = {{"counter"}, {"since"}, {"port"}}
  Modulus = 3
  MaxEvents = 3
  MaxStarts = 2
INVARIANTS TypeOK NothingInvented GraphInventsNothing
PROPERTY FallsOnlyAfterLoss
CHECK_DEADLOCK FALSE
