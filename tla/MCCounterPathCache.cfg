SPECIFICATION Spec
CONSTANTS
  Omissions = {}
  Modulus = 3
  MaxEvents = 3
  MaxStarts = 3
INVARIANT CacheInventsNothing
CHECK_DEADLOCK FALSE
