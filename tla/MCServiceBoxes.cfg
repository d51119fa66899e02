SPECIFICATION Spec
CONSTANTS
  N = 1
  BoxGid = FALSE
  Interval = 1
  MaxBackoff = 2
  DarkMax = 1
  RestartSec = 1
  Overflow = 3
  RetryAfters = {2}
  MaxEnds = 1
PROPERTY NoExitOnApiProblem
