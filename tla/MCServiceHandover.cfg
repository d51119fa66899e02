SPECIFICATION Spec
CONSTANTS
  N = 1
  BoxGid = TRUE
  Interval = 1
  MaxBackoff = 2
  DarkMax = 1
  RestartSec = 1
  Overflow = 3
  RetryAfters = {2}
  MaxEnds = 1
INVARIANT PoliteOnceCached
