SPECIFICATION FairSpec
CONSTANTS
  N = 2
  BoxGid = FALSE
  Interval = 2
  MaxBackoff = 4
  DarkMax = 2
  RestartSec = 1
  Overflow = 4
  RetryAfters = {0, 3, 7}
  MaxEnds = 2
INVARIANTS TypeOK SilenceMeansFresh FrozenIsAnnounced PollerIsPolite
PROPERTIES CacheLosesOnlyTheAbsent Recovers ServesThroughOutage
