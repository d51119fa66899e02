SPECIFICATION Spec
CONSTANTS
  StaleAfter = 1
  MaxCycle = 1
  MaxTime = 3
  MaxSkew = 1
INVARIANTS TypeOK AgeIsHonest UptimeNotAhead DiscontinuityIsPlaced
PROPERTY UptimeFallsOnlyWithCause
