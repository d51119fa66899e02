SPECIFICATION Spec
CONSTANTS
  FailThreshold = 3
  RecoverThreshold = 2
INVARIANTS TypeOK VerdictIsGiven OnlineWasRight IcmpWasRight
PROPERTY VerdictIsEarned
