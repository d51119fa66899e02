SPECIFICATION Spec
CONSTANTS
  k1 = k1
  k2 = k2
  Keys = {k1, k2}
  Readings <- MCReadings
  MaxOffset = 1
INVARIANTS TypeOK CleanImage
PROPERTY Promise
