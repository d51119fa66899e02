SPECIFICATION Spec
CONSTANTS
  Ports = {1, 2}
  Kinds = {"absent", "poe", "sfp"}
  Options <- MCOptions
  Asked <- MCAsked
INVARIANTS TypeOK TreeFollowsPorts
PROPERTIES WalkIsComplete WalkAscends FailsOnlyWhenStale NoSuchIsRight
