SPECIFICATION Spec
CONSTANTS
  Ports = {1, 2}
  Kinds = {"absent", "poe", "sfp"}
  Options <- MCOptions
  Asked <- MCAsked
INVARIANT StpOnlyWhenEnabled
