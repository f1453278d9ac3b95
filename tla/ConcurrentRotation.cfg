\* Two rotations at once.
SPECIFICATION KeySpec
CONSTANTS
  Rotations = {h1, h2}
  KeyIds = {k1, k2}
  NoKey = NoKey
CHECK_DEADLOCK FALSE
PROPERTIES
  ActivatesGiven
