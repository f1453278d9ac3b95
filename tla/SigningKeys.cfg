\* Three rotations at once.
SPECIFICATION KeySpec
CONSTANTS
  Rotations = {h1, h2, h3}
  KeyIds = {k1, k2, k3}
  NoKey = NoKey
\* KeyIds bounds the rotations, so the system stops.
CHECK_DEADLOCK FALSE
INVARIANTS
  KeyTypeOK
  CirclesNeedCleanup
PROPERTIES
  KeyLostOnlyToCleanup
  RotationEnds
