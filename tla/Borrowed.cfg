\* Two projects that may name each other's card pictures, two handlers.
SPECIFICATION Spec
CONSTANTS
  Projects = {p1, p2}
  Apps = {}
  Images = {}
  Slugs = {}
  Bundles = {}
  Requests = {r1, r2}
  None = None
SYMMETRY ByRequest
\* Ids are bounded, so the system may stop.
CHECK_DEADLOCK FALSE
INVARIANTS
  PicturesStay
