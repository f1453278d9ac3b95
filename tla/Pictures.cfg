\* One project with two gallery pictures, two handlers at a time.
SPECIFICATION Spec
CONSTANTS
  Projects = {p1}
  Apps = {}
  Images = {i1, i2}
  Slugs = {}
  Bundles = {}
  Requests = {r1, r2}
  None = None
SYMMETRY ByRequest
\* Ids are bounded, so the system may stop.
CHECK_DEADLOCK FALSE
INVARIANTS
  PicturesStay
