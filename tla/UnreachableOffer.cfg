\* One admin, one project, one app.
SPECIFICATION Spec
CONSTANTS
  Projects = {p1}
  Apps = {a1}
  Images = {}
  Slugs = {s1}
  Bundles = {b1}
  Requests = {r1}
  None = None
CHECK_DEADLOCK FALSE
INVARIANTS
  OfferHasPage
