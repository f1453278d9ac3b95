\* One project, two apps in a row, one gallery picture, two handlers at a time;
\* nobody types a slug, so pages go by the project's id.
SPECIFICATION Spec
CONSTANTS
  Projects = {p1}
  Apps = {a1, a2}
  Images = {i1}
  Slugs = {}
  Bundles = {b1, b2}
  Requests = {r1, r2}
  None = None
SYMMETRY Symmetry
VIEW Textless
\* Ids are bounded, so the system may stop.
CHECK_DEADLOCK FALSE
INVARIANTS
  TypeOK
  ExternalHasNoPage
  OrdersKeepProduct
  PicturesStay
