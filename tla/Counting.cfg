\* Two checkouts and a code alone: two deliveries of an order at a time,
\* refunds and voids, an order counted twice at most, two changes to the code.
SPECIFICATION Spec
CONSTANTS
  a1 = a1
  a2 = a2
  Apps = {a1}
  Scopes = {a1, a2}
  Edits = 2
  Prices <- OnePrice
  Autos = {}
  Offers <- OneOffer
  Limits = {2}
  Checkouts = {s1, s2}
  Overlap = 2
  Repeats = 2
  None = None
SYMMETRY Symmetry
\* Checkouts are bounded, so the system may stop.
CHECK_DEADLOCK FALSE
INVARIANTS
  TypeOK
  UsesAreOrders
