\* One checkout, two deliveries of its order at a time, refund and void, an
\* order counted twice at most; two automatic discounts and a code, three
\* changes by the admin or the calendar.
SPECIFICATION Spec
CONSTANTS
  a1 = a1
  a2 = a2
  Apps = {a1}
  Scopes = {a1, a2}
  Edits = 3
  Prices <- MCPrices
  Autos = {d1, d2}
  Offers <- MCOffers
  Limits = {1}
  Checkouts = {s1}
  Overlap = 2
  Repeats = 2
  None = None
SYMMETRY Symmetry
\* Checkouts are bounded, so the system may stop.
CHECK_DEADLOCK FALSE
INVARIANTS
  TypeOK
  ChargedWithinList
  ShownIsCharged
  UsesAreOrders
