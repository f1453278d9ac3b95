\* One of two automatic discounts is the cheaper one, and is not shown.
SPECIFICATION Spec
CONSTANTS
  a1 = a1
  a2 = a2
  Apps = {a1}
  Scopes = {a1, a2}
  Edits = 3
  Prices <- MCPrices
  Autos = {d1, d2}
  Offers <- MCOffers
  Limits = {0, 1}
  Checkouts = {s1, s2}
  Overlap = 0
  Repeats = 0
  None = None
SYMMETRY Symmetry
\* Checkouts are bounded, so the system may stop.
CHECK_DEADLOCK FALSE
INVARIANTS
  CheapestWins
