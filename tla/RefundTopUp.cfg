\* Two purchases of one customer, one refunded.
\* Customers need not buy: when all is paid and handled, nothing has to happen.
CHECK_DEADLOCK FALSE
SPECIFICATION Spec
CONSTANTS
  Sessions = {s1, s2}
  c1 = c1
  Customers = {c1}
  Buyer <- OneCustomer
  Workers = {w1}
  LicenseIds = {l1, l2}
  Slots = 1
  MaxSlots = 2
  MaxVoids = 0
  MaxFails = 0
  None = None
INVARIANTS
  RefundTakesBack
