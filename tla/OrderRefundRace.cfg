\* An order and its refund handled at once.
\* Customers need not buy: when all is paid and handled, nothing has to happen.
CHECK_DEADLOCK FALSE
SPECIFICATION Spec
CONSTANTS
  Sessions = {s1}
  c1 = c1
  Customers = {c1}
  Buyer <- OneCustomer
  Workers = {w1, w2}
  LicenseIds = {l1, l2}
  Slots = 1
  MaxSlots = 2
  MaxVoids = 0
  MaxFails = 0
  None = None
INVARIANTS
  StubIsFilled
