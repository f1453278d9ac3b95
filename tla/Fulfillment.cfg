\* Two sessions of one customer, two deliveries at a time, one of which fails
\* at any of its points.
\* Customers need not buy: when all is paid and handled, nothing has to happen.
CHECK_DEADLOCK FALSE
SPECIFICATION Spec
CONSTANTS
  Sessions = {s1, s2}
  c1 = c1
  Customers = {c1}
  Buyer <- OneCustomer
  Workers = {w1, w2}
  LicenseIds = {l1, l2}
  Slots = 1
  MaxSlots = 2
  MaxVoids = 1
  MaxFails = 1
  None = None
SYMMETRY Symmetry
VIEW Undropped
INVARIANTS
  TypeOK
  FulfilledOnce
  RefundSticks
  SlotsMatchOrders
PROPERTIES
  HandledAtOnce
