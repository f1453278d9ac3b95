\* One restart that takes an address off the list and is cut short once.
SPECIFICATION Spec
CONSTANTS
  Emails = {e1}
  Links = {t1}
  UserIds = {u1}
  Requests = {r1}
  MaxStarts = 1
  MaxFaults = 1
  None = None
CHECK_DEADLOCK FALSE
INVARIANTS
  RemovedIsLoggedOut
