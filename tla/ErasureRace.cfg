\* A login in the middle of an erasure.
SPECIFICATION Spec
CONSTANTS
  Emails = {e1}
  Links = {t1, t2}
  UserIds = {u1}
  Requests = {r1, r2}
  MaxStarts = 0
  MaxFaults = 0
  None = None
CHECK_DEADLOCK FALSE
PROPERTIES
  ErasureIsComplete
