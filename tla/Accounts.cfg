\* One address, two requests at a time, one restart with another list.
SPECIFICATION Spec
CONSTANTS
  Emails = {e1}
  Links = {t1, t2}
  UserIds = {u1, u2}
  Requests = {r1, r2}
  MaxStarts = 1
  MaxFaults = 1
  None = None
\* Links and user ids are bounded, so the system may stop.
CHECK_DEADLOCK FALSE
INVARIANTS
  TypeOK
  LinkOpensOnce
  VoidedLinkIsDead
  OneUserPerAddress
  NoStaleAdmin
