\* Two requests at a time for the slots of one license, three machines.
SPECIFICATION FairSpec
CONSTANTS
  Requests = {r1, r2}
  Licenses = {l1}
  Machines = {m1, m2, m3}
  Grants = {1, 2}
  MaxCap = 2
  Nobody = Nobody
INVARIANTS
  TypeOK
  CapRespected
PROPERTIES
  NoEviction
  ImplementsSlots
  Answered
