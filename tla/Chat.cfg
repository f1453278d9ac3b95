\* Two customers, one pseudonym, two requests at a time; deleted rows make
\* room for new ones.
SPECIFICATION Spec
CONSTANTS
  Users = {u1, u2}
  Names = {n1}
  Convs = {c1, c2}
  Msgs = {m1}
  Requests = {r1, r2}
  None = None
SYMMETRY Symmetry
\* Everybody may be erased.
CHECK_DEADLOCK FALSE
INVARIANT
  TypeOK
  ReadWasShown
PROPERTY
  BanHolds
