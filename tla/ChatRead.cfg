\* One customer, who may delete the chat and open another, two messages,
\* and two requests at a time.
SPECIFICATION Spec
CONSTANTS
  Users = {u1}
  Names = {n1}
  Convs = {c1, c2}
  Msgs = {m1, m2}
  Requests = {r1, r2}
  None = None
SYMMETRY Symmetry
CHECK_DEADLOCK FALSE
INVARIANT
  ReadWasShown
