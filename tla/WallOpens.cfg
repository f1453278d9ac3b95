\* As Providers.cfg: how long the wall stays down while mock is the provider.
SPECIFICATION Spec
CONSTANTS
  Real = {"polar", "paddle"}
  Envs = {sandbox, production}
  production = production
  Default = production
  Apps = {a1}
  Products = {x1, x2}
  Requests = {r1, r2}
  Edits = 2
  Open = 1
  TTL = 1
  None = None
SYMMETRY Symmetry
\* Products and changes are bounded, so the system may stop.
CHECK_DEADLOCK FALSE
INVARIANT
  MockIsWalled
