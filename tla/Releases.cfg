\* One app, two versions, two file names, one license, one token, two requests
\* at a time.
SPECIFICATION Spec
CONSTANTS
  Apps = {a1}
  Files = {f1, f2}
  Versions = {1, 2}
  Licenses = {l1}
  Tokens = {t1}
  Requests = {r1, r2}
  TTL = 1
  None = None
SYMMETRY Symmetry
\* Tokens and versions are bounded, so the system may stop.
CHECK_DEADLOCK FALSE
INVARIANTS
  TypeOK
  DownloadsAreLicensed
  PathIsWhole
