\* One token (tokens share nothing), two requests, two rows, a verify_mint, one fault.
SPECIFICATION Spec
CONSTANTS
  t1 = t1
  q1 = q1
  q2 = q2
  Token = {t1}
  Request = {q1, q2}
  HasBase = TRUE
  MaxVersion = 2
  MaxRows = 2
  MaxMints = 1
  MaxFaults = 1
CHECK_DEADLOCK FALSE
INVARIANTS OpenRowsBounded RequestCovered ShowsLatest
SYMMETRY Symmetry
