\* One token, two transactions (the second moves it twice), two verifications, two readers, one fault.
SPECIFICATION FairSpec
CONSTANTS
  t1 = t1
  a1 = a1
  a2 = a2
  w1 = w1
  r1 = r1
  r2 = r2
  Zero = Zero
  Null = Null
  Token = {t1}
  Address = {a1, a2}
  Worker = {w1}
  Reader = {r1, r2}
  Doubled = {2}
  HasBase = TRUE
  MaxMoves = 2
  MaxVerify = 2
  MaxFaults = 1
INVARIANTS OwnerWasHeld StaleOwnerExplained
PROPERTIES OwnerSettles
