\* Heads 3 to 5, two handlers, one fault and one restart.
SPECIFICATION Spec
CONSTANTS
  e1 = e1
  e2 = e2
  Nobody = Nobody
  Conf = 1
  MaxHead = 5
  Execution = {e1, e2}
  MaxFaults = 1
  MaxRestart = 1
SYMMETRY Symmetry
INVARIANTS TypeOK HolesExplained RestartCatchesUp
PROPERTIES CursorRegressesOnlyWhenStale
