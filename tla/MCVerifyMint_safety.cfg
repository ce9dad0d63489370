SPECIFICATION Spec
CONSTANTS
  c1 = c1
  c2 = c2
  e1 = e1
  e2 = e2
  MaxRow = 5
  MaxToken = 3
  FirstCount = 1
  BatchCount = 2
  Creator = {c1}
  Execution = {e1, e2}
  Mintable = {3}
  MaxAge = 1
  MaxTransfer = 1
  MaxFaults = 1
SYMMETRY Symmetry
INVARIANTS ChainUnbroken RowsAccounted BatchIndexed
PROPERTIES ImplementsLifecycle
