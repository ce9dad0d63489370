\* Two requests create the contract, two handlers, one fault.
SPECIFICATION FairSpec
CONSTANTS
  c1 = c1
  c2 = c2
  e1 = e1
  e2 = e2
  MaxRow = 5
  MaxToken = 2
  FirstCount = 2
  BatchCount = 1
  Creator = {c1, c2}
  Execution = {e1, e2}
  Mintable = {}
  MaxAge = 0
  MaxTransfer = 0
  MaxFaults = 1
PROPERTIES RowsClose CollectionIndexed
