SPECIFICATION FairSpec
CONSTANTS
  c1 = c1
  c2 = c2
  e1 = e1
  e2 = e2
  MaxRow = 4
  MaxToken = 3
  FirstCount = 1
  BatchCount = 2
  Creator = {c1}
  Execution = {e1}
  Mintable = {2,3}
  MaxAge = 1
  MaxTransfer = 0
  MaxFaults = 0
PROPERTIES ResyncAfterAnHour
