\* No default socket; four heads, three confirmations to choose from, two changes.
SPECIFICATION EvmFairSpec
CONSTANTS
  u1 = u1
  u2 = u2
  NoUrl = NoUrl
  Url = {u1, u2}
  DefaultRpc = u1
  DefaultWss = NoUrl
  DefaultConf = 2
  Conf = {1, 4}
  MaxConf = 4
  MaxHead = 9
  MaxClose = 1
  MaxChange = 2
CHECK_DEADLOCK FALSE
INVARIANTS DeafExplained GapExplained
PROPERTIES AlarmEnds
