\* Two tokens with one id, late metadata, one failure.
SPECIFICATION FairSpec
CONSTANTS
  t1 = t1
  t2 = t2
  u1 = u1
  u2 = u2
  e1 = e1
  e2 = e2
  c1 = c1
  c2 = c2
  Nil = Nil
  Empty = Empty
  Blank = Blank
  Imageless = Imageless
  Token = {t1, t2}
  Uri = {u1}
  Cached = {t1}
  IdOf <- SameId
  Serves <- Anything
  Execution = {e1}
  Cron = {c1}
  MaxRow = 1
  MaxChange = 1
  MaxUpsert = 0
  MaxFaults = 1
PROPERTIES MediaSavedOrLinked MetadataArrives
