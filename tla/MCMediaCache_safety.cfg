\* Two tokens that may share an image, two handlers, one cron run at a time.
SPECIFICATION Spec
CONSTANTS
  t1 = t1
  t2 = t2
  u1 = u1
  u2 = u2
  e1 = e1
  e2 = e2
  c1 = c1
  c2 = c2
  Nil = Nil
  Empty = Empty
  Blank = Blank
  Imageless = Imageless
  Token = {t1, t2}
  Uri = {u1, u2}
  Cached = {t1}
  IdOf <- SameId
  Serves <- Changing
  Execution = {e1, e2}
  Cron = {c1}
  MaxRow = 1
  MaxChange = 1
  MaxUpsert = 1
  MaxFaults = 0
SYMMETRY Symmetry
INVARIANTS TypeOK HasAssetIsTrue UploadRowsBounded
PROPERTIES CopyKept
