\* Two rows, two pods, two requests at once, three changes of the table, one crash.
SPECIFICATION Spec
CONSTANTS
  i1 = i1
  i2 = i2
  k1 = k1
  k2 = k2
  v1 = v1
  v2 = v2
  s1 = s1
  s2 = s2
  p1 = p1
  p2 = p2
  r1 = r1
  r2 = r2
  None = None
  Id = {i1, i2}
  Key = {k1, k2}
  Value = {v1, v2}
  Schema = {s1, s2}
  Fits <- MCFits
  SchemaOf <- MCSchemaOf
  Dto <- MCDto
  Seeded <- MCSeeded
  Pod = {p1, p2}
  Request = {r1, r2}
  MaxWrites = 3
  MaxCrash = 1
SYMMETRY Symmetry
CHECK_DEADLOCK FALSE
INVARIANTS RowsFit StoreCurrent CreatedMigrated
