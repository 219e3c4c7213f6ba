SPECIFICATION FairSpec
CONSTANTS
  NULL = NULL
  Emails = {e1}
  Subjects = {s1, s2}
  Parts = {p1}
  Views = {v1, v2}
  MaxQueue = 2
  MaxStarts = 2
INVARIANTS
  TypeOK
  SearchFindsRows
  BodyWhole
  Migrated
PROPERTIES
  BodyKept
  Served
