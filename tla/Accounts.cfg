CONSTANTS
  NULL = NULL
  l1 = l1
  l2 = l2
  p1 = p1
  Ids <- MCIds
  Logins <- MCLogins
  Passwords <- MCPasswords
  Reach <- MCFlaky
  MaxGrants = 3
  MaxRestarts = 1
SPECIFICATION Spec
INVARIANTS
  TypeOK
  Resolvable
  RatchetHeld
SYMMETRY Symmetry
