SPECIFICATION FairSpec
CONSTANTS
  NULL = NULL
  Callers = {c1}
  Emails = {e1, e2}
  Boxes = {b1}
  MaxRetries = 3
  MaxUploads = 1
\* Every caller makes one call: the system stops when all of them have ended.
CHECK_DEADLOCK FALSE
INVARIANTS
  TypeOK
  OkIsTrue
  NotFoundIsTrue
  OnlySilenceRepeats
  RefusedNotDone
PROPERTIES
  EveryCallEnds
