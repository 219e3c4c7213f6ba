CONSTANTS
  NULL = NULL
  Emails = {e1, e2}
  MaxAge = 1
  MaxTime = 3
SPECIFICATION Spec
INVARIANTS DualTruthInv
PROPERTIES PendingPreserved ImplementsOptimisticFlags
