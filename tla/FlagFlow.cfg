\* Everything that can happen to one message: other clients, lost replies, a
\* restart, operations one at a time.
CONSTANTS
  NULL = NULL
  Emails = {e1}
  MaxAge = 1
  Serial = TRUE
  LostReplies = TRUE
  MaxTime = 4
  MaxToggles = 2
  MaxChanges = 1
  MaxCrashes = 1
SPECIFICATION Spec
INVARIANTS TypeOK OptimismHonoured
PROPERTIES PendingResolves FlowImplementsOptimisticFlags
