\* One operation, one change by another client, replies delivered, no restart.
CONSTANTS
  NULL = NULL
  Emails = {e1}
  MaxAge = 1
  Serial = TRUE
  LostReplies = FALSE
  MaxTime = 4
  MaxToggles = 1
  MaxChanges = 1
  MaxCrashes = 0
SPECIFICATION Spec
INVARIANT SettledShowsTruth
