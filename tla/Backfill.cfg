\* One call at a time, of either kind.
CONSTANTS
  NULL = NULL
  b1 = b1
  Emails = {1, 2, 3, 4}
  Mailboxes <- One
  FlagChoices = {0}
  MaxLog = 2
  Tasks = {t1}
  PageSize = 1
  MaxRounds = 2
  MaxObjectsInGet = 2
  InitialMail <- History
  Scenarios <- Walks
  Limits <- NoLimit
  Overlap = FALSE
  MaxResets = 1
SPECIFICATION BackfillFairSpec
INVARIANTS BackfillTypeOK BackfilledTrue HistoryKept
PROPERTIES HistoryArrives
