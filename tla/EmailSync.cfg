\* One sync_emails call at a time.
CONSTANTS
  NULL = NULL
  b1 = b1
  b2 = b2
  Emails = {1, 2}
  Mailboxes <- Two
  FlagChoices = {0}
  MaxLog = 3
  Tasks = {t1}
  PageSize = 2
  MaxRounds = 2
  MaxObjectsInGet = 2
  InitialMail <- FewMails
  Scenarios <- SteadyScenarios
SPECIFICATION FairSpec
INVARIANTS TypeOK NothingStale NothingMissing
PROPERTIES Converges
