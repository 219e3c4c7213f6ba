\* Names are given once and a message is in one mailbox at a time.
CONSTANTS
  NULL = NULL
  Boxes = {1, 2, 3}
  Mails = {m1}
  Names = {1, 2, 3, 4}
  Reuse = FALSE
  Single = TRUE
  MaxLog = 2
  MaxMoves = 1
  MaxFaults = 1
  InitialBoxes <- Trees
  InitialMail <- Filed
SPECIFICATION FairSpec
INVARIANTS TypeOK FoldersAsOf MailKept
PROPERTIES FoldersConverge
