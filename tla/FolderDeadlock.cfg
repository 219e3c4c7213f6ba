\* A message may be in two mailboxes; nothing else goes wrong.
CONSTANTS
  NULL = NULL
  Boxes = {1, 2, 3}
  Mails = {m1}
  Names = {1, 2, 3, 4}
  Reuse = FALSE
  Single = FALSE
  MaxLog = 2
  MaxMoves = 1
  MaxFaults = 0
  InitialBoxes <- Trees
  InitialMail <- FiledTwice
SPECIFICATION FairSpec
PROPERTIES FoldersConverge
