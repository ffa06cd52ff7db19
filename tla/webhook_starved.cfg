SPECIFICATION FairSpec
CONSTANTS
  Jobs = {j1, j2}
  NoJob = NoJob
  Workers = {w1}
  MaxAttempts = 1
  QueueFactor = 1
  Codes <- FewCodes
  BadURL = {}
  Deletable = {j1}
  MailboxDurable = TRUE
  MaxEvents = 1
  MaxFaults = 0
CHECK_DEADLOCK FALSE
PROPERTY SweeperPicksUpPersisted
