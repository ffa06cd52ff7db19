SPECIFICATION FairSpec
CONSTANTS
  Jobs = {j1}
  NoJob = NoJob
  Workers = {w1, w2}
  MaxAttempts = 2
  QueueFactor = 1
  Codes <- FewCodes
  BadURL = {}
  Deletable = {}
  MailboxDurable = TRUE
  MaxEvents = 1
  MaxFaults = 1
CHECK_DEADLOCK FALSE
PROPERTIES JobsSettle StopReturns
