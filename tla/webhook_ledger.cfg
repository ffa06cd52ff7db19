SPECIFICATION Spec
CONSTANTS
  Jobs = {j1, j2}
  NoJob = NoJob
  Workers = {w1}
  MaxAttempts = 2
  QueueFactor = 1
  Codes <- FewCodes
  BadURL = {j2}
  Deletable = {j1}
  MailboxDurable = FALSE
  MaxEvents = 1
  MaxFaults = 1
CHECK_DEADLOCK FALSE
 
PROPERTY ImplementsLedger
