SPECIFICATION Spec
CONSTANTS
  Jobs = {j1}
  NoJob = NoJob
  Workers = {w1, w2}
  MaxAttempts = 2
  QueueFactor = 1
  Codes <- AllCodes
  BadURL = {}
  Deletable = {}
  MailboxDurable = TRUE
  MaxEvents = 2
  MaxFaults = 2
CHECK_DEADLOCK FALSE
SYMMETRY WorkerSymmetry
INVARIANT LedgerTruthful
INVARIANT AttemptsHonest
INVARIANT CopiesHonest
