SPECIFICATION MailSpec
CONSTANTS
    Parts = {"listener", "smtp", "open", "dkim", "lmtp", "memory", "redis"}
    SessionConf <- MCSessionConf
    LockoutConf <- MCLockoutConf
    Calls = {c1, c2, c3, c4}
    Network = "unix"
    Shutdown = "graceful"
    MaxFaults = 1
    Closer = Closer
    None = None
CHECK_DEADLOCK FALSE
INVARIANT StopMeansStopped
 
INVARIANT SenderProven
INVARIANT OwnTransaction
INVARIANT NoFalseOK
INVARIANT AttemptsBounded
INVARIANT LockExact
