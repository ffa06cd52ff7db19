SPECIFICATION ProgressSpec
CONSTANTS
    Parts = {"relay", "full", "small", "presence", "forward", "listener"}
    Messages = {m1, m2}
    NoMsg = NoMsg
    Workers = {w1, w2}
    MaxRetries = 3
    BufSize = 1
    Nodes = {A, B}
    Users = {u, v}
    NoNode = NoNode
    Calls = {c1, c2, c3}
    Closer = Closer
    None = None
CHECK_DEADLOCK FALSE
INVARIANT RelayInv
INVARIANT CleanStopDrains
 
PROPERTY RelayFinishes
 
PROPERTY VisibleAgain
 
PROPERTY ListenerStopReturns
