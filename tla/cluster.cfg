SPECIFICATION ClusterSpec
CONSTANTS
    Parts = {"presence", "domains", "forward"}
    Announcers = {n1, n2}
    HeartbeatTTL = 5
    MaxLost = 4
    Calls = {c1, c2}
    Members = {1, 2}
    Names = {1, 2}
    MaxDomFaults = 2
    Nodes = {A, B}
    Users = {u, v}
    NoNode = NoNode
    MaxRequests = 2
    MaxCalls = 4
    MaxFaults = 1
    MaxMoves = 1
SYMMETRY ClusterSymmetry
CHECK_DEADLOCK FALSE
INVARIANT PresenceTrue
 
INVARIANT RoutesStay
INVARIANT NoLoss
INVARIANT CopiesJustified
