CONSTANTS
    Configured = {"dispatcher"}
    NodeID = "n1"
    Temp = FALSE
    MaxStarts = 2
    MaxHandlers = 1
SPECIFICATION Spec
CHECK_DEADLOCK FALSE
INVARIANT KeySurvivesRestart
