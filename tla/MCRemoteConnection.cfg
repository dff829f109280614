SPECIFICATION Spec
CONSTANTS
    Data <- MCData
    Control <- MCControl
    None = "none"
    Script <- BothWays
    Sockets = {1, 2, 3}
    MaxFaults = 2
    MaxLosses = 0
INVARIANTS TypeOK NothingForgotten OwedIsTimed ClientIsHeard
PROPERTIES RefusedOnlyWhenGone
\* both ends stop for good once the client has quit or given up
CHECK_DEADLOCK FALSE
