SPECIFICATION FairSpec
CONSTANTS
    Data <- MCData
    Control <- MCControl
    None = "none"
    Script <- OneWay
    Sockets = {1, 2, 3}
    MaxFaults = 2
    MaxLosses = 1
PROPERTIES ImplementsChannel EverythingArrives EndTogether
CHECK_DEADLOCK FALSE
