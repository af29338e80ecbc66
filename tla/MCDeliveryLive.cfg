SPECIFICATION Spec
CONSTANTS
    Kinds <- MCKinds
    Steps = 2
    MaxRequired = 2
    ChanCap = 1
    MaxSessions = 2
    MaxOutputs = 3
    MaxStops = 0
PROPERTIES DeliveredWhenConnected
CHECK_DEADLOCK FALSE
