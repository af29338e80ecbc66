SPECIFICATION Spec
CONSTANTS
    Kinds <- MCKinds
    Steps = 2
    MaxRequired = 3
    ChanCap = 1
    MaxSessions = 2
    MaxOutputs = 0
    MaxStops = 0
PROPERTIES TerminalDelivered
CHECK_DEADLOCK FALSE
