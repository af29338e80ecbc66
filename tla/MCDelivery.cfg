SPECIFICATION Spec
CONSTANTS
    Kinds <- MCKinds
    Steps = 2
    MaxRequired = 2
    ChanCap = 1
    MaxSessions = 2
    MaxOutputs = 0
    MaxStops = 1
INVARIANTS TypeOK NoSkippedStep OutcomeAgrees EndNotForgotten
CHECK_DEADLOCK FALSE
