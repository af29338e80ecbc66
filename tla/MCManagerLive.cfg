SPECIFICATION SteadySpec
CONSTANTS
    j1 = j1
    j2 = j2
    Jobs = {j1, j2}
    Structured = {j1}
    Validation = {}
    Steps = 1
    MaxConcurrent = 1
    MaxActive = 2
    MaxOutputSeq = 2
    MaxStopSeq = 2
INVARIANTS SlotBound NoLostWakeup NotStartedIsTruth
PROPERTIES LifecycleForward AcceptedEnds
CHECK_DEADLOCK FALSE
