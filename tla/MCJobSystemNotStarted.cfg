SPECIFICATION Spec
CONSTANTS
    j1 = j1
    i1 = i1
    i2 = i2
    NoInst = NoInst
    Jobs = {j1}
    Structured = {j1}
    Instances = {i1, i2}
    MaxSeq = 5
    MaxConns = 0
    MaxRetired = 1
    QueueCap = 1
    MaxConcurrent = 1
    MaxActive = 1
    MaxOutputSeq = 0
    MaxStopSeq = 2
INVARIANTS NotStartedIsSafe
SYMMETRY MCSymmetry
CHECK_DEADLOCK FALSE
