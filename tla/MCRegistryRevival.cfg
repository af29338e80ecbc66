SPECIFICATION Spec
CONSTANTS
    j1 = j1
    j2 = j2
    i1 = i1
    NoInst = NoInst
    Jobs = {j1, j2}
    Instances = {i1}
    Structured = {j1}
    Detached = {}
    Reports <- MCFewReports
    Results = {}
    MaxSeq = 1
    MaxConns = 0
    MaxRetired = 1
    QueueCap = 1
    MaxReceipts = 1

PROPERTIES TerminalNeverRevives
CHECK_DEADLOCK FALSE
