SPECIFICATION Spec
CONSTANTS
    j1 = j1
    i1 = i1
    i2 = i2
    NoInst = NoInst
    Jobs = {j1}
    Instances = {i1, i2}
    Structured = {j1}
    Detached = {}
    Reports <- MCReports
    Results = {FALSE}
    MaxSeq = 2
    MaxConns = 2
    MaxRetired = 1
    QueueCap = 2
    MaxReceipts = 1
INVARIANTS ActiveJobsOwnedByLease HandedOutAtMostOnce ReceiptAgrees
PROPERTIES VerdictFinal OnlyLossesOverturned
SYMMETRY MCSymmetry
CHECK_DEADLOCK FALSE
