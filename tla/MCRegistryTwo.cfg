SPECIFICATION Spec
CONSTANTS
    j1 = j1
    j2 = j2
    i1 = i1
    i2 = i2
    NoInst = NoInst
    Jobs = {j1, j2}
    Instances = {i1, i2}
    Structured = {j1}
    Detached = {j1}
    Reports <- MCFewReports
    Results = {}
    MaxSeq = 1
    MaxConns = 0
    MaxRetired = 1
    QueueCap = 1
    MaxReceipts = 1
INVARIANTS TypeOK QueuedExactlyWhenRequested ReceiptAgrees ActiveJobsOwnedByLease
PROPERTIES VerdictFinal
SYMMETRY MCSymmetry
CHECK_DEADLOCK FALSE
