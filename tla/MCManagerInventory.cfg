SPECIFICATION Spec
CONSTANTS
    j1 = j1
    Jobs = {j1}
    Structured = {j1}
    Validation = {}
    Steps = 1
    MaxConcurrent = 1
    MaxActive = 1
    MaxOutputSeq = 2
    MaxStopSeq = 2
INVARIANTS InventoryAccepted
CHECK_DEADLOCK FALSE
