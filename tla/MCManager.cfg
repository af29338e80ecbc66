SPECIFICATION Spec
CONSTANTS
    j1 = j1
    j2 = j2
    Jobs = {j1, j2}
    Structured = {j1}
    Validation = {j2}
    Steps = 2
    MaxConcurrent = 1
    MaxActive = 2
    MaxOutputSeq = 2
    MaxStopSeq = 2
INVARIANTS TypeOK EndedIsQuiet SpawnedOnce ShutdownReachesAll OnlyEarlyStopRefused
CHECK_DEADLOCK FALSE
