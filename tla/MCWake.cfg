SPECIFICATION Spec
CONSTANTS
    MaxWakes = 2
    MaxAttempts = 2
    MaxGen = 2
    MaxMessages = 2
    MaxFaults = 1
    MaxCalls = 1
INVARIANTS TypeOK OneTurnPerWake AttemptsAgree MessagesCovered CarrierIsCurrent OldTurnIsStaleUnlessUnbound NoLostOpportunity
PROPERTIES FenceOneWay
CHECK_DEADLOCK FALSE
