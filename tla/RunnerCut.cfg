SPECIFICATION FairSpec
CONSTANTS
    w1 = w1
    w2 = w2
    Workers <- MCWorkers
    Configs <- MCConfigs
    Scenarios <- MCScenarios
    requestAttemptsLimit = 2
    consecutiveInvalidLimit = 2
    MaxTime = 2
    MaxChanges = 0
PROPERTIES CancellationIsNoEvidence
CHECK_DEADLOCK FALSE
