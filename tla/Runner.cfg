SPECIFICATION FairSpec
CONSTANTS
    w1 = w1
    w2 = w2
    Workers <- MCWorkers
    Configs <- MCConfigs
    Scenarios <- MCScenarios
    requestAttemptsLimit = 2
    consecutiveInvalidLimit = 2
    MaxTime = 3
    MaxChanges = 1
INVARIANTS Accounted FullRate HonestReport
PROPERTIES RunEnds
CHECK_DEADLOCK FALSE
