SPECIFICATION FairSpec
CONSTANTS
    a1 = a1
    Admins <- MCAdmins
    MaxVersion = 4
    MaxRun = 2
    MaxCrashes = 2
INVARIANTS OneRunAtATime StatusTellsTheTruth
PROPERTIES PersistedNeverReplayed StopTakesEffect StartTakesEffect
