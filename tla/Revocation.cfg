SPECIFICATION FairSpec
CONSTANTS
    s1 = s1
    Serials <- MCSerials
    Numbers <- MCNumbers
    MaxRevokes = 1
    MaxFaults = 1
INVARIANTS AckedIsPublished NoLostReload
PROPERTIES NeverReinstated RevokedIsEnforced
