SPECIFICATION FairSpec
CONSTANTS
    s1 = s1
    s2 = s2
    a1 = a1
    a2 = a2
    Systems <- MCSystems
    Default = s1
    MockSystem = s1
    Admins <- MCAdmins
    MaxVersion = 3
    MaxKey = 3
    MaxFaults = 1
INVARIANTS NoDanglingKey SnapshotIsADocument
PROPERTIES NoLostUpdate RetiredKeyRefused
