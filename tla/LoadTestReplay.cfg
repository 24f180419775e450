SPECIFICATION Spec
CONSTANTS
    a1 = a1
    Admins <- MCAdmins
    MaxVersion = 2
    MaxRun = 1
    MaxCrashes = 1
INVARIANTS OneRunPerID
