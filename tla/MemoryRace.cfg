SPECIFICATION Spec
CONSTANTS
    w = w
    redacted = redacted
    v1 = v1
    v2 = v2
    Requests = {r1, r2, r3}
    Tenants = {t1, t2}
    ContextIDs = {c1}
    Words <- MCWords
    Values <- MCValues
    Critical <- MCValues
    Shape <- MCShape
    TTLs = {1, 2}
    Redacted = redacted
    NoRecord = nil
    InputTexts <- RaceTexts
    OfferedPolicies <- RacePolicies
    OfferedOps = {"process"}
    MaxClock = 2
    MaxCancelled = 1
INVARIANTS OneBindingAtATime OriginalsStayInTheirContext
PROPERTIES ImplementsRegister
SYMMETRY CallSymmetry
