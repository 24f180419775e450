SPECIFICATION FairSpec
CONSTANTS
    w = w
    redacted = redacted
    v1 = v1
    v2 = v2
    k1 = k1
    k2 = k2
    r1 = r1
    r2 = r2
    Requests <- MCRequests
    Tenants = {t1}
    ContextIDs = {c1}
    Words <- MCWords
    Values <- MCValues
    Critical <- MCValues
    Shape <- MCShape
    TTLs = {2}
    Redacted = redacted
    NoRecord = nil
    NoEntry = none
    MaxCopies = 2
    Ring <- MCRing
    InputTexts <- MCInputTexts
    OfferedPolicies <- MCPolicies
    OfferedOps = {"process"}
    MaxClock = 2
    MaxCancelled = 1
INVARIANTS ConflictHasACause
PROPERTIES ImplementsRegister EveryCallAnswered
CHECK_DEADLOCK FALSE
