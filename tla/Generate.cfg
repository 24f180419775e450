SPECIFICATION GenSpec
CONSTANTS
    w = w
    redacted = redacted
    v1 = v1
    v2 = v2
    v3 = v3
    Requests = {r1, r2}
    Tenants = {t1, t2}
    ContextIDs = {c1}
    Words <- MCWords
    Values <- MCValues
    Critical <- MCValues
    Shape <- MCShape
    TTLs = {1}
    Redacted = redacted
    NoRecord = nil
    InputTexts <- MCInputTexts
    OfferedPolicies <- MCPolicies
    OfferedOps = {"mask", "process"}
    Additions <- MCAdditions
    MaxClock = 1
    MaxCancelled = 1
INVARIANTS OnlyOwnValues RestoredByMarkerOnly GoneOnlyAfterExpiry ProviderSeesNoCriticalValue ReuseProlongsNoLaxMask
SYMMETRY CallSymmetry
