SPECIFICATION FairSpec
CONSTANTS
    r1 = r1
    r2 = r2
    Requests <- MCRequests
    ConcurrencyLimit = 1
    RequestTimeout = 2
    DrainDelay = 1
    ShutdownTimeout = 2
INVARIANTS SlotsMatchHolders NoWorkCut
PROPERTIES EveryRequestAnswered ShutdownCompletes
CHECK_DEADLOCK FALSE
