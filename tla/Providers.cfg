CONSTANTS
    Callers = {c1, c2}
    MaxFailures = 2
    HalfOpenMax = 2
    ResetTimeout = 2
    NoBreaker = NoBreaker
    Keys = {k1, k2}  Rate = 2  Cost = 3  Burst = 2  MaxAge = 3  MaxTime = 5
    NoBucket = NoBucket
    Chain <- MCChain  Models <- MCModels  ModelMap <- MCModelMap  MaxDeltas = 2
    Vendors <- MCVendors  Requests <- MCRequests
    MaxEvents = 3  MaxCalls = 2  MaxIndex = 2  MaxAttempts = 3
SPECIFICATION GuardsSpec
\* The clock of the limiter is bounded, and a call to the chain returns.
CHECK_DEADLOCK FALSE
INVARIANTS TypesOK CountersFitState AskedAsMeant
PROPERTIES ClosesThroughProbes RateExact BreakerRecovers
