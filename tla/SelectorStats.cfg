\* The selectors of both clients do not fit into the cache together; the estimates
\* outlive one tick; a failed probe; two slots.
CONSTANTS
    r1 = r1
    r2 = r2
    s1 = s1
    s2 = s2
    Requests <- MCRequests
    Visitors = {r2}
    Sels <- MCSels
    QueryOf <- MCQueryOf
    TimeOf <- MCTimeOf
    Empty = {s2}
    TTL = 1
    MaxEntries = 2
    Cap = 2
    MaxTime = 2
    MaxFaults = 1
    MaxVisits = 1
SPECIFICATION Spec
INVARIANTS CacheBounded SlotsMatchProbes
PROPERTIES LosesOnlyOldest EstimatesArrive
