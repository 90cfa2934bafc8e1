CONSTANTS
    NoPod = NoPod
    Pod = {a, b, c}
    TTL = 3
    MaxCall = 2
    Patience = 2
    MaxFailures = 2
    MaxMishaps = 2
SPECIFICATION FairSpec
INVARIANT SingleActive
PROPERTY TakenOver
