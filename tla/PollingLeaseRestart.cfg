CONSTANTS
    NoPod = NoPod
    Pod = {a, b}
    TTL = 2
    MaxCall = 2
    Patience = 2
    MaxFaults = 0
    Releases = {TRUE}
SPECIFICATION Spec
INVARIANT OneWatcher
