CONSTANTS
    a = a
    b = b
    Pipeline = {a, b}
    Request <- MCRequest
    GlobalLimit = 2
    Weights = {1, 2}
    Caps = {1, 2}
    Costs = {1}
    Unit = 2
    MaxLag = 3
SPECIFICATION SchedulerFairSpec
INVARIANT SchedulerInv
PROPERTY NoStarvation
