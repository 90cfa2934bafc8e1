CONSTANTS
    Pod = {w1, w2}
    Item = {i1, i2}
    Pipe = {p1, p2}
    PageSize = 1
    BatchSize = 1
    MaxChanges = 2
    Scopes <- MCScopes
SPECIFICATION Spec
SYMMETRY Symmetric
INVARIANTS WatcherInv CaughtUp
PROPERTY NeverBack
