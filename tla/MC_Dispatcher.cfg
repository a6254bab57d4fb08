SPECIFICATION FairSpec
CONSTANTS
    k1 = k1
    k2 = k2
    one = one
    both = both
    Keys = {k1, k2}
    Patterns = {one, both}
    Matches <- MC_Matches
    Handlers = {h1, nil}
    NilHandler = nil
    i1 = i1
    i2 = i2
    Ids = {i1, i2}
    Goroutines = {g1}
    NotRunning = NotRunning
    MaxBatches = 1
INVARIANTS TypeOK WatchesAreDistinct DeliversToWatchers CompleteAndInOrder
PROPERTIES DispatchEnds
