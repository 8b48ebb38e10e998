SPECIFICATION CatalogFairSpec
CONSTANTS
    a = a
    b = b
    c = c
    Item = {a, b, c}
    Started <- TwoRows
    BatchSize = 2
    MaxAttempts = 2
    Lag = 1
    MaxClock = 2
    MaxVersion = 2
    MaxFaults = 3
    MaxEvents = 3
INVARIANTS CheckpointIsSound
PROPERTIES GoesBackByLateBatch UndoneByEarlierFeed Converges
