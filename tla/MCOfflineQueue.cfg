SPECIFICATION FairSpec
CONSTANTS
    Sale = {s1, s2}
    Page = {p1, p2}
    NoSale = NoSale
    NoPage = NoPage
    MaxMoves = 1
    MaxFaults = 1
INVARIANTS QueueIsSound NoDoubleSale
PROPERTIES SyncedIsFinal QueueDrains
