SPECIFICATION FairSpec
CONSTANTS
    s1 = s1
    s2 = s2
    s3 = s3
    p1 = p1
    p2 = p2
    Session = {s1, s2}
    Product = {p1, p2}
    Txn = {t1, t2}
    Ref = {}
    Free = Free
    NoRef = NoRef
    Carts <- CrossCarts
    Adjustments <- None
    Overwrites <- None
    OpeningStock <- TwoEach
    MovementTypes <- Migrated
    StockChecked = TRUE
    MaxRequests = 4
INVARIANTS KeySellsOnce WholePostings
PROPERTIES EveryRequestEnds
