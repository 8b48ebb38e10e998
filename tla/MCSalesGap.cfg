SPECIFICATION Spec
CONSTANTS
    s1 = s1
    s2 = s2
    s3 = s3
    p1 = p1
    p2 = p2
    Session = {s1, s2, s3}
    Product = {p1}
    Txn = {t1, t2}
    Ref = {}
    Free = Free
    NoRef = NoRef
    Carts <- SingleCarts
    Adjustments <- Corrections
    Overwrites <- SetToOne
    OpeningStock <- TwoEach
    MovementTypes <- Migrated
    StockChecked = FALSE
    MaxRequests = 4
SYMMETRY Symmetry
INVARIANTS NoOversell
PROPERTIES GapOnlyFromUnlocked
