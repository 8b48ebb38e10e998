SPECIFICATION Spec
CONSTANTS
    s1 = s1
    s2 = s2
    s3 = s3
    p1 = p1
    p2 = p2
    Session = {s1, s2}
    Product = {p1, p2}
    Txn = {t1, t2}
    Ref = {r1, r2}
    Free = Free
    NoRef = NoRef
    Carts <- MixedCarts
    Adjustments <- None
    Overwrites <- None
    OpeningStock <- TwoEach
    MovementTypes <- Unconstrained
    StockChecked = FALSE
    MaxRequests = 5
SYMMETRY Symmetry
INVARIANTS StatusTellsGoods
PROPERTIES KeepsTheBooks CallbackCompletesPending
